-------------------------- MODULE TerminalBundleProofs --------------------------
(* Theorems about TerminalBundle, for every set of modes and every bound.   *)
EXTENDS TerminalBundle, TLAPS, FiniteSetTheorems, SequenceTheorems

USE BundleConstants

--------------------------------------------------------------------------------
(* What the helpers write.                                                  *)

LEMMA OnlyNames == ASSUME NEW present \in BOOLEAN, NEW name \in Files PROVE Only(present, name) \in Seq(Files)
BY DEF Only

LEMMA OpeningNames ==
    ASSUME NEW outcome \in Outcomes, NEW patch \in BOOLEAN
    PROVE  Opening(outcome, patch) \in Seq(Files)
<1> {"final_report", "failure_report", "stopped_report", "patch", "test_log", "failure_log", "stopped_log"} \subseteq Files
  BY DEF Files
<1>1. Only(patch, "patch") \in Seq(Files)
  BY OnlyNames
<1>2. <<"final_report">> \in Seq(Files) /\ <<"test_log">> \in Seq(Files)
  OBVIOUS
<1>3. <<"failure_report", "failure_log">> \in Seq(Files) /\ <<"stopped_report", "stopped_log">> \in Seq(Files)
  OBVIOUS
<1>4. CASE outcome = "succeeded"
  BY <1>1, <1>2, <1>4, ConcatProperties DEF Opening
<1>5. CASE outcome = "failed"
  BY <1>1, <1>3, <1>5, ConcatProperties DEF Opening
<1>6. CASE outcome = "stopped"
  BY <1>1, <1>3, <1>6, ConcatProperties DEF Opening
<1> QED
  BY <1>4, <1>5, <1>6 DEF Outcomes

LEMMA ClosingNames ==
    ASSUME NEW archive \in BOOLEAN
    PROVE  Only(archive, "archive") \in Seq(Files) /\ Closing(archive) \in Seq(Files)
<1>1. Only(archive, "archive") \in Seq(Files)
  BY OnlyNames DEF Files
<1>2. <<"result", "zip">> \in Seq(Files)
  BY DEF Files
<1> QED
  BY <1>1, <1>2, ConcatProperties DEF Closing

LEMMA FirstNames ==
    ASSUME NEW names \in Seq(Files), NEW n \in 0..Len(names)
    PROVE  First(names, n) = {names[i] : i \in 1..n} /\ First(names, n) \subseteq Range(names)
<1>1. SubSeq(names, 1, n) \in Seq(Files) /\ Len(SubSeq(names, 1, n)) = n
      /\ \A i \in 1..n : SubSeq(names, 1, n)[i] = names[i]
  BY SubSeqProperties
<1> DEFINE some == SubSeq(names, 1, n)
<1>2. Range(some) = {names[i] : i \in 1..n}
  <2>1. DOMAIN some = 1..n
    BY <1>1
  <2> HIDE DEF some
  <2> QED
    BY <1>1, <2>1 DEF Range, some
<1>3. {names[i] : i \in 1..n} \subseteq Range(names)
  BY DEF Range
<1> QED
  BY <1>2, <1>3 DEF First

LEMMA SegmentNames ==
    ASSUME NEW t \in Tasks, tasks[t].outcome \in Outcomes, NEW patch \in BOOLEAN, NEW archive \in BOOLEAN
    PROVE  Segment(t, patch, archive) \in Seq(Files)
<1>1. <<"commit">> \in Seq(Files) /\ <<>> \in Seq(Files)
  BY DEF Files
<1> QED
  BY <1>1, OpeningNames, ClosingNames DEF Segment

LEMMA RangeNames == ASSUME NEW names \in Seq(Files) PROVE Range(names) \subseteq Files
BY DEF Range

--------------------------------------------------------------------------------
(* The invariant.                                                           *)

FilesTyped ==
    /\ dir \in [Files -> 0..started]
    /\ rows \subseteq [file : Files, export : 1..started]
    /\ result \in [outcome : Outcomes, files : SUBSET Files]
    /\ zipped \in SUBSET Files
    /\ told \in {"none", "created", "failed", "skipped"}

Resting == {"idle", "working", "over"}

(* A task that exports has a number.                                        *)
TasksTyped ==
    /\ started \in Numbers
    /\ tasks \in [Tasks -> [phase : Phases, export : 0..started, outcome : Outcomes, created : SUBSET Files]]
    /\ \A t \in Tasks : tasks[t].phase \notin Resting => tasks[t].export # 0

WorldTyped ==
    /\ mode \in Modes
    /\ row \in [status : {"running"} \cup Outcomes, artifact : 0..started]
    /\ remote \in [branch : 0..started, requests : SUBSET (1..started)]
    /\ orphans \subseteq [command : Commands, export : 1..started]

Typed == FilesTyped /\ TasksTyped /\ WorldTyped

(* While a pull request is opened, the branch is that of the export.        *)
Requested ==
    /\ remote.requests = {} \/ \E e \in 1..started : remote.requests = {e}
    /\ tasks["runner"].phase = "create" => remote.branch = tasks["runner"].export /\ remote.branch # 0
    /\ told = "created" => remote.branch # 0 /\ ReportedPullRequest

BundleInv == Typed /\ Requested

LEMMA Started == TasksTyped => started \in Nat
BY DEF TasksTyped, Numbers

LEMMA Counting ==
    ASSUME TasksTyped, started' = started \/ started' = started + 1
    PROVE  0..started \subseteq 0..started' /\ 1..started \subseteq 1..started'
BY Started

--------------------------------------------------------------------------------
(* What a step leaves alone stays typed when exports are counted.           *)

LEMMA FilesKept ==
    ASSUME FilesTyped, TasksTyped, UNCHANGED bundle, started' = started \/ started' = started + 1
    PROVE  FilesTyped'
<1>1. 0..started \subseteq 0..started' /\ 1..started \subseteq 1..started'
  BY Counting
<1> QED
  BY <1>1 DEF FilesTyped, bundle

LEMMA WorldKept ==
    ASSUME WorldTyped, TasksTyped, mode' = mode, remote' = remote, orphans' = orphans,
           row' = row, started' = started \/ started' = started + 1
    PROVE  WorldTyped'
<1>1. 0..started \subseteq 0..started' /\ 1..started \subseteq 1..started'
  BY Counting
<1>2. remote' \in [branch : 0..started', requests : SUBSET (1..started')]
  BY <1>1 DEF WorldTyped
<1>3. orphans' \subseteq [command : Commands, export : 1..started']
  BY <1>1 DEF WorldTyped
<1>4. row' \in [status : {"running"} \cup Outcomes, artifact : 0..started']
  BY <1>1 DEF WorldTyped
<1> QED
  BY <1>2, <1>3, <1>4 DEF WorldTyped

(* A write of export e.                                                     *)
LEMMA Recorded ==
    ASSUME FilesTyped, TasksTyped, started' = started \/ started' = started + 1,
           NEW e \in 1..started', NEW files \in SUBSET Files, NEW listed \in SUBSET Files, Record(e, files, listed)
    PROVE  dir' \in [Files -> 0..started'] /\ rows' \subseteq [file : Files, export : 1..started']
<1>1. 0..started \subseteq 0..started' /\ 1..started \subseteq 1..started' /\ e \in 0..started'
  BY Counting, Started
<1>2. dir' \in [Files -> 0..started']
  BY <1>1 DEF Record, FilesTyped
<1>3. rows' \subseteq [file : Files, export : 1..started']
  BY <1>1 DEF Record, FilesTyped
<1> QED
  BY <1>2, <1>3

LEMMA Written ==
    ASSUME FilesTyped, TasksTyped, started' = started \/ started' = started + 1,
           NEW e \in 1..started', NEW names \in Seq(Files), Write(e, names)
    PROVE  dir' \in [Files -> 0..started'] /\ rows' \subseteq [file : Files, export : 1..started']
BY RangeNames, Recorded DEF Write

(* Tasks that begin an export and tasks that move on.                       *)
LEMMA Begun ==
    ASSUME TasksTyped, NEW t \in Tasks, NEW outcome \in Outcomes, NEW phase \in Phases,
           NEW created \in Seq(Files), Begin(t, outcome, phase, created)
    PROVE  /\ TasksTyped' /\ started' = started + 1 /\ started' \in 1..started'
           /\ tasks'[t].phase = phase /\ \A u \in Tasks \ {t} : tasks'[u] = tasks[u]
<1>1. started \in Nat /\ started' = started + 1 /\ started' \in Numbers
  BY Started DEF Begin, TasksTyped, Numbers
<1>2. Range(created) \subseteq Files /\ 0..started \subseteq 0..started'
  BY <1>1, RangeNames
<1>3. [phase |-> phase, export |-> started + 1, outcome |-> outcome, created |-> Range(created)]
        \in [phase : Phases, export : 0..started', outcome : Outcomes, created : SUBSET Files]
  BY <1>1, <1>2
<1>4. tasks' \in [Tasks -> [phase : Phases, export : 0..started', outcome : Outcomes, created : SUBSET Files]]
  BY <1>2, <1>3 DEF Begin, TasksTyped
<1> QED
  BY <1>1, <1>4 DEF Begin, TasksTyped

LEMMA Moved ==
    ASSUME TasksTyped, NEW t \in Tasks, NEW phase \in Phases, NEW more \in Seq(Files),
           Move(t, phase, more), started' = started, phase \in Resting \/ tasks[t].export # 0
    PROVE  /\ TasksTyped' /\ tasks'[t].phase = phase /\ tasks'[t].export = tasks[t].export
           /\ \A u \in Tasks \ {t} : tasks'[u] = tasks[u]
<1>1. Range(more) \subseteq Files
  BY RangeNames
<1>2. tasks' \in [Tasks -> [phase : Phases, export : 0..started', outcome : Outcomes, created : SUBSET Files]]
  BY <1>1 DEF Move, TasksTyped
<1> QED
  BY <1>2 DEF Move, TasksTyped

LEMMA Exporting ==
    ASSUME TasksTyped, NEW t \in Tasks, tasks[t].phase \notin Resting
    PROVE  tasks[t].export \in 1..started /\ tasks[t].outcome \in Outcomes
BY Started DEF TasksTyped

(* The commands.                                                            *)
LEMMA Effects ==
    ASSUME WorldTyped, NEW c \in Commands, NEW e \in 1..started, started \in Nat
    PROVE  /\ Effect(c, e) \in [branch : 0..started, requests : SUBSET (1..started)]
           /\ remote.branch # 0 => Effect(c, e).branch = remote.branch
           /\ remote.requests # {} => Effect(c, e).requests = remote.requests
           /\ Effect(c, e).requests \in {remote.requests, {e}}
BY DEF WorldTyped, Effect, Commands

(* Every step but the two that follow push and create.                      *)
LEMMA RequestsKept ==
    ASSUME WorldTyped, TasksTyped, Requested,
           remote' = remote \/ \E c \in Commands, e \in 1..started : remote' = Effect(c, e),
           tasks'["runner"].phase = "create" =>
               tasks["runner"].phase = "create" /\ tasks'["runner"].export = tasks["runner"].export,
           told' = "created" => told = "created" /\ dir'["pull_request"] = dir["pull_request"],
           started' = started \/ started' = started + 1
    PROVE  Requested'
<1>1. 1..started \subseteq 1..started' /\ started \in Nat
  BY Counting, Started
<1>2. /\ remote.branch # 0 => remote'.branch = remote.branch
      /\ remote.requests # {} => remote'.requests = remote.requests
      /\ remote'.requests = remote.requests \/ \E e \in 1..started : remote'.requests = {e}
  BY <1>1, Effects
<1>3. (remote.requests = {} \/ \E e \in 1..started : remote.requests = {e})'
  BY <1>1, <1>2 DEF Requested
<1>4. (tasks["runner"].phase = "create" => remote.branch = tasks["runner"].export /\ remote.branch # 0)'
  BY <1>2 DEF Requested
<1>5. (told = "created" => remote.branch # 0 /\ ReportedPullRequest)'
  BY <1>2 DEF Requested, ReportedPullRequest
<1> QED
  BY <1>3, <1>4, <1>5 DEF Requested

--------------------------------------------------------------------------------
(* The steps.                                                               *)

LEMMA InvInit == BundleInit => BundleInv
<1> SUFFICES ASSUME BundleInit PROVE BundleInv
  OBVIOUS
<1>1. started = 0 /\ started \in Numbers
  BY DEF BundleInit, Numbers
<1>2. FilesTyped
  BY <1>1 DEF BundleInit, FilesTyped, Outcomes
<1>3. TasksTyped
  BY <1>1 DEF BundleInit, TasksTyped, Idle, Tasks, Phases, Outcomes, Resting
<1>4. WorldTyped
  BY <1>1 DEF BundleInit, WorldTyped
<1>5. Requested
  BY DEF BundleInit, Requested, Idle, Tasks
<1> QED
  BY <1>2, <1>3, <1>4, <1>5 DEF BundleInv, Typed

(* A step that only begins exports.                                         *)
LEMMA BeginSteps == ASSUME BundleInv, Succeeds \/ Fails \/ ObservesStop \/ Finalizes PROVE BundleInv'
<1> USE DEF BundleInv, Typed
<1>p. {"diff", "over"} \subseteq Phases /\ {"succeeded", "failed", "stopped"} \subseteq Outcomes /\ <<>> \in Seq(Files)
  BY DEF Phases, Outcomes
<1>r. "runner" \in Tasks /\ "finalizer" \in Tasks /\ "over" \in Resting
  BY DEF Tasks, Resting
<1>1. UNCHANGED world /\ UNCHANGED row /\ UNCHANGED bundle
  BY DEF Succeeds, Fails, ObservesStop, Finalizes
<1>2. /\ TasksTyped'
      /\ started' = started \/ started' = started + 1
      /\ tasks'["runner"].phase = "create" => tasks'["runner"] = tasks["runner"]
  <2>1. ASSUME NEW t \in Tasks, NEW o \in Outcomes, Begin(t, o, "diff", <<>>)
        PROVE  /\ TasksTyped' /\ started' = started + 1
               /\ tasks'["runner"].phase = "create" => tasks'["runner"] = tasks["runner"]
    BY <1>p, <1>r, <2>1, Begun
  <2>2. CASE UNCHANGED started /\ Move("runner", "over", <<>>)
    BY <1>p, <1>r, <2>2, Moved
  <2>3. CASE Fails
    BY <1>p, <1>r, <2>1, <2>3 DEF Fails
  <2>4. CASE ObservesStop
    BY <1>p, <1>r, <2>1, <2>2, <2>4 DEF ObservesStop
  <2>5. CASE Finalizes
    BY <1>p, <1>r, <2>1, <2>5 DEF Finalizes
  <2>6. CASE Succeeds
    BY <1>p, <1>r, <2>1, <2>6 DEF Succeeds
  <2> QED
    BY <2>3, <2>4, <2>5, <2>6
<1>3. FilesTyped'
  BY <1>1, <1>2, FilesKept
<1>4. WorldTyped'
  BY <1>1, <1>2, WorldKept DEF world
<1>5. Requested'
  BY <1>1, <1>2, RequestsKept DEF world, bundle
<1> QED
  BY <1>2, <1>3, <1>4, <1>5

LEMMA OpensStep == ASSUME BundleInv, NEW t \in Tasks, NEW patch \in BOOLEAN, Opens(t, patch) PROVE BundleInv'
<1> USE DEF BundleInv, Typed
<1> DEFINE opening == Opening(tasks[t].outcome, patch)
<1>1. tasks[t].export \in 1..started /\ tasks[t].outcome \in Outcomes
  BY Exporting DEF Opens, At, Resting
<1>2. opening \in Seq(Files)
  BY <1>1, OpeningNames
<1>3. TasksTyped' /\ started' = started /\ (tasks'["runner"].phase = "create" => tasks'["runner"] = tasks["runner"])
  <2>1. Following(t) \in Phases \ {"create"}
        /\ Move(t, Following(t), opening) /\ started' = started /\ tasks[t].export # 0
    BY <1>1 DEF Opens, Phases, Following
  <2>2. TasksTyped' /\ tasks'[t].phase = Following(t) /\ \A u \in Tasks \ {t} : tasks'[u] = tasks[u]
    BY <1>2, <2>1, Moved
  <2> QED
    BY <2>1, <2>2 DEF Tasks
<1>4. dir' \in [Files -> 0..started'] /\ rows' \subseteq [file : Files, export : 1..started']
  BY <1>1, <1>2, <1>3, Written DEF Opens
<1>5. FilesTyped'
  BY <1>4 DEF Opens, FilesTyped
<1>6. WorldTyped'
  BY <1>3, WorldKept DEF Opens, world
<1>7. "pull_request" \notin Range(opening)
  BY DEF Opening, Only, Range
<1>8. dir'["pull_request"] = dir["pull_request"]
  BY <1>7 DEF Opens, Write, Record, Files
<1>9. Requested'
  BY <1>3, <1>8, RequestsKept DEF Opens, world
<1> QED
  BY <1>3, <1>4, <1>5, <1>6, <1>9

LEMMA CommitsStep == ASSUME BundleInv, Commits PROVE BundleInv'
<1> USE DEF BundleInv, Typed
<1>1. tasks["runner"].export \in 1..started /\ "runner" \in Tasks
  BY Exporting DEF Commits, At, Resting, Tasks
<1>2. <<"commit">> \in Seq(Files) /\ "pull_request" \notin Range(<<"commit">>)
  BY DEF Files, Range
<1>3. TasksTyped' /\ started' = started /\ tasks'["runner"].phase # "create"
  <2>1. /\ started' = started /\ tasks["runner"].export # 0
        /\ \E phase \in {"prepare", "archive"} : Move("runner", phase, <<"commit">>)
    BY <1>1 DEF Commits
  <2> QED
    BY <1>1, <1>2, <2>1, Moved DEF Phases
<1>4. dir' \in [Files -> 0..started'] /\ rows' \subseteq [file : Files, export : 1..started']
  BY <1>1, <1>2, <1>3, Written DEF Commits
<1>5. FilesTyped'
  BY <1>4 DEF Commits, FilesTyped
<1>6. WorldTyped'
  BY <1>3, WorldKept DEF Commits, world
<1>7. dir'["pull_request"] = dir["pull_request"]
  BY <1>2 DEF Commits, Write, Record, Files
<1>8. Requested'
  BY <1>3, <1>7, RequestsKept DEF Commits, world
<1> QED
  BY <1>3, <1>4, <1>5, <1>6, <1>8

(* pull_request.txt.                                                        *)
LEMMA TellStep ==
    ASSUME FilesTyped, TasksTyped, NEW status \in {"created", "failed", "skipped"}, Tell(status),
           tasks["runner"].phase \notin Resting, UNCHANGED <<result, zipped, started>>
    PROVE  /\ TasksTyped' /\ FilesTyped'
           /\ tasks'["runner"].phase = "archive" /\ told' = status
           /\ dir'["pull_request"] = tasks["runner"].export
<1>1. tasks["runner"].export \in 1..started /\ "runner" \in Tasks
  BY Exporting DEF Tasks
<1>2. <<"pull_request">> \in Seq(Files) /\ "pull_request" \in Range(<<"pull_request">>)
  BY DEF Files, Range
<1>3. TasksTyped' /\ tasks'["runner"].phase = "archive"
  <2>1. "archive" \in Phases /\ tasks["runner"].export # 0 /\ Move("runner", "archive", <<"pull_request">>)
    BY <1>1 DEF Tell, Phases
  <2> QED
    BY <1>1, <1>2, <2>1, Moved
<1>4. dir' \in [Files -> 0..started'] /\ rows' \subseteq [file : Files, export : 1..started']
  BY <1>1, <1>2, Written DEF Tell
<1>5. FilesTyped'
  BY <1>4 DEF FilesTyped, Tell
<1>6. dir'["pull_request"] = tasks["runner"].export
  BY <1>2 DEF Tell, Write, Record, Files
<1> QED
  BY <1>3, <1>4, <1>5, <1>6 DEF Tell

LEMMA RemoteKept ==
    ASSUME WorldTyped, TasksTyped, remote' = remote \/ \E c \in Commands, e \in 1..started : remote' = Effect(c, e),
           started' = started \/ started' = started + 1
    PROVE  remote' \in [branch : 0..started', requests : SUBSET (1..started')]
<1>1. 0..started \subseteq 0..started' /\ 1..started \subseteq 1..started' /\ started \in Nat
  BY Counting, Started
<1>2. remote' \in [branch : 0..started, requests : SUBSET (1..started)]
  BY <1>1, Effects DEF WorldTyped
<1> QED
  BY <1>1, <1>2

LEMMA PreparesStep == ASSUME BundleInv, Prepares PROVE BundleInv'
<1> USE DEF BundleInv, Typed
<1>1. "runner" \in Tasks /\ tasks["runner"].phase \notin Resting /\ started' = started
  BY DEF Prepares, At, Resting, Tasks, world
<1>2. WorldTyped'
  BY <1>1, WorldKept DEF Prepares, world
<1>3. CASE Move("runner", "push", <<>>) /\ UNCHANGED bundle
  <2>1. TasksTyped' /\ tasks'["runner"].phase = "push"
    <3>1. "push" \in Phases /\ <<>> \in Seq(Files) /\ tasks["runner"].export # 0
      BY <1>1, Exporting DEF Phases
    <3> QED
      BY <1>1, <1>3, <3>1, Moved
  <2>2. FilesTyped'
    BY <1>1, <1>3, FilesKept
  <2>3. Requested'
    BY <1>1, <1>3, <2>1, RequestsKept DEF Prepares, world, bundle
  <2> QED
    BY <1>2, <2>1, <2>2, <2>3
<1>4. ASSUME NEW status \in {"failed", "skipped"}, Tell(status), UNCHANGED <<result, zipped>> PROVE BundleInv'
  <2>1. /\ TasksTyped' /\ FilesTyped'
        /\ tasks'["runner"].phase = "archive" /\ told' = status
    BY <1>1, <1>4, TellStep
  <2>2. Requested'
    BY <1>1, <2>1, RequestsKept DEF Prepares, world
  <2> QED
    BY <1>2, <2>1, <2>2
<1> QED
  BY <1>3, <1>4 DEF Prepares

LEMMA PushedStep == ASSUME BundleInv, Pushed PROVE BundleInv'
<1> USE DEF BundleInv, Typed
<1>1. /\ "runner" \in Tasks /\ tasks["runner"].phase \notin Resting /\ started' = started /\ started \in Nat
      /\ UNCHANGED bundle
  BY Started DEF Pushed, At, Resting, Tasks
<1>2. tasks["runner"].export \in 1..started
  BY <1>1, Exporting
<1>3. remote.branch = 0 /\ remote' = [remote EXCEPT !.branch = tasks["runner"].export]
  BY DEF Pushed, Effect
<1>4. remote'.branch = tasks["runner"].export /\ remote'.requests = remote.requests
  BY <1>3 DEF WorldTyped
<1>5. TasksTyped' /\ tasks'["runner"].export = tasks["runner"].export
  <2>1. "create" \in Phases /\ <<>> \in Seq(Files) /\ tasks["runner"].export # 0 /\ Move("runner", "create", <<>>)
    BY <1>2 DEF Phases, Pushed
  <2> QED
    BY <1>1, <2>1, Moved
<1>6. FilesTyped'
  BY <1>1, FilesKept
<1>7. WorldTyped'
  BY <1>1, <1>2, RemoteKept DEF Pushed, Commands, WorldTyped
<1>8. Requested'
  BY <1>1, <1>2, <1>3, <1>4, <1>5 DEF Requested, bundle
<1> QED
  BY <1>5, <1>6, <1>7, <1>8

LEMMA PullRequestCreatedStep == ASSUME BundleInv, PullRequestCreated PROVE BundleInv'
<1> USE DEF BundleInv, Typed
<1>1. "runner" \in Tasks /\ tasks["runner"].phase = "create" /\ started' = started /\ started \in Nat
  BY Started DEF PullRequestCreated, At, Tasks
<1>2. tasks["runner"].export \in 1..started /\ tasks["runner"].phase \notin Resting
  BY <1>1, Exporting DEF Resting
<1>3. remote.requests = {} /\ remote' = [remote EXCEPT !.requests = {tasks["runner"].export}]
  BY DEF PullRequestCreated, Effect
<1>4. remote'.branch = remote.branch /\ remote'.requests = {tasks["runner"].export}
  BY <1>3 DEF WorldTyped
<1>5. /\ TasksTyped' /\ FilesTyped'
      /\ tasks'["runner"].phase = "archive" /\ told' = "created" /\ dir'["pull_request"] = tasks["runner"].export
  BY <1>1, <1>2, TellStep DEF PullRequestCreated
<1>6. WorldTyped'
  BY <1>1, <1>2, RemoteKept DEF PullRequestCreated, Commands, WorldTyped
<1>7. Requested'
  BY <1>1, <1>2, <1>4, <1>5 DEF Requested, ReportedPullRequest
<1> QED
  BY <1>5, <1>6, <1>7

LEMMA CommandFailsStep == ASSUME BundleInv, CommandFails PROVE BundleInv'
<1> USE DEF BundleInv, Typed
<1>1. "runner" \in Tasks /\ tasks["runner"].phase \in Commands /\ started' = started
  BY DEF CommandFails, Tasks
<1>2. tasks["runner"].export \in 1..started /\ tasks["runner"].phase \notin Resting
  BY <1>1, Exporting DEF Resting, Commands
<1>3. remote' = remote \/ \E c \in Commands, e \in 1..started : remote' = Effect(c, e)
  BY <1>1, <1>2 DEF CommandFails
<1>4. /\ TasksTyped' /\ FilesTyped'
      /\ tasks'["runner"].phase = "archive" /\ told' = "failed"
  BY <1>1, <1>2, TellStep DEF CommandFails
<1>5. WorldTyped'
  BY <1>1, <1>3, RemoteKept DEF CommandFails, WorldTyped
<1>6. Requested'
  BY <1>1, <1>3, <1>4, RequestsKept
<1> QED
  BY <1>4, <1>5, <1>6

LEMMA OrphanEndsStep == ASSUME BundleInv, OrphanEnds PROVE BundleInv'
<1> USE DEF BundleInv, Typed
<1>1. UNCHANGED <<mode, row, bundle, tasks, started>>
  BY DEF OrphanEnds
<1>2. remote' = remote \/ \E c \in Commands, e \in 1..started : remote' = Effect(c, e)
  BY DEF OrphanEnds, WorldTyped
<1>3. orphans' \subseteq orphans
  BY DEF OrphanEnds
<1>4. FilesTyped'
  BY <1>1, FilesKept
<1>5. WorldTyped'
  BY <1>1, <1>2, <1>3, RemoteKept DEF WorldTyped
<1>6. Requested'
  BY <1>1, <1>2, RequestsKept DEF bundle
<1>7. TasksTyped'
  BY <1>1 DEF TasksTyped
<1> QED
  BY <1>4, <1>5, <1>6, <1>7

(* What a task's row may become.                                            *)
LEMMA Settled ==
    ASSUME WorldTyped, TasksTyped, NEW t \in Tasks, tasks[t].phase \notin Resting, NEW e \in {0, tasks[t].export},
           Settle(t, e), started' = started
    PROVE  row' \in [status : {"running"} \cup Outcomes, artifact : 0..started']
<1>1. e \in 0..started /\ tasks[t].outcome \in Outcomes
  BY Exporting, Started
<1> QED
  BY <1>1 DEF Settle, WorldTyped

LEMMA ArchivedStep == ASSUME BundleInv, NEW t \in Tasks, NEW archive \in BOOLEAN, Archived(t, archive) PROVE BundleInv'
<1> USE DEF BundleInv, Typed
<1> DEFINE names == Closing(archive)
           some == Only(archive, "archive")
<1>1. tasks[t].phase \notin Resting /\ started' = started /\ UNCHANGED <<mode, remote, orphans, told>>
  BY DEF Archived, At, Resting, world
<1>2. tasks[t].export \in 1..started /\ tasks[t].outcome \in Outcomes
  BY <1>1, Exporting
<1>3. names \in Seq(Files) /\ some \in Seq(Files) /\ Range(some) \subseteq Files
  BY ClosingNames, RangeNames
<1>4. "pull_request" \notin Range(names)
  BY DEF Closing, Only, Range
<1>5. TasksTyped' /\ (tasks'["runner"].phase = "create" => tasks'["runner"] = tasks["runner"])
  <2>1. /\ Ended(t) \in Phases /\ Ended(t) \in Resting /\ Ended(t) # "create"
        /\ <<>> \in Seq(Files) /\ Move(t, Ended(t), <<>>)
    BY DEF Archived, Ended, Phases, Resting
  <2>2. TasksTyped' /\ tasks'[t].phase = Ended(t) /\ \A u \in Tasks \ {t} : tasks'[u] = tasks[u]
    BY <1>1, <2>1, Moved
  <2> QED
    BY <2>1, <2>2 DEF Tasks
<1>6. dir' \in [Files -> 0..started'] /\ rows' \subseteq [file : Files, export : 1..started']
  BY <1>1, <1>2, <1>3, Written DEF Archived
<1>7. result' \in [outcome : Outcomes, files : SUBSET Files] /\ zipped' \in SUBSET Files
  <2>1. tasks[t].created \in SUBSET Files
    BY DEF TasksTyped
  <2>2. {"result", "zip"} \subseteq Files
    BY DEF Files
  <2> QED
    BY <1>2, <1>3, <2>1, <2>2 DEF Archived, Sealed, Named
<1>8. FilesTyped'
  BY <1>1, <1>6, <1>7 DEF FilesTyped
<1>9. WorldTyped'
  BY <1>1, Settled DEF Archived, WorldTyped
<1>10. dir'["pull_request"] = dir["pull_request"]
  BY <1>4 DEF Archived, Write, Record, Files
<1>11. Requested'
  BY <1>1, <1>5, <1>10, RequestsKept
<1> QED
  BY <1>5, <1>6, <1>8, <1>9, <1>11

(* A segment that is cut off.                                               *)
LEMMA SealedTyped ==
    ASSUME FilesTyped, TasksTyped, NEW t \in Tasks, NEW archive \in BOOLEAN, NEW files, Sealed(t, archive, files)
    PROVE  result' \in [outcome : Outcomes, files : SUBSET Files] /\ zipped' \in SUBSET Files
<1>1. tasks[t].created \in SUBSET Files /\ tasks[t].outcome \in Outcomes
  BY DEF TasksTyped
<1>2. Range(Only(archive, "archive")) \subseteq Files /\ {"result", "zip"} \subseteq Files
  BY ClosingNames, RangeNames DEF Files
<1> QED
  BY <1>1, <1>2 DEF Sealed, Named, FilesTyped

(* What the files of a segment are, but for pull_request.txt.               *)
LEMMA ListedNames ==
    ASSUME NEW names \in Seq(Files), NEW n \in 1..Len(names), NEW listed \in Listed(names, n)
    PROVE  First(names, n) \subseteq Files /\ listed \subseteq First(names, n)
<1>1. n \in 0..Len(names) /\ n - 1 \in 0..Len(names) /\ Len(names) \in Nat
  OBVIOUS
<1>2. First(names, n) \subseteq Range(names) /\ First(names, n - 1) \subseteq First(names, n)
  BY <1>1, FirstNames
<1> QED
  BY <1>2, RangeNames DEF Listed

LEMMA NoRequest ==
    ASSUME NEW t \in Tasks, tasks[t].outcome \in Outcomes, NEW patch \in BOOLEAN, NEW archive \in BOOLEAN
    PROVE  "pull_request" \notin Range(Segment(t, patch, archive))
<1>1. "pull_request" \notin Range(Opening(tasks[t].outcome, patch))
  BY DEF Opening, Only, Range, Outcomes
<1>2. "pull_request" \notin Range(<<"commit">>) /\ "pull_request" \notin Range(Closing(archive)) /\ "pull_request" \notin Range(<<>>)
  BY DEF Closing, Only, Range
<1> QED
  BY <1>1, <1>2 DEF Segment

LEMMA TornStep ==
    ASSUME FilesTyped, TasksTyped, NEW t \in Tasks, Torn(t),
           started' = started \/ started' = started + 1
    PROVE  /\ FilesTyped'
           /\ \/ told' = told /\ dir'["pull_request"] = dir["pull_request"]
              \/ told' = "failed"
              \/ /\ told' = "created" /\ tasks["runner"].phase = "create" /\ remote' # remote
                 /\ dir'["pull_request"] = tasks["runner"].export
<1>1. CASE UNCHANGED bundle
  BY <1>1, FilesKept DEF bundle
<1>t. tasks[t].outcome \in Outcomes
  BY DEF TasksTyped
<1>2. ASSUME NEW patch \in BOOLEAN, NEW archive \in BOOLEAN, NEW names, names = Segment(t, patch, archive),
             NEW n \in 1..Len(names), NEW listed \in Listed(names, n),
             Record(tasks[t].export, First(names, n), listed), Sealed(t, archive, First(names, n)), told' = told
      PROVE  FilesTyped' /\ dir'["pull_request"] = dir["pull_request"]
  <2>1. names \in Seq(Files) /\ "pull_request" \notin Range(names)
    BY <1>2, <1>t, SegmentNames, NoRequest
  <2>2. First(names, n) \subseteq Files /\ listed \subseteq First(names, n) /\ First(names, n) \subseteq Range(names)
    BY <1>2, <2>1, ListedNames, FirstNames
  <2>3. tasks[t].phase \notin Resting
    <3>1. names # <<>>
      BY <1>2
    <3> QED
      BY <1>2, <3>1 DEF Segment, At, Resting
  <2>4. tasks[t].export \in 1..started'
    BY <2>3, Exporting, Counting
  <2>5. dir' \in [Files -> 0..started'] /\ rows' \subseteq [file : Files, export : 1..started']
    BY <1>2, <2>2, <2>4, Recorded
  <2>6. result' \in [outcome : Outcomes, files : SUBSET Files] /\ zipped' \in SUBSET Files
    BY <1>2, SealedTyped
  <2>7. dir'["pull_request"] = dir["pull_request"]
    BY <1>2, <2>1, <2>2 DEF Record, Files
  <2> QED
    BY <1>2, <2>5, <2>6, <2>7 DEF FilesTyped
<1>3. ASSUME t = "runner", tasks[t].phase \in {"prepare"} \cup Commands,
             Record(tasks[t].export, {"pull_request"}, {}),
             told' = (IF tasks[t].phase = "create" /\ remote' # remote THEN "created" ELSE "failed"),
             UNCHANGED <<result, zipped>>
      PROVE  FilesTyped' /\ dir'["pull_request"] = tasks[t].export
  <2>1. tasks[t].export \in 1..started'
    BY <1>3, Exporting, Counting DEF Resting, Commands
  <2>2. dir' \in [Files -> 0..started'] /\ rows' \subseteq [file : Files, export : 1..started']
    BY <1>3, <2>1, Recorded DEF Files
  <2>3. dir'["pull_request"] = tasks[t].export
    BY <1>3 DEF Record, Files
  <2> QED
    BY <1>3, <2>2, <2>3 DEF FilesTyped
<1>4. CASE \E patch, archive \in BOOLEAN :
             LET names == Segment(t, patch, archive)
             IN \E n \in 1..Len(names) : \E listed \in Listed(names, n) :
                   /\ Record(tasks[t].export, First(names, n), listed)
                   /\ Sealed(t, archive, First(names, n))
                   /\ UNCHANGED told
  <2>1. PICK patch \in BOOLEAN, archive \in BOOLEAN :
             \E n \in 1..Len(Segment(t, patch, archive)) : \E listed \in Listed(Segment(t, patch, archive), n) :
                   /\ Record(tasks[t].export, First(Segment(t, patch, archive), n), listed)
                   /\ Sealed(t, archive, First(Segment(t, patch, archive), n))
                   /\ UNCHANGED told
    BY <1>4
  <2> QED
    BY <1>2, <2>1
<1>5. CASE /\ t = "runner" /\ tasks[t].phase \in {"prepare"} \cup Commands
           /\ Record(tasks[t].export, {"pull_request"}, {})
           /\ told' = IF tasks[t].phase = "create" /\ remote' # remote THEN "created" ELSE "failed"
           /\ UNCHANGED <<result, zipped>>
  BY <1>3, <1>5
<1> QED
  BY <1>1, <1>4, <1>5 DEF Torn

(* A pull request whose file was written, although the step failed.         *)
LEMMA RequestedAnyway ==
    ASSUME WorldTyped, TasksTyped, Requested, tasks["runner"].phase = "create", tasks'["runner"].phase # "create",
           remote' = Effect("create", tasks["runner"].export), remote' # remote,
           dir'["pull_request"] = tasks["runner"].export, started' = started \/ started' = started + 1
    PROVE  Requested'
<1>1. tasks["runner"].export \in 1..started' /\ "runner" \in Tasks
  BY Exporting, Counting DEF Resting, Tasks
<1>2. remote'.branch = remote.branch /\ remote'.requests = {tasks["runner"].export}
  BY DEF Effect, WorldTyped
<1> QED
  BY <1>1, <1>2 DEF Requested, ReportedPullRequest

LEMMA WriteFailsStep == ASSUME BundleInv, NEW t \in Tasks, WriteFails(t) PROVE BundleInv'
<1> USE DEF BundleInv, Typed
<1>1. tasks[t].phase \notin Resting /\ mode' = mode /\ orphans' = orphans
  BY DEF WriteFails, Resting
<1>2. tasks[t].export \in 1..started
  BY <1>1, Exporting
<1>3. remote' = remote \/ \E c \in Commands, e \in 1..started : remote' = Effect(c, e)
  BY <1>2 DEF WriteFails
<1>p. /\ {"diff", "over"} \subseteq Phases /\ "failed" \in Outcomes /\ <<>> \in Seq(Files)
      /\ Ended(t) \in Phases /\ Ended(t) \in Resting /\ Ended(t) # "create" /\ "over" \in Resting
  BY DEF Phases, Outcomes, Ended, Resting
<1>4. /\ TasksTyped'
      /\ started' = started \/ started' = started + 1
      /\ tasks'["runner"].phase = "create" => tasks'["runner"] = tasks["runner"]
      /\ row' \in [status : {"running"} \cup Outcomes, artifact : 0..started']
  <2>1. CASE Begin(t, "failed", "diff", <<>>) /\ UNCHANGED row
    <3>1. TasksTyped' /\ started' = started + 1 /\ tasks'[t].phase = "diff" /\ \A u \in Tasks \ {t} : tasks'[u] = tasks[u]
      BY <1>p, <2>1, Begun
    <3>2. row' \in [status : {"running"} \cup Outcomes, artifact : 0..started']
      BY <2>1, <3>1, Counting DEF WorldTyped
    <3> QED
      BY <3>1, <3>2 DEF Tasks
  <2>2. CASE Move(t, "over", <<>>) /\ UNCHANGED <<row, started>>
    <3>1. TasksTyped' /\ tasks'[t].phase = "over" /\ \A u \in Tasks \ {t} : tasks'[u] = tasks[u]
      BY <1>p, <2>2, Moved
    <3> QED
      BY <2>2, <3>1 DEF Tasks, WorldTyped
  <2>3. CASE Settle(t, 0) /\ Move(t, Ended(t), <<>>) /\ UNCHANGED started
    <3>1. TasksTyped' /\ tasks'[t].phase = Ended(t) /\ \A u \in Tasks \ {t} : tasks'[u] = tasks[u]
      BY <1>p, <2>3, Moved
    <3>2. row' \in [status : {"running"} \cup Outcomes, artifact : 0..started']
      BY <1>1, <2>3, Settled
    <3> QED
      BY <1>p, <2>3, <3>1, <3>2 DEF Tasks
  <2> QED
    BY <2>1, <2>2, <2>3 DEF WriteFails
<1>5. /\ FilesTyped'
      /\ \/ told' = told /\ dir'["pull_request"] = dir["pull_request"]
         \/ told' = "failed"
         \/ /\ told' = "created" /\ tasks["runner"].phase = "create" /\ remote' # remote
            /\ dir'["pull_request"] = tasks["runner"].export
  BY <1>4, TornStep DEF WriteFails
<1>6. orphans' \subseteq [command : Commands, export : 1..started']
  BY <1>1, <1>4, Counting DEF WorldTyped
<1>7. WorldTyped'
  BY <1>1, <1>3, <1>4, <1>6, RemoteKept DEF WorldTyped
<1>8. Requested'
  <2>1. CASE \/ told' = told /\ dir'["pull_request"] = dir["pull_request"]
             \/ told' = "failed"
    BY <1>3, <1>4, <2>1, RequestsKept
  <2>2. CASE /\ told' = "created" /\ tasks["runner"].phase = "create" /\ remote' # remote
             /\ dir'["pull_request"] = tasks["runner"].export
    <3>1. t = "runner" /\ remote' = Effect("create", tasks["runner"].export)
      BY <2>2 DEF WriteFails, Commands, Tasks
    <3>2. tasks'["runner"].phase # "create"
      BY <1>p, <3>1 DEF WriteFails, Begin, Move, TasksTyped, Ended
    <3> QED
      BY <1>4, <2>2, <3>1, <3>2, RequestedAnyway
  <2> QED
    BY <1>5, <2>1, <2>2
<1> QED
  BY <1>4, <1>5, <1>7, <1>8

(* Commands that run on without their task.                                 *)
LEMMA AbandonedTyped ==
    ASSUME WorldTyped, TasksTyped, started' = started \/ started' = started + 1, orphans' = Abandoned
    PROVE  orphans' \subseteq [command : Commands, export : 1..started']
<1>1. "runner" \in Tasks /\ (tasks["runner"].phase \in Commands => tasks["runner"].export \in 1..started)
  BY Exporting DEF Tasks, Commands, Resting
<1> QED
  BY <1>1, Counting DEF Abandoned, WorldTyped

LEMMA TimesOutStep == ASSUME BundleInv, TimesOut PROVE BundleInv'
<1> USE DEF BundleInv, Typed
<1>1. /\ "runner" \in Tasks /\ "failed" \in Outcomes /\ "diff" \in Phases /\ <<>> \in Seq(Files)
      /\ Begin("runner", "failed", "diff", <<>>) /\ orphans' = Abandoned /\ UNCHANGED <<mode, row, bundle, remote>>
  BY DEF TimesOut, Tasks, Outcomes, Phases
<1>2. TasksTyped' /\ started' = started + 1 /\ tasks'["runner"].phase = "diff"
  BY <1>1, Begun
<1>3. FilesTyped'
  BY <1>1, <1>2, FilesKept
<1>4. row' \in [status : {"running"} \cup Outcomes, artifact : 0..started']
  BY <1>1, <1>2, Counting DEF WorldTyped
<1>5. WorldTyped'
  BY <1>1, <1>2, <1>4, AbandonedTyped, RemoteKept DEF WorldTyped
<1>6. Requested'
  BY <1>1, <1>2, RequestsKept DEF bundle
<1> QED
  BY <1>2, <1>3, <1>5, <1>6

LEMMA CrashStep == ASSUME BundleInv, Crash PROVE BundleInv'
<1> USE DEF BundleInv, Typed
<1>1. started' = started /\ orphans' = Abandoned /\ UNCHANGED <<mode, row, remote>>
  BY DEF Crash
<1>2. FilesTyped' /\ (told' = "failed" \/ (told' = told /\ dir'["pull_request"] = dir["pull_request"]))
  <2>1. PICK t \in Tasks : Torn(t)
    BY DEF Crash
  <2> QED
    BY <1>1, <2>1, TornStep
<1>3. TasksTyped' /\ tasks'["runner"].phase # "create"
  <2>1. \A t \in Tasks : tasks'[t] \in [phase : {"idle", "working", "over"}, export : {0}, outcome : {"failed"}, created : {{}}]
    BY DEF Crash, Idle
  <2>2. tasks' \in [Tasks -> [phase : Phases, export : 0..started', outcome : Outcomes, created : SUBSET Files]]
    <3>1. 0 \in 0..started' /\ "failed" \in Outcomes /\ {"idle", "working", "over"} \subseteq Phases
      BY <1>1, Started DEF Outcomes, Phases
    <3> QED
      BY <2>1, <3>1 DEF Crash
  <2> QED
    BY <1>1, <2>1, <2>2 DEF TasksTyped, Resting, Tasks
<1>4. WorldTyped'
  BY <1>1, AbandonedTyped DEF WorldTyped
<1>5. Requested'
  BY <1>1, <1>2, <1>3, RequestsKept
<1> QED
  BY <1>2, <1>3, <1>4, <1>5

LEMMA CancelStep == ASSUME BundleInv, Cancel PROVE BundleInv'
<1> USE DEF BundleInv, Typed
<1>1. UNCHANGED <<mode, bundle, tasks, started, remote, orphans>> /\ row' = [row EXCEPT !.status = "stopped"]
  BY DEF Cancel
<1>2. FilesTyped'
  BY <1>1, FilesKept
<1>3. WorldTyped'
  BY <1>1 DEF WorldTyped, Outcomes
<1>4. Requested'
  BY <1>1, RequestsKept DEF bundle
<1>5. TasksTyped'
  BY <1>1 DEF TasksTyped
<1> QED
  BY <1>2, <1>3, <1>4, <1>5

LEMMA InvStep == BundleInv /\ [BundleNext]_bundleVars => BundleInv'
<1> SUFFICES ASSUME BundleInv, [BundleNext]_bundleVars PROVE BundleInv'
  OBVIOUS
<1>1. CASE UNCHANGED bundleVars
  <2>1. UNCHANGED <<mode, row, dir, result, zipped, told, rows, tasks, started, remote, orphans>>
    BY <1>1 DEF bundleVars, bundle
  <2> QED
    BY <2>1 DEF BundleInv, Typed, FilesTyped, TasksTyped, WorldTyped, Requested, ReportedPullRequest
<1>2. CASE Exports
  BY <1>2, OpensStep, BeginSteps, CommitsStep, PreparesStep, PushedStep, PullRequestCreatedStep,
     CommandFailsStep, OrphanEndsStep, ArchivedStep DEF Exports
<1>3. CASE Disturbs
  BY <1>3, TimesOutStep, CrashStep, CancelStep, WriteFailsStep DEF Disturbs
<1> QED
  BY <1>1, <1>2, <1>3 DEF BundleNext

--------------------------------------------------------------------------------
(* The theorems.                                                            *)

LEMMA Invariance == BundleSpec => []BundleInv
BY InvInit, InvStep, PTL DEF BundleSpec

(* Every number in the directory, the table, the tasks and the repository   *)
(* is that of an export that was started.                                   *)
THEOREM BundleTypeCorrect == BundleSpec => []BundleTypeOK
<1>1. BundleInv => BundleTypeOK
  BY DEF BundleInv, Typed, FilesTyped, TasksTyped, WorldTyped, BundleTypeOK
<1> QED
  BY <1>1, Invariance, PTL

(* What pull_request.txt reports as created is the job's pull request, on a *)
(* branch with the patch of the same export.                                *)
THEOREM ReportsItsPullRequest == BundleSpec => []ReportedPullRequest
<1>1. BundleInv => ReportedPullRequest
  BY DEF BundleInv, Requested, ReportedPullRequest
<1> QED
  BY <1>1, Invariance, PTL

--------------------------------------------------------------------------------
(* The bundle of a job that has an artifact.                                *)

FaultsTyped == faults \in [crash : Nat, call : Nat, cancel : Nat]

(* What a task has created is there, and workspace.zip is created last.     *)
CreatedExist == \A t \in Tasks : \A f \in tasks[t].created : dir[f] # 0 /\ f # "zip"

Finished == {"idle", "over"}

(* Without a cancel there is one exporter, and it is done when the job is.  *)
OneExporter ==
    faults.cancel = 0 =>
        /\ row.status # "stopped" /\ tasks["runner"].outcome # "stopped"
        /\ tasks["finalizer"].phase = "idle"
        /\ tasks["runner"].phase \notin Finished => row.status = "running" /\ row.artifact = 0
        /\ row.artifact # 0 => result.outcome = row.status

(* Either nothing was cancelled, or nothing failed.                         *)
Calm == faults.cancel = 0 \/ faults.crash + faults.call = 0

Whole ==
    /\ [file |-> "result", export |-> row.artifact] \in rows
    /\ dir["result"] = row.artifact /\ dir["zip"] = row.artifact
    /\ \A f \in result.files : dir[f] # 0
    /\ zipped = result.files \ {"zip"}

(* BundleWhole, while exports are running as well.                          *)
WholeInv == FaultsTyped /\ CreatedExist /\ OneExporter /\ (Calm /\ row.artifact # 0 => Whole)

(* What a write leaves behind.                                              *)
Grows == /\ \A f \in Files : dir[f] # 0 => dir'[f] # 0
         /\ rows \subseteq rows'

LEMMA RecordGrows ==
    ASSUME FilesTyped, NEW e \in Nat \ {0}, NEW files \in SUBSET Files, NEW listed, Record(e, files, listed)
    PROVE  /\ Grows
           /\ \A f \in files : dir'[f] = e
           /\ \A f \in listed : [file |-> f, export |-> e] \in rows'
           /\ \A f \in Files \ files : dir'[f] = dir[f]
<1>1. \A f \in Files : dir'[f] = IF f \in files THEN e ELSE dir[f]
  BY DEF Record
<1>2. \A f \in listed : [file |-> f, export |-> e] \in rows'
  BY DEF Record
<1>3. rows \subseteq rows'
  BY DEF Record
<1> QED
  BY <1>1, <1>2, <1>3 DEF Grows

LEMMA WriteGrows ==
    ASSUME FilesTyped, NEW e \in Nat \ {0}, NEW names \in Seq(Files), Write(e, names)
    PROVE  /\ Grows
           /\ \A f \in Range(names) : dir'[f] = e /\ [file |-> f, export |-> e] \in rows'
           /\ \A f \in Files \ Range(names) : dir'[f] = dir[f]
BY RangeNames, RecordGrows DEF Write

LEMMA BegunCreated ==
    ASSUME TasksTyped, CreatedExist, Grows, NEW t \in Tasks, NEW outcome, NEW phase, NEW created \in Seq(Files),
           Begin(t, outcome, phase, created), \A f \in Range(created) : dir'[f] # 0 /\ f # "zip"
    PROVE  CreatedExist'
<1>1. ASSUME NEW u \in Tasks, NEW f \in tasks'[u].created PROVE dir'[f] # 0 /\ f # "zip"
  <2>1. CASE u = t
    BY <1>1, <2>1 DEF Begin, TasksTyped
  <2>2. CASE u # t
    BY <1>1, <2>2 DEF Begin, TasksTyped, CreatedExist, Grows
  <2> QED
    BY <2>1, <2>2
<1> QED
  BY <1>1 DEF CreatedExist

LEMMA MovedCreated ==
    ASSUME TasksTyped, CreatedExist, Grows, NEW t \in Tasks, NEW phase, NEW more \in Seq(Files),
           Move(t, phase, more), \A f \in Range(more) : dir'[f] # 0 /\ f # "zip"
    PROVE  CreatedExist'
<1>1. ASSUME NEW u \in Tasks, NEW f \in tasks'[u].created PROVE dir'[f] # 0 /\ f # "zip"
  <2>1. CASE u = t
    BY <1>1, <2>1 DEF Move, TasksTyped, CreatedExist, Grows
  <2>2. CASE u # t
    BY <1>1, <2>2 DEF Move, TasksTyped, CreatedExist, Grows
  <2> QED
    BY <2>1, <2>2
<1> QED
  BY <1>1 DEF CreatedExist

(* Every step but the end of an export: the row keeps its bundle.           *)
LEMMA WholeKept ==
    ASSUME BundleInv, WholeInv, Grows, row' = row, result' = result, zipped' = zipped,
           Calm' => Calm, dir'["result"] = dir["result"], dir'["zip"] = dir["zip"]
    PROVE  (Calm /\ row.artifact # 0 => Whole)'
<1>1. result.files \subseteq Files
  BY DEF BundleInv, Typed, FilesTyped
<1> QED
  BY <1>1 DEF WholeInv, Whole, Grows

LEMMA OneExporterKept ==
    ASSUME OneExporter, faults' = faults, row' = row, result' = result,
           tasks'["finalizer"] = tasks["finalizer"] \/ faults.cancel # 0,
           tasks'["runner"].phase \notin Finished => tasks["runner"].phase \notin Finished,
           tasks'["runner"].outcome = "stopped" => tasks["runner"].outcome = "stopped" \/ faults.cancel # 0
    PROVE  OneExporter'
BY DEF OneExporter

(* Steps that write neither result.json nor workspace.zip.                  *)
LEMMA KeepsWhole ==
    ASSUME BundleInv, WholeInv, CreatedExist', Grows, row' = row, result' = result, zipped' = zipped, faults' = faults,
           dir'["result"] = dir["result"], dir'["zip"] = dir["zip"],
           tasks'["finalizer"] = tasks["finalizer"] \/ faults.cancel # 0,
           tasks'["runner"].phase \notin Finished => tasks["runner"].phase \notin Finished,
           tasks'["runner"].outcome = "stopped" => tasks["runner"].outcome = "stopped" \/ faults.cancel # 0
    PROVE  WholeInv'
<1>1. OneExporter'
  BY OneExporterKept DEF WholeInv
<1>2. Calm' => Calm
  BY DEF Calm
<1>3. (Calm /\ row.artifact # 0 => Whole)'
  BY <1>2, WholeKept
<1>4. FaultsTyped'
  BY DEF WholeInv, FaultsTyped
<1> QED
  BY <1>1, <1>3, <1>4 DEF WholeInv

(* A write of other files by an export that goes on.                        *)
LEMMA OtherFiles ==
    ASSUME FilesTyped, NEW e \in Nat \ {0}, NEW names \in Seq(Files), Write(e, names),
           "result" \notin Range(names), "zip" \notin Range(names)
    PROVE  /\ Grows /\ \A f \in Range(names) : dir'[f] # 0 /\ f # "zip"
           /\ dir'["result"] = dir["result"] /\ dir'["zip"] = dir["zip"]
<1>1. {"result", "zip"} \subseteq Files
  BY DEF Files
<1> QED
  BY <1>1, WriteGrows

LEMMA Stays == ASSUME bundle' = bundle PROVE Grows /\ UNCHANGED <<dir, result, zipped, told, rows>>
BY DEF Grows, bundle

LEMMA WholeInit == BundleInit => WholeInv
<1> SUFFICES ASSUME BundleInit PROVE WholeInv
  OBVIOUS
<1>1. FaultsTyped
  BY DEF BundleInit, FaultsTyped
<1>2. CreatedExist
  BY DEF BundleInit, CreatedExist, Idle, Tasks
<1>3. OneExporter
  BY DEF BundleInit, OneExporter, Idle, Tasks
<1> QED
  BY <1>1, <1>2, <1>3 DEF WholeInv, BundleInit

LEMMA OpeningOthers ==
    ASSUME NEW outcome \in Outcomes, NEW patch \in BOOLEAN
    PROVE  {"result", "zip"} \cap Range(Opening(outcome, patch)) = {}
BY DEF Opening, Only, Range, Outcomes

LEMMA BeginsWhole == ASSUME BundleInv, WholeInv, Succeeds \/ Fails \/ ObservesStop \/ Finalizes PROVE WholeInv'
<1> USE DEF BundleInv, Typed
<1>1. UNCHANGED <<row, faults>> /\ bundle' = bundle /\ "runner" \in Tasks /\ "finalizer" \in Tasks
  BY DEF Succeeds, Fails, ObservesStop, Finalizes, world, Tasks
<1>2. Grows /\ UNCHANGED <<dir, result, zipped, told, rows>>
  BY <1>1, Stays
<1>e. <<>> \in Seq(Files) /\ Range(<<>>) = {}
  BY DEF Range
<1>3. row.status = "stopped" => faults.cancel # 0
  BY DEF WholeInv, OneExporter
<1>4. /\ CreatedExist'
      /\ tasks'["finalizer"] = tasks["finalizer"] \/ faults.cancel # 0
      /\ tasks'["runner"].phase \notin Finished => tasks["runner"].phase \notin Finished
      /\ tasks'["runner"].outcome = "stopped" => tasks["runner"].outcome = "stopped" \/ faults.cancel # 0
  <2>1. CASE Fails
    <3>1. Begin("runner", "failed", "diff", <<>>) /\ tasks["runner"].phase = "working"
      BY <2>1 DEF Fails
    <3>2. CreatedExist'
      BY <1>1, <1>2, <1>e, <3>1, BegunCreated DEF WholeInv
    <3> QED
      BY <3>1, <3>2 DEF Begin, TasksTyped, Tasks, Finished
  <2>2. CASE ObservesStop /\ Begin("runner", "stopped", "diff", <<>>)
    <3>1. CreatedExist'
      BY <1>1, <1>2, <1>e, <2>2, BegunCreated DEF WholeInv
    <3> QED
      BY <1>3, <2>2, <3>1 DEF ObservesStop, Begin, TasksTyped, Tasks, Finished
  <2>3. CASE ObservesStop /\ Move("runner", "over", <<>>)
    <3>1. CreatedExist'
      BY <1>1, <1>2, <1>e, <2>3, MovedCreated DEF WholeInv
    <3> QED
      BY <1>3, <2>3, <3>1 DEF ObservesStop, Move, TasksTyped, Tasks, Finished
  <2>4. CASE Finalizes
    <3>1. Begin("finalizer", "stopped", "diff", <<>>)
      BY <2>4 DEF Finalizes
    <3>2. CreatedExist'
      BY <1>1, <1>2, <1>e, <3>1, BegunCreated DEF WholeInv
    <3> QED
      BY <1>3, <2>4, <3>1, <3>2 DEF Finalizes, Begin, TasksTyped, Tasks, Finished
  <2>5. CASE Succeeds
    <3>1. Begin("runner", "succeeded", "diff", <<>>) /\ tasks["runner"].phase = "working"
      BY <2>5 DEF Succeeds
    <3>2. CreatedExist'
      BY <1>1, <1>2, <1>e, <3>1, BegunCreated DEF WholeInv
    <3> QED
      BY <3>1, <3>2 DEF Begin, TasksTyped, Tasks, Finished
  <2> QED
    BY <2>1, <2>2, <2>3, <2>4, <2>5 DEF ObservesStop
<1> QED
  BY <1>1, <1>2, <1>4, KeepsWhole

LEMMA OpensWhole ==
    ASSUME BundleInv, WholeInv, NEW t \in Tasks, NEW patch \in BOOLEAN, Opens(t, patch) PROVE WholeInv'
<1> USE DEF BundleInv, Typed
<1> DEFINE opening == Opening(tasks[t].outcome, patch)
<1>1. tasks[t].export \in Nat \ {0} /\ tasks[t].outcome \in Outcomes /\ tasks[t].phase = "diff"
  BY Exporting, Started DEF Opens, At, Resting
<1>2. opening \in Seq(Files) /\ {"result", "zip"} \cap Range(opening) = {}
  BY <1>1, OpeningNames, OpeningOthers
<1>3. /\ Write(tasks[t].export, opening) /\ Move(t, Following(t), opening)
      /\ UNCHANGED <<row, result, zipped, faults>>
  BY DEF Opens, world
<1>5. /\ Grows /\ \A f \in Range(opening) : dir'[f] # 0 /\ f # "zip"
      /\ dir'["result"] = dir["result"] /\ dir'["zip"] = dir["zip"]
  <2> HIDE DEF opening
  <2> QED
    BY <1>1, <1>2, <1>3, OtherFiles
<1>6. CreatedExist'
  <2> HIDE DEF opening
  <2> QED
    BY <1>2, <1>3, <1>5, MovedCreated DEF WholeInv
<1>7. tasks["finalizer"].phase # "idle" => faults.cancel # 0
  BY DEF WholeInv, OneExporter
<1>8. /\ tasks'["finalizer"] = tasks["finalizer"] \/ faults.cancel # 0
      /\ tasks'["runner"].phase \notin Finished => tasks["runner"].phase \notin Finished
      /\ tasks'["runner"].outcome = tasks["runner"].outcome
  BY <1>1, <1>3, <1>7 DEF Move, TasksTyped, Tasks, Finished
<1> QED
  BY <1>3, <1>5, <1>6, <1>8, KeepsWhole

(* The runner writes one file more and goes on, or writes nothing.          *)
LEMMA RunnerGoesOn ==
    ASSUME BundleInv, WholeInv, tasks["runner"].phase \notin Resting, NEW phase, NEW more \in Seq(Files),
           Move("runner", phase, more), UNCHANGED <<row, result, zipped, faults>>,
           \/ Write(tasks["runner"].export, more) /\ {"result", "zip"} \cap Range(more) = {}
           \/ bundle' = bundle /\ Range(more) = {}
    PROVE  WholeInv'
<1> USE DEF BundleInv, Typed
<1>1. "runner" \in Tasks /\ tasks["runner"].export \in Nat \ {0}
  BY Exporting, Started DEF Tasks
<1>2. /\ Grows /\ \A f \in Range(more) : dir'[f] # 0 /\ f # "zip"
      /\ dir'["result"] = dir["result"] /\ dir'["zip"] = dir["zip"]
  <2>1. CASE Write(tasks["runner"].export, more) /\ {"result", "zip"} \cap Range(more) = {}
    BY <1>1, <2>1, OtherFiles
  <2>2. CASE bundle' = bundle /\ Range(more) = {}
    BY <2>2, Stays
  <2> QED
    BY <2>1, <2>2
<1>3. CreatedExist'
  BY <1>1, <1>2, MovedCreated DEF WholeInv
<1>4. /\ tasks'["finalizer"] = tasks["finalizer"] /\ tasks'["runner"].outcome = tasks["runner"].outcome
      /\ tasks["runner"].phase \notin Finished
  BY <1>1 DEF Move, TasksTyped, Tasks, Finished, Resting
<1> QED
  BY <1>2, <1>3, <1>4, KeepsWhole

LEMMA OneFile ==
    /\ <<"commit">> \in Seq(Files) /\ {"result", "zip"} \cap Range(<<"commit">>) = {}
    /\ <<"pull_request">> \in Seq(Files) /\ {"result", "zip"} \cap Range(<<"pull_request">>) = {}
    /\ <<>> \in Seq(Files) /\ Range(<<>>) = {}
BY DEF Files, Range

LEMMA TellWhole ==
    ASSUME BundleInv, WholeInv, tasks["runner"].phase \notin Resting, NEW status, Tell(status),
           UNCHANGED <<row, result, zipped, faults>>
    PROVE  WholeInv'
<1>1. Write(tasks["runner"].export, <<"pull_request">>) /\ Move("runner", "archive", <<"pull_request">>)
  BY DEF Tell
<1> QED
  BY <1>1, OneFile, RunnerGoesOn

LEMMA RequestsWhole ==
    ASSUME BundleInv, WholeInv, Commits \/ Prepares \/ Pushed \/ PullRequestCreated \/ CommandFails
    PROVE  WholeInv'
<1>0. tasks["runner"].phase \notin Resting /\ UNCHANGED <<row, faults>>
  BY DEF Commits, Prepares, Pushed, PullRequestCreated, CommandFails, At, Resting, Commands, world
<1>1. CASE Commits
  <2>1. PICK phase : Move("runner", phase, <<"commit">>)
    BY <1>1 DEF Commits
  <2> QED
    BY <1>0, <1>1, <2>1, OneFile, RunnerGoesOn DEF Commits
<1>2. CASE Prepares
  <2>1. CASE Move("runner", "push", <<>>) /\ bundle' = bundle
    <3>1. UNCHANGED <<result, zipped>>
      BY <2>1, Stays
    <3> QED
      BY <1>0, <2>1, <3>1, OneFile, RunnerGoesOn
  <2> QED
    BY <1>0, <1>2, <2>1, TellWhole DEF Prepares
<1>3. CASE Pushed
  <2>1. Move("runner", "create", <<>>) /\ bundle' = bundle
    BY <1>3 DEF Pushed
  <2>2. UNCHANGED <<result, zipped>>
    BY <2>1, Stays
  <2> QED
    BY <1>0, <2>1, <2>2, OneFile, RunnerGoesOn
<1>4. CASE PullRequestCreated \/ CommandFails
  BY <1>0, <1>4, TellWhole DEF PullRequestCreated, CommandFails
<1> QED
  BY <1>1, <1>2, <1>3, <1>4

LEMMA OrphanWhole == ASSUME BundleInv, WholeInv, OrphanEnds PROVE WholeInv'
<1>1. bundle' = bundle /\ UNCHANGED <<row, tasks, faults>>
  BY DEF OrphanEnds
<1>2. Grows /\ UNCHANGED <<dir, result, zipped, told, rows>>
  BY <1>1, Stays
<1>3. CreatedExist'
  BY <1>1, <1>2 DEF WholeInv, CreatedExist
<1> QED
  BY <1>1, <1>2, <1>3, KeepsWhole

LEMMA RangeOfBoth ==
    ASSUME NEW s \in Seq(Files), NEW t \in Seq(Files) PROVE Range(s \o t) = Range(s) \cup Range(t)
<1>1. Range(s \o t) \subseteq Range(s) \cup Range(t)
  BY DEF Range
<1>2. Range(s) \subseteq Range(s \o t)
  BY DEF Range
<1>3. ASSUME NEW i \in DOMAIN t PROVE t[i] \in Range(s \o t)
  <2>1. i + Len(s) \in DOMAIN (s \o t) /\ (s \o t)[i + Len(s)] = t[i]
    OBVIOUS
  <2> QED
    BY <2>1 DEF Range
<1> QED
  BY <1>1, <1>2, <1>3 DEF Range

(* The end of an export: the bundle is the row's, whatever it was before.   *)
LEMMA ArchivedWhole ==
    ASSUME BundleInv, WholeInv, NEW t \in Tasks, NEW archive \in BOOLEAN, Archived(t, archive)
    PROVE  WholeInv'
<1> USE DEF BundleInv, Typed
<1> DEFINE some == Only(archive, "archive")
           names == Closing(archive)
           created == tasks[t].created \cup Range(some)
           e == tasks[t].export
<1>1. e \in Nat \ {0} /\ tasks[t].phase = "archive"
  BY Exporting, Started DEF Archived, At, Resting
<1>2. names \in Seq(Files)
  BY ClosingNames
<1>3. Range(names) = Range(some) \cup {"result", "zip"} /\ Range(some) \subseteq {"archive"}
  <2>1. Range(some) \subseteq {"archive"}
    BY DEF Only, Range
  <2>0. names = some \o <<"result", "zip">>
    BY DEF Closing
  <2>2. some \in Seq(Files) /\ <<"result", "zip">> \in Seq(Files) /\ Range(<<"result", "zip">>) = {"result", "zip"}
    BY ClosingNames DEF Files, Range
  <2>3. Range(some \o <<"result", "zip">>) = Range(some) \cup Range(<<"result", "zip">>)
    <3> HIDE DEF some
    <3> QED
      BY <2>2, RangeOfBoth
  <2> QED
    BY <2>0, <2>1, <2>2, <2>3
<1>4. /\ Write(e, names) /\ result' = [outcome |-> tasks[t].outcome, files |-> Named(created)]
      /\ zipped' = created \cup {"result"} /\ Settle(t, e) /\ Move(t, Ended(t), <<>>) /\ faults' = faults
  BY DEF Archived, Sealed, Files, world
<1> HIDE DEF some, names
<1>5. /\ Grows /\ \A f \in Range(names) : dir'[f] = e /\ [file |-> f, export |-> e] \in rows'
  BY <1>1, <1>2, <1>4, WriteGrows
<1>6. CreatedExist'
  <2>1. Grows /\ Move(t, Ended(t), <<>>)
    BY <1>4, <1>5
  <2> QED
    BY <2>1, OneFile, MovedCreated DEF WholeInv
<1>7. row'.artifact = e /\ row'.status = IF tasks[t].outcome = "stopped" THEN row.status ELSE tasks[t].outcome
  BY <1>4 DEF Settle, WorldTyped
<1>8. Whole'
  <2>1. /\ dir'["result"] = e /\ dir'["zip"] = e /\ [file |-> "result", export |-> e] \in rows'
        /\ \A f \in Range(some) : dir'[f] # 0 /\ f # "zip"
    BY <1>1, <1>3, <1>5
  <2>2. \A f \in tasks[t].created : dir'[f] # 0 /\ f # "zip"
    BY <1>5 DEF WholeInv, CreatedExist, Grows, TasksTyped
  <2>3. result'.files = Named(created) /\ zipped' = created \cup {"result"}
    BY <1>4
  <2>4. (\A f \in result'.files : dir'[f] # 0) /\ zipped' = result'.files \ {"zip"}
    BY <1>1, <2>1, <2>2, <2>3 DEF Named
  <2> QED
    BY <1>7, <2>1, <2>4 DEF Whole
<1>9. OneExporter'
  <2> SUFFICES ASSUME faults.cancel = 0 PROVE OneExporter'
    BY <1>4 DEF OneExporter
  <2>1. OneExporter
    BY DEF WholeInv
  <2>2. t = "runner" /\ tasks[t].outcome # "stopped"
    BY <1>1, <2>1 DEF OneExporter, Tasks
  <2>3. row'.status = tasks[t].outcome /\ result'.outcome = tasks[t].outcome
    BY <1>4, <1>7, <2>2
  <2>4. tasks'["runner"].phase = "over" /\ tasks'["runner"].outcome = tasks[t].outcome
        /\ tasks'["finalizer"] = tasks["finalizer"]
    BY <1>4, <2>2 DEF Move, TasksTyped, Tasks, Ended
  <2> QED
    BY <2>1, <2>2, <2>3, <2>4 DEF OneExporter, Finished
<1>10. FaultsTyped'
  BY <1>4 DEF WholeInv, FaultsTyped
<1> QED
  BY <1>6, <1>8, <1>9, <1>10 DEF WholeInv

(* Faults.                                                                  *)
LEMMA Faulted ==
    ASSUME FaultsTyped, NEW kind \in {"crash", "call"}, NEW bound, Fault(kind, bound)
    PROVE  FaultsTyped' /\ faults'.cancel = faults.cancel /\ faults'.crash + faults'.call # 0
<1>1. CASE kind = "crash"
  BY <1>1 DEF FaultsTyped, Fault
<1>2. CASE kind = "call"
  BY <1>2 DEF FaultsTyped, Fault
<1> QED
  BY <1>1, <1>2

(* After a fault only the bundle of a job that was not cancelled matters,   *)
(* and such a job has none while its runner exports.                        *)
LEMMA DisturbedWhole ==
    ASSUME BundleInv, WholeInv, CreatedExist', OneExporter', NEW kind \in {"crash", "call"}, NEW bound, Fault(kind, bound),
           faults.cancel = 0 /\ row'.artifact # 0 => row' = row /\ bundle' = bundle
    PROVE  WholeInv'
<1>1. FaultsTyped' /\ faults'.cancel = faults.cancel /\ faults'.crash + faults'.call # 0
  BY Faulted DEF WholeInv
<1>2. ASSUME Calm', row'.artifact # 0 PROVE Whole'
  <2>1. row' = row /\ bundle' = bundle /\ faults.cancel = 0
    BY <1>1, <1>2 DEF Calm
  <2>2. Whole
    BY <1>2, <2>1 DEF Calm, WholeInv
  <2> QED
    BY <2>1, <2>2, Stays DEF Whole
<1> QED
  BY <1>1, <1>2 DEF WholeInv

(* What a segment that is cut off has written, if it has written anything.  *)
LEMMA TornRecord ==
    ASSUME BundleInv, NEW t \in Tasks, Torn(t)
    PROVE  \/ bundle' = bundle
           \/ /\ tasks[t].phase \notin Resting
              /\ \E files, listed \in SUBSET Files :
                    /\ listed \subseteq files /\ Record(tasks[t].export, files, listed)
                    /\ \/ "result" \notin files /\ result' = result
                       \/ /\ "result" \in files
                          /\ \E more \in SUBSET files : result'.files = Named(tasks[t].created \cup more)
<1> USE DEF BundleInv, Typed
<1>t. tasks[t].outcome \in Outcomes
  BY DEF TasksTyped
<1>1. ASSUME NEW patch \in BOOLEAN, NEW archive \in BOOLEAN,
             NEW n \in 1..Len(Segment(t, patch, archive)), NEW listed \in Listed(Segment(t, patch, archive), n),
             Record(tasks[t].export, First(Segment(t, patch, archive), n), listed),
             Sealed(t, archive, First(Segment(t, patch, archive), n))
      PROVE  /\ tasks[t].phase \notin Resting
             /\ \E files, listed_1 \in SUBSET Files :
                    /\ listed_1 \subseteq files /\ Record(tasks[t].export, files, listed_1)
                    /\ \/ "result" \notin files /\ result' = result
                       \/ /\ "result" \in files
                          /\ \E more \in SUBSET files : result'.files = Named(tasks[t].created \cup more)
  <2> DEFINE names == Segment(t, patch, archive)
             files == First(names, n)
             more == Range(Only(archive, "archive"))
  <2>1. names \in Seq(Files)
    BY <1>t, SegmentNames
  <2>2. files \subseteq Files /\ listed \subseteq files /\ files = {names[i] : i \in 1..n}
    BY <2>1, ListedNames, FirstNames
  <2>3. tasks[t].phase \notin Resting
    <3>1. names # <<>>
      OBVIOUS
    <3> QED
      BY <3>1 DEF Segment, At, Resting
  <2>4. CASE "result" \notin files
    BY <1>1, <2>2, <2>3, <2>4 DEF Sealed
  <2>5. CASE "result" \in files
    <3>1. tasks[t].phase = "archive"
      <4>1. "result" \in Range(names)
        BY <2>1, <2>5, FirstNames
      <4>2. "result" \notin Range(Opening(tasks[t].outcome, patch))
        BY <1>t, OpeningOthers
      <4>3. "result" \notin Range(<<"commit">>) /\ "result" \notin Range(<<>>)
        BY DEF Range
      <4> QED
        BY <4>1, <4>2, <4>3 DEF Segment, At
    <3>2. names = Closing(archive)
      BY <3>1 DEF Segment, At
    <3>3. more \subseteq files
      <4>1. CASE archive
        <5>1. names = <<"archive">> \o <<"result", "zip">>
          BY <3>2, <4>1 DEF Closing, Only
        <5>2. more = {"archive"}
          BY <4>1 DEF Only, Range
        <5>3. names[1] = "archive" /\ 1 \in 1..n
          BY <5>1
        <5> QED
          BY <2>2, <5>2, <5>3
      <4>2. CASE ~archive
        BY <4>2 DEF Only, Range
      <4> QED
        BY <4>1, <4>2
    <3>4. result'.files = Named(tasks[t].created \cup more)
      BY <1>1, <2>5 DEF Sealed
    <3> HIDE DEF more, files
    <3> QED
      BY <1>1, <2>2, <2>3, <2>5, <3>3, <3>4 DEF files
  <2> QED
    BY <2>4, <2>5
<1>2. CASE /\ t = "runner" /\ tasks[t].phase \in {"prepare"} \cup Commands
           /\ Record(tasks[t].export, {"pull_request"}, {})
           /\ UNCHANGED <<result, zipped>>
  BY <1>2 DEF Resting, Commands, Files
<1>3. CASE \E patch, archive \in BOOLEAN :
             LET names == Segment(t, patch, archive)
             IN \E n \in 1..Len(names) : \E listed \in Listed(names, n) :
                   /\ Record(tasks[t].export, First(names, n), listed)
                   /\ Sealed(t, archive, First(names, n))
                   /\ UNCHANGED told
  <2>1. PICK patch \in BOOLEAN, archive \in BOOLEAN :
             \E n \in 1..Len(Segment(t, patch, archive)) : \E listed \in Listed(Segment(t, patch, archive), n) :
                   /\ Record(tasks[t].export, First(Segment(t, patch, archive), n), listed)
                   /\ Sealed(t, archive, First(Segment(t, patch, archive), n))
                   /\ UNCHANGED told
    BY <1>3
  <2> QED
    BY <1>1, <2>1
<1> QED
  BY <1>2, <1>3 DEF Torn

LEMMA TornGrows == ASSUME BundleInv, NEW t \in Tasks, Torn(t) PROVE Grows
<1> USE DEF BundleInv, Typed
<1>1. CASE bundle' = bundle
  BY <1>1, Stays
<1>2. ASSUME tasks[t].phase \notin Resting, NEW files \in SUBSET Files, NEW listed \in SUBSET Files,
             Record(tasks[t].export, files, listed)
      PROVE  Grows
  <2>1. tasks[t].export \in Nat \ {0}
    BY <1>2, Exporting, Started
  <2> QED
    BY <1>2, <2>1, RecordGrows
<1> QED
  BY <1>1, <1>2, TornRecord

LEMMA WriteFailsWhole == ASSUME BundleInv, WholeInv, NEW t \in Tasks, WriteFails(t) PROVE WholeInv'
<1> USE DEF BundleInv, Typed
<1>1. Fault("call", MaxFaults) /\ tasks[t].phase \notin Resting /\ Torn(t)
  BY DEF WriteFails, Resting
<1>2. Grows
  BY <1>1, TornGrows
<1>3. CreatedExist'
  <2>1. CASE Begin(t, "failed", "diff", <<>>)
    BY <1>2, <2>1, OneFile, BegunCreated DEF WholeInv
  <2>2. ASSUME NEW phase, Move(t, phase, <<>>) PROVE CreatedExist'
    BY <1>2, <2>2, OneFile, MovedCreated DEF WholeInv
  <2> QED
    BY <2>1, <2>2 DEF WriteFails
<1>4. faults'.cancel = faults.cancel
  BY <1>1, Faulted DEF WholeInv
<1>5. ASSUME faults.cancel = 0
      PROVE  /\ t = "runner" /\ row.status = "running" /\ row.artifact = 0 /\ tasks[t].outcome # "stopped"
             /\ tasks["finalizer"].phase = "idle"
  BY <1>1, <1>5 DEF WholeInv, OneExporter, Tasks, Resting, Finished
<1>6. faults.cancel = 0 => row'.artifact = 0
  BY <1>5 DEF WriteFails, Settle, WorldTyped
<1>7. OneExporter'
  <2> SUFFICES ASSUME faults.cancel = 0 PROVE OneExporter'
    BY <1>4 DEF OneExporter
  <2>1. CASE Begin(t, "failed", "diff", <<>>) /\ UNCHANGED row
    BY <1>5, <2>1 DEF Begin, TasksTyped, Tasks, OneExporter
  <2>2. CASE Settle(t, 0) /\ Move(t, Ended(t), <<>>)
    <3>1. row'.status = tasks[t].outcome /\ row'.artifact = 0
      BY <1>5, <2>2 DEF Settle, WorldTyped
    <3>2. /\ tasks'["runner"].phase = "over" /\ tasks'["runner"].outcome = tasks["runner"].outcome
          /\ tasks'["finalizer"] = tasks["finalizer"]
      BY <1>5, <2>2 DEF Move, Ended, TasksTyped, Tasks
    <3> QED
      BY <1>5, <3>1, <3>2 DEF OneExporter, Finished
  <2> QED
    BY <1>5, <2>1, <2>2 DEF WriteFails
<1> QED
  BY <1>1, <1>3, <1>6, <1>7, DisturbedWhole

LEMMA TimesOutWhole == ASSUME BundleInv, WholeInv, TimesOut PROVE WholeInv'
<1> USE DEF BundleInv, Typed
<1>1. /\ Fault("call", MaxFaults) /\ Begin("runner", "failed", "diff", <<>>) /\ row' = row /\ bundle' = bundle
      /\ "runner" \in Tasks /\ tasks["runner"].phase \notin Finished
  BY DEF TimesOut, Tasks, Finished
<1>2. Grows /\ UNCHANGED <<dir, result, zipped, told, rows>>
  BY <1>1, Stays
<1>3. CreatedExist'
  BY <1>1, <1>2, OneFile, BegunCreated DEF WholeInv
<1>4. faults'.cancel = faults.cancel
  BY <1>1, Faulted DEF WholeInv
<1>5. tasks'["runner"].outcome = "failed" /\ tasks'["finalizer"] = tasks["finalizer"]
  BY <1>1 DEF Begin, TasksTyped, Tasks
<1>6. OneExporter'
  BY <1>1, <1>2, <1>4, <1>5 DEF WholeInv, OneExporter
<1> QED
  BY <1>1, <1>3, <1>6, DisturbedWhole

LEMMA CrashWhole == ASSUME BundleInv, WholeInv, Crash PROVE WholeInv'
<1> USE DEF BundleInv, Typed
<1>1. PICK t \in Tasks : Torn(t)
  BY DEF Crash
<1>2. /\ Fault("crash", MaxCrashes) /\ row' = row
      /\ tasks' = [u \in Tasks |-> IF u = "finalizer" THEN Idle
                                   ELSE [Idle EXCEPT !.phase = IF row.status = "running" THEN "working" ELSE "over"]]
  BY DEF Crash
<1>3. CreatedExist'
  BY <1>2 DEF CreatedExist, Idle
<1>4. faults'.cancel = faults.cancel
  BY <1>2, Faulted DEF WholeInv
<1>5. ASSUME faults.cancel = 0, row.artifact # 0 PROVE bundle' = bundle
  <2>1. tasks[t].phase \in Resting
    BY <1>5 DEF WholeInv, OneExporter, Resting, Tasks, Finished
  <2> QED
    BY <1>1, <2>1, TornRecord
<1>6. OneExporter'
  <2> SUFFICES ASSUME faults.cancel = 0 PROVE OneExporter'
    BY <1>4 DEF OneExporter
  <2>1. OneExporter
    BY DEF WholeInv
  <2>2. /\ tasks'["finalizer"].phase = "idle" /\ tasks'["runner"].outcome = "failed"
        /\ tasks'["runner"].phase \notin Finished => row.status = "running"
    BY <1>2 DEF Idle, Tasks, Finished
  <2>3. row.status = "running" => row.artifact = 0
    <3>1. row.artifact # 0 => result.outcome = row.status
      BY <2>1 DEF OneExporter
    <3>2. result.outcome # "running"
      BY DEF FilesTyped, Outcomes
    <3> QED
      BY <3>1, <3>2
  <2>4. row.artifact # 0 => result' = result
    BY <1>5, Stays
  <2> QED
    BY <1>2, <2>1, <2>2, <2>3, <2>4 DEF OneExporter
<1> QED
  BY <1>2, <1>3, <1>5, <1>6, DisturbedWhole

LEMMA CancelWhole == ASSUME BundleInv, WholeInv, Cancel PROVE WholeInv'
<1> USE DEF BundleInv, Typed
<1>1. Fault("cancel", MaxCancels) /\ row' = [row EXCEPT !.status = "stopped"] /\ bundle' = bundle /\ tasks' = tasks
  BY DEF Cancel
<1>2. Grows /\ UNCHANGED <<dir, result, zipped, told, rows>>
  BY <1>1, Stays
<1>3. FaultsTyped' /\ faults'.cancel # 0 /\ faults'.crash = faults.crash /\ faults'.call = faults.call
  BY <1>1 DEF WholeInv, FaultsTyped, Fault
<1>4. row'.artifact = row.artifact
  BY <1>1 DEF WorldTyped
<1>5. (Calm /\ row.artifact # 0 => Whole)'
  BY <1>2, <1>3, <1>4 DEF WholeInv, Calm, Whole
<1>6. CreatedExist' /\ OneExporter'
  BY <1>1, <1>2, <1>3 DEF WholeInv, CreatedExist, OneExporter
<1> QED
  BY <1>3, <1>5, <1>6 DEF WholeInv

LEMMA WholeStep == BundleInv /\ WholeInv /\ [BundleNext]_bundleVars => WholeInv'
<1> SUFFICES ASSUME BundleInv, WholeInv, [BundleNext]_bundleVars PROVE WholeInv'
  OBVIOUS
<1>1. CASE UNCHANGED bundleVars
  <2>1. UNCHANGED <<row, dir, result, zipped, rows, tasks, faults>>
    BY <1>1 DEF bundleVars, bundle
  <2> QED
    BY <2>1 DEF WholeInv, FaultsTyped, CreatedExist, OneExporter, Calm, Whole
<1>2. CASE Exports
  BY <1>2, OpensWhole, BeginsWhole, RequestsWhole, OrphanWhole, ArchivedWhole DEF Exports
<1>3. CASE Disturbs
  BY <1>3, TimesOutWhole, CrashWhole, CancelWhole, WriteFailsWhole DEF Disturbs
<1> QED
  BY <1>1, <1>2, <1>3 DEF BundleNext

(* A job whose row names an artifact has one whole bundle, that of the row's *)
(* export: after any faults if it was never cancelled, and after a cancel,   *)
(* with both tasks writing the directory, if nothing failed.                *)
THEOREM LeavesWholeBundle == BundleSpec => []BundleWhole
<1>1. BundleInv /\ WholeInv => BundleWhole
  BY DEF WholeInv, OneExporter, Calm, Whole, FaultsTyped, BundleWhole
<1>2. BundleSpec => []WholeInv
  BY Invariance, WholeInit, WholeStep, PTL DEF BundleSpec
<1> QED
  BY <1>1, <1>2, Invariance, PTL
--------------------------------------------------------------------------------
(* What the artifact table and result.json list.                            *)

(* Without a cancel the latest export is the runner's, and what it has       *)
(* created so far no other export has written since.                        *)
Latest ==
    faults.cancel = 0 /\ tasks["runner"].phase \notin Resting =>
        /\ tasks["runner"].export = started
        /\ \A f \in tasks["runner"].created : dir[f] = started

FreshInv == NothingStale /\ Latest

LEMMA Counted == ASSUME FilesTyped, TasksTyped PROVE \A f \in Files : dir[f] \in Nat /\ dir[f] <= started
<1>1. started \in Nat
  BY Started
<1> QED
  BY <1>1 DEF FilesTyped

(* A step that writes nothing.                                              *)
LEMMA NothingWritten ==
    ASSUME NothingStale, bundle' = bundle, faults'.cancel = 0 => faults.cancel = 0
    PROVE  NothingStale'
<1>1. UNCHANGED <<dir, rows, result>>
  BY Stays
<1> QED
  BY <1>1 DEF NothingStale, Fresh

(* An export lists what it wrote itself, or what none has written since.    *)
LEMMA RecordFresh ==
    ASSUME BundleInv, WholeInv, FreshInv, NEW t \in Tasks, tasks[t].phase \notin Resting,
           NEW files \in SUBSET Files, NEW listed \in SUBSET files, Record(tasks[t].export, files, listed),
           \/ "result" \notin files /\ result' = result
           \/ "result" \in files /\ \E more \in SUBSET files : result'.files = Named(tasks[t].created \cup more),
           faults'.cancel = 0 => faults.cancel = 0
    PROVE  NothingStale'
<1> USE DEF BundleInv, Typed
<1> DEFINE e == tasks[t].export
<1>1. e \in Nat \ {0} /\ e <= started /\ started \in Nat
  BY Exporting, Started
<1>2. \A f \in Files : dir[f] \in Nat /\ dir[f] <= started
  BY Counted
<1>3. \A f \in Files : dir'[f] = IF f \in files THEN e ELSE dir[f]
  BY DEF Record
<1>4. faults.cancel = 0 => t = "runner" /\ e = started /\ \A f \in tasks[t].created : dir[f] = e
  BY DEF FreshInv, Latest, WholeInv, OneExporter, Tasks, Resting
<1>5. \A f \in Files : Fresh(f, e)' <=> (dir'[f] # 0 /\ (faults'.cancel = 0 => dir'[f] >= e'))
  BY DEF Fresh
<1>w. ASSUME NEW f \in files PROVE dir'[f] # 0 /\ dir'[f] >= e
  BY <1>1, <1>3
<1>k. ASSUME NEW f \in Files, NEW n \in 0..started, dir[f] # 0, faults.cancel = 0 => dir[f] >= n
      PROVE  dir'[f] # 0 /\ (faults'.cancel = 0 => dir'[f] >= n)
  BY <1>1, <1>2, <1>3, <1>4, <1>k
<1>6. ASSUME NEW r \in rows' PROVE dir'[r.file] # 0 /\ (faults'.cancel = 0 => dir'[r.file] >= r.export)
  <2>1. CASE r \in rows
    <3>1. r.file \in Files /\ r.export \in 0..started
      BY <1>1, <2>1 DEF FilesTyped
    <3>2. dir[r.file] # 0 /\ (faults.cancel = 0 => dir[r.file] >= r.export)
      BY <2>1 DEF FreshInv, NothingStale, Fresh
    <3> QED
      BY <1>k, <3>1, <3>2
  <2>2. CASE r \in {[file |-> f, export |-> e] : f \in listed}
    BY <1>w, <2>2
  <2> QED
    BY <1>6, <2>1, <2>2 DEF Record
<1>7. ASSUME NEW f \in result'.files \ {"zip"}
      PROVE  dir'[f] # 0 /\ (faults'.cancel = 0 => dir'[f] >= dir'["result"])
  <2>1. CASE "result" \notin files /\ result' = result
    <3>1. f \in Files /\ dir'["result"] = dir["result"] /\ dir["result"] \in 0..started
      BY <1>2, <1>3, <2>1 DEF FilesTyped, Files
    <3>2. dir[f] # 0 /\ (faults.cancel = 0 => dir[f] >= dir["result"])
      BY <1>7, <2>1 DEF FreshInv, NothingStale, Fresh
    <3> QED
      BY <1>k, <3>1, <3>2
  <2>2. CASE "result" \in files /\ \E more \in SUBSET files : result'.files = Named(tasks[t].created \cup more)
    <3>1. dir'["result"] = e
      BY <1>3, <2>2
    <3>2. CASE f \in files
      BY <1>w, <3>1, <3>2
    <3>3. CASE f \in tasks[t].created
      <4>1. f \in Files /\ dir[f] # 0 /\ (faults.cancel = 0 => dir[f] >= e) /\ e \in 0..started
        BY <1>1, <1>2, <1>4, <3>3 DEF TasksTyped, WholeInv, CreatedExist
      <4> QED
        BY <1>k, <3>1, <4>1
    <3> QED
      BY <1>7, <2>2, <3>2, <3>3 DEF Named
  <2> QED
    BY <2>1, <2>2
<1> QED
  BY <1>6, <1>7 DEF NothingStale, Fresh

(* The runner goes on with a file more, or stays as it is.                  *)
LEMMA LatestKept ==
    ASSUME BundleInv, WholeInv, Latest, started' = started, faults'.cancel = 0 => faults.cancel = 0,
           \/ tasks'["runner"].phase \in Resting
           \/ tasks'["runner"] = tasks["runner"] /\ (faults.cancel = 0 => dir' = dir)
           \/ /\ tasks["runner"].phase \notin Resting
              /\ \E phase : \E more \in Seq(Files) :
                    /\ Move("runner", phase, more)
                    /\ \A f \in Files : dir'[f] = IF f \in Range(more) THEN tasks["runner"].export ELSE dir[f]
    PROVE  Latest'
<1> USE DEF BundleInv, Typed
<1>1. CASE tasks'["runner"].phase \in Resting
  BY <1>1 DEF Latest
<1>2. CASE tasks'["runner"] = tasks["runner"] /\ (faults.cancel = 0 => dir' = dir)
  BY <1>2 DEF Latest
<1>3. ASSUME tasks["runner"].phase \notin Resting, NEW phase, NEW more \in Seq(Files), Move("runner", phase, more),
             \A f \in Files : dir'[f] = IF f \in Range(more) THEN tasks["runner"].export ELSE dir[f],
             faults.cancel = 0
      PROVE  /\ tasks'["runner"].export = started
             /\ \A f \in tasks'["runner"].created : dir'[f] = started
  <2>1. /\ tasks'["runner"].export = tasks["runner"].export
        /\ tasks'["runner"].created = tasks["runner"].created \cup Range(more)
    BY <1>3 DEF Move, TasksTyped, Tasks
  <2>2. tasks["runner"].created \subseteq Files /\ Range(more) \subseteq Files
    BY RangeNames DEF TasksTyped, Tasks
  <2> QED
    BY <1>3, <2>1, <2>2 DEF Latest
<1>4. CASE /\ tasks["runner"].phase \notin Resting
           /\ \E phase : \E more \in Seq(Files) :
                 /\ Move("runner", phase, more)
                 /\ \A f \in Files : dir'[f] = IF f \in Range(more) THEN tasks["runner"].export ELSE dir[f]
  <2> SUFFICES ASSUME faults'.cancel = 0 PROVE Latest'
    BY DEF Latest
  <2>1. /\ tasks'["runner"].export = started
        /\ \A f \in tasks'["runner"].created : dir'[f] = started
    BY <1>3, <1>4
  <2> QED
    BY <2>1 DEF Latest
<1> QED
  BY <1>1, <1>2, <1>4

LEMMA LatestBegun ==
    ASSUME TasksTyped, NEW outcome, NEW phase, Begin("runner", outcome, phase, <<>>)
    PROVE  Latest'
<1>1. Range(<<>>) = {} /\ "runner" \in Tasks
  BY OneFile DEF Tasks
<1>2. tasks'["runner"].export = started' /\ tasks'["runner"].created = {}
  BY <1>1 DEF Begin, TasksTyped
<1> QED
  BY <1>2 DEF Latest

LEMMA WriteFresh ==
    ASSUME BundleInv, WholeInv, FreshInv, NEW t \in Tasks, tasks[t].phase \notin Resting,
           NEW names \in Seq(Files), Write(tasks[t].export, names), "result" \notin Range(names),
           result' = result, faults' = faults
    PROVE  NothingStale'
BY RangeNames, RecordFresh DEF Write

(* The runner writes one file more and goes on, or writes nothing.          *)
LEMMA GoesOnFresh ==
    ASSUME BundleInv, WholeInv, FreshInv, tasks["runner"].phase \notin Resting, NEW phase, NEW more \in Seq(Files),
           Move("runner", phase, more), UNCHANGED <<result, faults, started>>,
           \/ Write(tasks["runner"].export, more) /\ "result" \notin Range(more)
           \/ bundle' = bundle /\ Range(more) = {}
    PROVE  FreshInv'
<1>1. NothingStale'
  BY WriteFresh, NothingWritten DEF FreshInv, Tasks
<1>2. \A f \in Files : dir'[f] = IF f \in Range(more) THEN tasks["runner"].export ELSE dir[f]
  <2>1. CASE Write(tasks["runner"].export, more)
    BY <2>1 DEF Write, Record
  <2>2. CASE bundle' = bundle /\ Range(more) = {}
    BY <2>2, Stays
  <2> QED
    BY <2>1, <2>2
<1>3. Latest'
  BY <1>2, LatestKept DEF FreshInv
<1> QED
  BY <1>1, <1>3 DEF FreshInv

LEMMA FreshInit == BundleInit => FreshInv
<1> SUFFICES ASSUME BundleInit PROVE FreshInv
  OBVIOUS
<1>1. rows = {} /\ result.files = {} /\ tasks["runner"].phase = "working"
  BY DEF BundleInit, Idle, Tasks
<1> QED
  BY <1>1 DEF FreshInv, NothingStale, Latest, Resting

LEMMA BeginsFresh ==
    ASSUME BundleInv, WholeInv, FreshInv, Succeeds \/ Fails \/ ObservesStop \/ Finalizes PROVE FreshInv'
<1> USE DEF BundleInv, Typed
<1>1. bundle' = bundle /\ faults' = faults
  BY DEF Succeeds, Fails, ObservesStop, Finalizes, world
<1>2. NothingStale'
  BY <1>1, NothingWritten DEF FreshInv
<1>3. Latest'
  <2>1. CASE \E outcome, phase : Begin("runner", outcome, phase, <<>>)
    BY <2>1, LatestBegun
  <2>2. CASE Move("runner", "over", <<>>)
    <3>1. tasks'["runner"].phase = "over"
      BY <2>2 DEF Move, TasksTyped, Tasks
    <3> QED
      BY <3>1 DEF Latest, Resting
  <2>3. CASE Finalizes
    BY <1>1, <2>3 DEF Finalizes, WholeInv, OneExporter, Latest
  <2> QED
    BY <2>1, <2>2, <2>3 DEF Succeeds, Fails, ObservesStop
<1> QED
  BY <1>2, <1>3 DEF FreshInv

LEMMA OpensFresh ==
    ASSUME BundleInv, WholeInv, FreshInv, NEW t \in Tasks, NEW patch \in BOOLEAN, Opens(t, patch) PROVE FreshInv'
<1> USE DEF BundleInv, Typed
<1> DEFINE opening == Opening(tasks[t].outcome, patch)
<1>1. tasks[t].outcome \in Outcomes /\ tasks[t].phase \notin Resting
  BY Exporting DEF Opens, At, Resting
<1>2. opening \in Seq(Files) /\ "result" \notin Range(opening)
  BY <1>1, OpeningNames, OpeningOthers
<1>3. /\ Write(tasks[t].export, opening) /\ Move(t, Following(t), opening)
      /\ UNCHANGED <<result, faults, started>>
  BY DEF Opens, world
<1> HIDE DEF opening
<1>4. CASE t = "runner"
  BY <1>1, <1>2, <1>3, <1>4, GoesOnFresh
<1>5. CASE t = "finalizer"
  <2>1. faults.cancel # 0
    BY <1>1, <1>5 DEF WholeInv, OneExporter, Resting
  <2>2. NothingStale'
    BY <1>1, <1>2, <1>3, WriteFresh
  <2> QED
    BY <1>3, <2>1, <2>2 DEF FreshInv, Latest
<1> QED
  BY <1>4, <1>5 DEF Tasks

LEMMA RequestsFresh ==
    ASSUME BundleInv, WholeInv, FreshInv, Commits \/ Prepares \/ Pushed \/ PullRequestCreated \/ CommandFails
    PROVE  FreshInv'
<1>0. tasks["runner"].phase \notin Resting /\ UNCHANGED <<faults, started>>
  BY DEF Commits, Prepares, Pushed, PullRequestCreated, CommandFails, At, Resting, Commands, world
<1>1. CASE Commits
  <2>1. PICK phase : Move("runner", phase, <<"commit">>)
    BY <1>1 DEF Commits
  <2> QED
    BY <1>0, <1>1, <2>1, OneFile, GoesOnFresh DEF Commits
<1>2. ASSUME NEW phase, Move("runner", phase, <<>>), bundle' = bundle PROVE FreshInv'
  <2>1. result' = result
    BY <1>2, Stays
  <2> QED
    BY <1>0, <1>2, <2>1, OneFile, GoesOnFresh
<1>3. ASSUME NEW status, Tell(status), result' = result PROVE FreshInv'
  <2>1. Write(tasks["runner"].export, <<"pull_request">>) /\ Move("runner", "archive", <<"pull_request">>)
    BY <1>3 DEF Tell
  <2> QED
    BY <1>0, <1>3, <2>1, OneFile, GoesOnFresh
<1>4. CASE Prepares
  BY <1>2, <1>3, <1>4 DEF Prepares
<1>5. CASE Pushed
  BY <1>2, <1>5 DEF Pushed
<1>6. CASE PullRequestCreated \/ CommandFails
  BY <1>3, <1>6 DEF PullRequestCreated, CommandFails
<1> QED
  BY <1>1, <1>4, <1>5, <1>6

LEMMA ArchivedFresh ==
    ASSUME BundleInv, WholeInv, FreshInv, NEW t \in Tasks, NEW archive \in BOOLEAN, Archived(t, archive)
    PROVE  FreshInv'
<1> USE DEF BundleInv, Typed
<1> DEFINE names == Closing(archive)
           some == Only(archive, "archive")
<1>1. tasks[t].phase \notin Resting /\ faults' = faults
  BY DEF Archived, At, Resting, world
<1>2. names \in Seq(Files) /\ Range(names) \subseteq Files
  BY ClosingNames, RangeNames
<1>3. Range(some) \subseteq Range(names) /\ "result" \in Range(names)
  <2>1. <<"result", "zip">> \in Seq(Files) /\ some \in Seq(Files)
    BY ClosingNames DEF Files
  <2>2. "result" \in Range(<<"result", "zip">>)
    BY DEF Range
  <2>3. names = some \o <<"result", "zip">>
    BY DEF Closing
  <2> HIDE DEF some, names
  <2>4. Range(names) = Range(some) \cup Range(<<"result", "zip">>)
    BY <2>1, <2>3, RangeOfBoth
  <2> QED
    BY <2>2, <2>4
<1>4. Record(tasks[t].export, Range(names), Range(names)) /\ result'.files = Named(tasks[t].created \cup Range(some))
  BY DEF Archived, Write, Sealed, Files
<1> HIDE DEF some, names
<1>5. NothingStale'
  BY <1>1, <1>2, <1>3, <1>4, RecordFresh
<1>6. Latest'
  <2>1. CASE t = "runner"
    <3>1. tasks'["runner"].phase = "over"
      BY <2>1 DEF Archived, Move, Ended, TasksTyped, Tasks
    <3> QED
      BY <3>1 DEF Latest, Resting
  <2>2. CASE t = "finalizer"
    BY <1>1, <2>2 DEF WholeInv, OneExporter, Resting, Latest
  <2> QED
    BY <2>1, <2>2 DEF Tasks
<1> QED
  BY <1>5, <1>6 DEF FreshInv

LEMMA TornFresh ==
    ASSUME BundleInv, WholeInv, FreshInv, NEW t \in Tasks, Torn(t), faults'.cancel = faults.cancel PROVE NothingStale'
<1>1. CASE bundle' = bundle
  BY <1>1, NothingWritten DEF FreshInv
<1>2. ASSUME tasks[t].phase \notin Resting, NEW files \in SUBSET Files, NEW listed \in SUBSET Files,
             listed \subseteq files, Record(tasks[t].export, files, listed),
             \/ "result" \notin files /\ result' = result
             \/ "result" \in files /\ \E more \in SUBSET files : result'.files = Named(tasks[t].created \cup more)
      PROVE  NothingStale'
  BY <1>2, RecordFresh
<1> QED
  BY <1>1, <1>2, TornRecord

LEMMA DisturbsFresh == ASSUME BundleInv, WholeInv, FreshInv, Disturbs PROVE FreshInv'
<1> USE DEF BundleInv, Typed
<1>1. CASE TimesOut
  <2>1. bundle' = bundle /\ Fault("call", MaxFaults) /\ Begin("runner", "failed", "diff", <<>>)
    BY <1>1 DEF TimesOut
  <2>2. faults'.cancel = faults.cancel
    BY <2>1, Faulted DEF WholeInv
  <2> QED
    BY <2>1, <2>2, NothingWritten, LatestBegun DEF FreshInv
<1>2. CASE Crash
  <2>1. PICK t \in Tasks : Torn(t)
    BY <1>2 DEF Crash
  <2>2. faults'.cancel = faults.cancel
    BY <1>2, Faulted DEF WholeInv, Crash
  <2>3. tasks'["runner"].phase \in Resting
    BY <1>2 DEF Crash, Idle, Tasks, Resting
  <2> QED
    BY <2>1, <2>2, <2>3, TornFresh DEF FreshInv, Latest
<1>3. CASE Cancel
  <2>1. bundle' = bundle /\ faults'.cancel # 0
    BY <1>3 DEF Cancel, Fault, WholeInv, FaultsTyped
  <2> QED
    BY <2>1, NothingWritten DEF FreshInv, Latest
<1>4. ASSUME NEW t \in Tasks, WriteFails(t) PROVE FreshInv'
  <2>1. Torn(t) /\ Fault("call", MaxFaults) /\ tasks[t].phase \notin Resting
    BY <1>4 DEF WriteFails, Resting
  <2>2. faults'.cancel = faults.cancel
    BY <2>1, Faulted DEF WholeInv
  <2>3. CASE t = "runner" /\ Begin(t, "failed", "diff", <<>>)
    BY <2>3, LatestBegun, <2>1, <2>2, TornFresh DEF FreshInv
  <2>4. CASE t = "runner" /\ \E phase \in {"over", Ended(t)} : Move(t, phase, <<>>)
    <3>1. tasks'["runner"].phase = "over"
      BY <2>4 DEF Move, Ended, TasksTyped, Tasks
    <3> QED
      BY <3>1, <2>1, <2>2, TornFresh DEF FreshInv, Latest, Resting
  <2>5. CASE t = "finalizer"
    <3>1. faults.cancel # 0
      BY <2>1, <2>5 DEF WholeInv, OneExporter, Resting
    <3> QED
      BY <2>1, <2>2, <3>1, TornFresh DEF FreshInv, Latest
  <2> QED
    BY <1>4, <2>3, <2>4, <2>5 DEF WriteFails, Tasks
<1> QED
  BY <1>1, <1>2, <1>3, <1>4 DEF Disturbs

LEMMA FreshStep == BundleInv /\ WholeInv /\ FreshInv /\ [BundleNext]_bundleVars => FreshInv'
<1> SUFFICES ASSUME BundleInv, WholeInv, FreshInv, [BundleNext]_bundleVars PROVE FreshInv'
  OBVIOUS
<1>1. ASSUME bundle' = bundle, UNCHANGED <<tasks, faults, started>> PROVE FreshInv'
  <2>1. dir' = dir
    BY <1>1, Stays
  <2>2. NothingStale'
    BY <1>1, NothingWritten DEF FreshInv
  <2> QED
    BY <1>1, <2>1, <2>2 DEF FreshInv, Latest
<1>2. CASE UNCHANGED bundleVars
  BY <1>1, <1>2 DEF bundleVars
<1>3. CASE OrphanEnds
  BY <1>1, <1>3 DEF OrphanEnds
<1>4. CASE Exports /\ ~OrphanEnds
  BY <1>4, OpensFresh, BeginsFresh, RequestsFresh, ArchivedFresh DEF Exports
<1>5. CASE Disturbs
  BY <1>5, DisturbsFresh
<1> QED
  BY <1>2, <1>3, <1>4, <1>5 DEF BundleNext

(* However many exports are cut off and made again, neither the artifact     *)
(* table nor result.json passes off as an export's what an earlier one left  *)
(* in the directory.                                                        *)
THEOREM ListsNothingStale == BundleSpec => []NothingStale
<1>1. FreshInv => NothingStale
  BY DEF FreshInv
<1>2. BundleSpec => []WholeInv
  BY Invariance, WholeInit, WholeStep, PTL DEF BundleSpec
<1>3. BundleSpec => []FreshInv
  BY <1>2, Invariance, FreshInit, FreshStep, PTL DEF BundleSpec
<1> QED
  BY <1>1, <1>3, PTL
================================================================================
