---------------------------- MODULE CandidateProofs ----------------------------
(* Theorems about Candidate, for every set of jobs and tools and every bound. *)
EXTENDS Candidate, TLAPS, SequenceTheorems

USE CandidateConstants, OwnLeftover

--------------------------------------------------------------------------------
(* Types.                                                                   *)

Reports == [exit : {0, 1}, paths : SUBSET (Paths \cup {"message"}), cut : BOOLEAN]
Readings == [exit : {0, 1}, diff : Diffs, cut : BOOLEAN]
Checks == [exit : {0, 1}, detected : BOOLEAN]
Smokes == [exit : {0, 1}, detected : BOOLEAN, ran : SUBSET (SmokeKinds \cup {"output", "test"})]
Verdicts == [status : Reports, diff : Readings, verified : Diffs, listed : SUBSET Paths,
             tests : Checks, build : Checks, lint : Checks, smoke : Smokes,
             judgement : {"none", "passed", "vetoed"}]
GateReadings == [status : Reports, diff : Diffs]

WorkTyped ==
    /\ pc \in Steps /\ job \in Jobs /\ git \in BOOLEAN /\ known \in SUBSET Paths
    /\ head \in Tree /\ work \in Tree
SaidTyped ==
    /\ evidence \in SUBSET Evidence /\ reason \in BOOLEAN
    /\ writing \in [edit : Edit, text : SUBSET Lines]
VerdictTyped ==
    /\ gate \in GateReadings /\ seen \in Verdicts /\ queue \in Seq(SmokeKinds)
    /\ diffed \in Tree /\ tested \in Tree
RestTyped ==
    /\ patch \in Diffs
    /\ count \in [edits : 0..MaxEdits, strays : 0..MaxStrays, candidates : 0..MaxCandidates]

Typed == WorkTyped /\ SaidTyped /\ VerdictTyped /\ RestTyped

LEMMA JobTyped ==
    ASSUME job \in Jobs
    PROVE  /\ job.base \in Tree /\ job.edits \in SUBSET Edit /\ job.cues \in SUBSET Cues
           /\ job.repo \in BOOLEAN /\ job.judge \in BOOLEAN /\ job.shows \in SUBSET Evidence
BY DEF Job

LEMMA PutTyped ==
    ASSUME NEW tr \in Tree, NEW p \in Paths, NEW lines \in SUBSET Lines
    PROVE  /\ Put(tr, p, lines) \in Tree /\ Put(tr, p, lines)[p] = lines
           /\ \A q \in Paths \ {p} : Put(tr, p, lines)[q] = tr[q]
BY DEF Put, Tree

LEMMA PathsHere == {"app", "readme", "json", "log", "leftover"} \subseteq Paths /\ {"code", "todo", "old"} \subseteq Lines
BY DEF Paths, Lines

LEMMA MissingTyped == Missing \in Tree
BY DEF Missing, Tree

LEMMA SectionsTyped ==
    ASSUME NEW paths \in SUBSET Paths, NEW base \in Tree, NEW tr \in Tree
    PROVE  Sections(paths, base, tr) \in Diffs
BY DEF Sections, Diffs, Tree

LEMMA NoDiffTyped == NoDiff \in Diffs
BY SectionsTyped, MissingTyped DEF NoDiff

LEMMA SyntheticTyped ==
    ASSUME NEW paths, NEW listed
    PROVE  Synthetic(paths, listed) \in Diffs
BY NoDiffTyped DEF Synthetic, Diffs

LEMMA AugmentedTyped ==
    ASSUME NEW p, NEW diff \in Diffs, NEW tr \in Tree
    PROVE  Augmented(p, diff, tr) \in Diffs
<1>1. Appended(p, diff, tr) \in SUBSET Paths
  BY PathsHere DEF Appended, When, Python, Paths
<1>2. diff.added \in Tree /\ diff.text \in Tree /\ diff.paths \in SUBSET Paths
  BY DEF Diffs
<1> DEFINE more == Appended(p, diff, tr)
           whole == diff.git /\ more = {}
           added == [x \in Paths |-> IF x \in more THEN tr[x] ELSE diff.added[x]]
           text == [x \in Paths |-> IF x \in more THEN diff.text[x] \cup tr[x] ELSE diff.text[x]]
<1>3. added \in Tree /\ text \in Tree /\ whole \in BOOLEAN
  BY <1>2 DEF Tree
<1>4. Augmented(p, diff, tr) =
        [diff EXCEPT !.paths = diff.paths \cup more, !.git = whole, !.added = added, !.text = text]
  BY DEF Augmented
<1> HIDE DEF more, whole, added, text
<1>5. diff.paths \cup more \in SUBSET Paths
  BY <1>1, <1>2 DEF more
<1> QED
  BY <1>3, <1>4, <1>5 DEF Diffs

LEMMA OnlyTyped == ASSUME NEW name \in SmokeKinds, NEW holds PROVE Only(name, holds) \in Seq(SmokeKinds)
BY DEF Only

LEMMA SmokeTyped == ASSUME NEW c, NEW p, NEW diff PROVE SmokeCommands(c, p, diff) \in Seq(SmokeKinds)
<1> DEFINE files == diff.paths
           runs == Runnable(c, p, files)
           a == Only("compile", files \cap Python # {})
           b == Only(IF p.command THEN "declared"
                     ELSE IF p.crawler /\ "dry_run" \in diff.added["app"] THEN "dry_run" ELSE "entry", runs)
           d == Only(IF "csv" \in c THEN "csv_output" ELSE "json_output", runs /\ c \cap {"csv", "json", "json_path"} # {})
           e == Only("json_check", "json" \in files)
           f == Only("declared", p.command)
<1>1. {"compile", "declared", "dry_run", "entry", "csv_output", "json_output", "json_check"} \subseteq SmokeKinds
  BY DEF SmokeKinds
<1>2. a \in Seq(SmokeKinds) /\ b \in Seq(SmokeKinds) /\ d \in Seq(SmokeKinds) /\ e \in Seq(SmokeKinds) /\ f \in Seq(SmokeKinds)
  BY <1>1, OnlyTyped
<1>3. SmokeCommands(c, p, diff) = IF Unchecked(p) THEN <<>>
                                  ELSE IF (a \o b \o d \o e) = <<>> \/ runs THEN a \o b \o d \o e
                                  ELSE (a \o b \o d \o e) \o f
  BY DEF SmokeCommands
<1> HIDE DEF a, b, d, e, f, runs
<1>4. a \o b \in Seq(SmokeKinds)
  BY <1>2, ConcatProperties
<1>5. (a \o b) \o d \in Seq(SmokeKinds)
  BY <1>2, <1>4, ConcatProperties
<1>6. ((a \o b) \o d) \o e \in Seq(SmokeKinds)
  BY <1>2, <1>5, ConcatProperties
<1>7. (((a \o b) \o d) \o e) \o f \in Seq(SmokeKinds)
  BY <1>2, <1>6, ConcatProperties
<1> QED
  BY <1>3, <1>6, <1>7

LEMMA NoSmokeTyped == ASSUME NEW p, NEW diff, NEW detected PROVE NoSmokeExit(p, diff, detected) \in {0, 1}
BY DEF NoSmokeExit

LEMMA StatusTyped == ASSUME WorkTyped PROVE {GoodStatus} \cup BadStatus \subseteq Reports
<1>1. Changed(head, work) \in SUBSET Paths
  BY DEF Changed, Meaningful
<1>2. \A ps \in SUBSET Changed(head, work), cut \in BOOLEAN : Report(0, ps, cut) \in Reports
  BY <1>1 DEF Report, Reports
<1>3. Failure \in Reports
  BY DEF Failure, Report, Reports
<1> QED
  BY <1>2, <1>3 DEF GoodStatus, BadStatus

LEMMA ReadingTyped == ASSUME WorkTyped PROVE {GoodDiff} \cup BadDiff \subseteq Readings
<1>1. Unreadable \in Readings
  BY NoDiffTyped DEF Unreadable, Reading, Readings, Diffs
<1>2. \A ps \in SUBSET (Changed(head, work) \cap known), cut \in BOOLEAN :
        Reading(0, Sections(ps, head, work), cut) \in Readings
  BY SectionsTyped DEF WorkTyped, Reading, Readings
<1> QED
  BY <1>1, <1>2 DEF GoodDiff, BadDiff

LEMMA UnseenTyped == Unseen \in Verdicts /\ [status |-> Report(0, {}, FALSE), diff |-> NoDiff] \in GateReadings
<1>1. Report(0, {}, FALSE) \in Reports /\ Reading(0, NoDiff, FALSE) \in Readings /\ Check(0, FALSE) \in Checks
  BY NoDiffTyped DEF Report, Reports, Reading, Readings, Check, Checks
<1>2. [exit |-> 0, detected |-> FALSE, ran |-> {}] \in Smokes
  BY DEF Smokes
<1> QED
  BY <1>1, <1>2, NoDiffTyped DEF Unseen, Verdicts, GateReadings

(* What commands and processes write.                                       *)
LEMMA LeavesTyped ==
    ASSUME WorkTyped, RestTyped, Leaves
    PROVE  /\ work' \in Tree
           /\ count' \in [edits : 0..MaxEdits, strays : 0..MaxStrays, candidates : 0..MaxCandidates]
           /\ work'["leftover"] = work["leftover"]
           /\ \A q \in Paths : work[q] # {} => work'[q] # {}
<1>1. CASE UNCHANGED <<work, count>>
  BY <1>1 DEF WorkTyped, RestTyped
<1>2. ASSUME NEW p \in {"json", "log"}, count.strays < MaxStrays,
             work' = Put(work, p, {"code"}), count' = [count EXCEPT !.strays = @ + 1]
      PROVE  /\ work' \in Tree
             /\ count' \in [edits : 0..MaxEdits, strays : 0..MaxStrays, candidates : 0..MaxCandidates]
             /\ work'["leftover"] = work["leftover"]
             /\ \A q \in Paths : work[q] # {} => work'[q] # {}
  <2>1. p \in Paths /\ {"code"} \in SUBSET Lines /\ "leftover" \in Paths \ {p}
    BY PathsHere
  <2>2. work' \in Tree /\ work'[p] = {"code"} /\ \A q \in Paths \ {p} : work'[q] = work[q]
    BY <1>2, <2>1, PutTyped DEF WorkTyped
  <2>3. count' \in [edits : 0..MaxEdits, strays : 0..MaxStrays, candidates : 0..MaxCandidates]
    BY <1>2 DEF RestTyped
  <2> QED
    BY <2>1, <2>2, <2>3
<1> QED
  BY <1>1, <1>2 DEF Leaves

LEMMA EditTyped ==
    ASSUME WorkTyped, NEW e \in job.edits
    PROVE  /\ e \in Edit /\ e.path \in Paths \ {"leftover"} /\ e.from \in Lines /\ e.to \in Lines
           /\ "leftover" \in Paths \ {e.path}
<1>1. e \in Edit
  BY JobTyped DEF WorkTyped
<1>2. e.path # "leftover"
  BY DEF WorkTyped
<1> QED
  BY <1>1, <1>2, PathsHere DEF Edit

LEMMA CountedTyped ==
    ASSUME RestTyped, count.edits < MaxEdits, Counted
    PROVE  count' \in [edits : 0..MaxEdits, strays : 0..MaxStrays, candidates : 0..MaxCandidates]
BY DEF RestTyped, Counted

--------------------------------------------------------------------------------
(* Types are kept: the agent's tools.                                       *)

LEMMA InitTyped == CandidateInit => Typed
<1> SUFFICES ASSUME CandidateInit PROVE Typed
  OBVIOUS
<1>1. job \in Jobs /\ job.base \in Tree
  BY JobTyped DEF CandidateInit
<1>2. WorkTyped
  <2>1. git \in BOOLEAN
    BY Zenon DEF CandidateInit
  <2>2. known \in SUBSET Paths
    BY DEF CandidateInit
  <2>3. pc \in Steps
    BY DEF CandidateInit, Steps, Agent
  <2> QED
    BY <1>1, <2>1, <2>2, <2>3 DEF CandidateInit, WorkTyped
<1>3. SaidTyped
  <2>1. Nothing \in [edit : Edit, text : SUBSET Lines]
    BY PathsHere DEF Nothing, Edit
  <2> QED
    BY <2>1 DEF CandidateInit, SaidTyped
<1>4. VerdictTyped
  BY UnseenTyped, MissingTyped DEF CandidateInit, VerdictTyped
<1>5. RestTyped
  BY NoDiffTyped DEF CandidateInit, RestTyped
<1> QED
  BY <1>2, <1>3, <1>4, <1>5 DEF Typed

(* A step that leaves all that was read alone.                              *)
LEMMA VerdictKept == ASSUME VerdictTyped, UNCHANGED verdict PROVE VerdictTyped'
BY DEF VerdictTyped, verdict

LEMMA SaidKept == ASSUME SaidTyped, UNCHANGED <<said, writing>> PROVE SaidTyped'
BY DEF SaidTyped, said

LEMMA EditsTyped ==
    ASSUME Typed, NEW new \in Tree, Edits(new)
    PROVE  work' \in Tree /\ evidence' \in SUBSET Evidence
BY DEF Edits, Typed, WorkTyped, SaidTyped, Evidence

LEMMA WriteTyped == ASSUME Typed, WriteFile PROVE Typed'
<1> USE DEF Typed
<1>1. PICK e \in job.edits : Edits(Put(work, e.path, {e.to}))
  BY DEF WriteFile
<1>2. Put(work, e.path, {e.to}) \in Tree
  BY EditTyped, PutTyped DEF WorkTyped
<1>3. work' \in Tree /\ evidence' \in SUBSET Evidence
  BY <1>1, <1>2, EditsTyped
<1>4. WorkTyped'
  BY <1>3 DEF WriteFile, WorkTyped
<1>5. SaidTyped'
  BY <1>3 DEF WriteFile, SaidTyped
<1>6. RestTyped' /\ VerdictTyped'
  BY CountedTyped, VerdictKept DEF WriteFile, RestTyped, Starts
<1> QED
  BY <1>4, <1>5, <1>6

LEMMA EditReadsTyped == ASSUME Typed, EditReads PROVE Typed'
<1> USE DEF Typed
<1>1. PICK e \in job.edits, gone \in {{}, {"old"}} : writing' = [edit |-> e, text |-> work[e.path] \ gone]
  BY DEF EditReads
<1>2. work[e.path] \ gone \in SUBSET Lines
  BY EditTyped DEF WorkTyped, Tree
<1>3. SaidTyped'
  BY <1>1, <1>2, EditTyped DEF EditReads, SaidTyped, said
<1>4. WorkTyped'
  BY DEF EditReads, WorkTyped, tree, Steps, Agent
<1>5. RestTyped'
  BY CountedTyped DEF EditReads, RestTyped, Starts
<1>6. VerdictTyped'
  BY VerdictKept DEF EditReads
<1> QED
  BY <1>3, <1>4, <1>5, <1>6

LEMMA ReplacedTyped ==
    ASSUME NEW e \in Edit, NEW text \in SUBSET Lines
    PROVE  Replaced(text, e) \in SUBSET Lines
BY DEF Replaced, Edit

LEMMA NothingTyped == Nothing \in [edit : Edit, text : SUBSET Lines]
BY PathsHere DEF Nothing, Edit

LEMMA EditWritesTyped == ASSUME Typed, EditWrites PROVE Typed'
<1> USE DEF Typed
<1> DEFINE e == writing.edit
           new == Put(work, e.path, Replaced(writing.text, e))
<1>1. e \in Edit /\ e.path \in Paths /\ writing.text \in SUBSET Lines
  BY DEF SaidTyped, Edit
<1>2. new \in Tree
  BY <1>1, ReplacedTyped, PutTyped DEF WorkTyped
<1>3. Edits(new) \/ UNCHANGED <<work, evidence>>
  BY DEF EditWrites
<1>4. work' \in Tree /\ evidence' \in SUBSET Evidence
  <2> HIDE DEF new
  <2> QED
    BY <1>2, <1>3, EditsTyped DEF WorkTyped, SaidTyped
<1>5. WorkTyped'
  BY <1>4 DEF EditWrites, WorkTyped, Steps, Agent
<1>6. SaidTyped'
  BY <1>4, NothingTyped DEF EditWrites, SaidTyped
<1>7. RestTyped' /\ VerdictTyped'
  BY VerdictKept DEF EditWrites, RestTyped
<1> QED
  BY <1>5, <1>6, <1>7

LEMMA PatchWritesTyped == ASSUME Typed, PatchWrites PROVE Typed'
<1> USE DEF Typed
<1>1. work' \in Tree
  BY PathsHere, PutTyped DEF PatchWrites, WorkTyped
<1>2. WorkTyped'
  BY <1>1 DEF PatchWrites, WorkTyped, Steps, Agent
<1>3. SaidTyped'
  <2>1. CASE UNCHANGED writing
    BY <2>1 DEF PatchWrites, SaidTyped, said
  <2>2. ASSUME NEW e \in job.edits, writing' = [edit |-> e, text |-> {}] PROVE SaidTyped'
    BY <2>2, EditTyped DEF PatchWrites, SaidTyped, said
  <2> QED
    BY <2>1, <2>2 DEF PatchWrites
<1>4. RestTyped' /\ VerdictTyped'
  BY CountedTyped, VerdictKept DEF PatchWrites, RestTyped, Starts
<1> QED
  BY <1>2, <1>3, <1>4

LEMMA PatchRunsTyped == ASSUME Typed, PatchRuns PROVE Typed'
<1> USE DEF Typed
<1> DEFINE e == writing.edit
           applied == Put(work, e.path, Replaced(work[e.path], e))
           done == Put(applied, "leftover", {})
<1>1. applied \in Tree /\ done \in Tree
  <2>1. e \in Edit /\ e.path \in Paths /\ work[e.path] \in SUBSET Lines
    BY DEF SaidTyped, WorkTyped, Edit, Tree
  <2>2. applied \in Tree
    BY <2>1, ReplacedTyped, PutTyped DEF WorkTyped
  <2> HIDE DEF applied
  <2> QED
    BY <2>2, PathsHere, PutTyped
<1>2. work' \in {work, applied, done}
  BY DEF PatchRuns
<1>3. evidence' \in SUBSET Evidence /\ pc' \in {"working", "removing"}
  BY DEF PatchRuns, SaidTyped, Evidence
<1>4. work' \in Tree
  <2> HIDE DEF applied, done
  <2> QED
    BY <1>1, <1>2 DEF WorkTyped
<1>5. WorkTyped'
  BY <1>3, <1>4 DEF PatchRuns, WorkTyped, Steps, Agent
<1>6. SaidTyped'
  BY <1>3, NothingTyped DEF PatchRuns, SaidTyped
<1>7. RestTyped' /\ VerdictTyped'
  BY VerdictKept DEF PatchRuns, RestTyped
<1> QED
  BY <1>5, <1>6, <1>7

LEMMA PatchRemovesTyped == ASSUME Typed, PatchRemoves PROVE Typed'
<1> USE DEF Typed
<1>1. work' \in Tree
  BY PathsHere, PutTyped DEF PatchRemoves, WorkTyped
<1>2. WorkTyped'
  BY <1>1 DEF PatchRemoves, WorkTyped, Steps, Agent
<1>3. SaidTyped' /\ RestTyped' /\ VerdictTyped'
  BY SaidKept, VerdictKept DEF PatchRemoves, RestTyped
<1> QED
  BY <1>2, <1>3

LEMMA AgentRunsTyped == ASSUME Typed, AgentRuns PROVE Typed'
<1> USE DEF Typed
<1>1. WorkTyped' /\ RestTyped'
  BY LeavesTyped DEF AgentRuns, WorkTyped, RestTyped
<1>2. SaidTyped'
  BY DEF AgentRuns, SaidTyped, Evidence
<1>3. VerdictTyped'
  BY VerdictKept DEF AgentRuns
<1> QED
  BY <1>1, <1>2, <1>3

LEMMA ResearchesTyped == ASSUME Typed, Researches PROVE Typed'
<1> USE DEF Typed
<1>1. WorkTyped' /\ RestTyped'
  BY DEF Researches, WorkTyped, RestTyped, tree
<1>2. SaidTyped'
  BY DEF Researches, SaidTyped, Evidence, When
<1>3. VerdictTyped'
  BY VerdictKept DEF Researches
<1> QED
  BY <1>1, <1>2, <1>3

LEMMA CommitsTyped == ASSUME Typed, Commits PROVE Typed'
<1> USE DEF Typed
<1>1. WorkTyped' /\ RestTyped'
  BY DEF Commits, WorkTyped, RestTyped, Present
<1>2. SaidTyped' /\ VerdictTyped'
  BY SaidKept, VerdictKept DEF Commits
<1> QED
  BY <1>1, <1>2

LEMMA ProposesTyped == ASSUME Typed, Proposes PROVE Typed'
<1> USE DEF Typed
<1>1. WorkTyped'
  BY DEF Proposes, WorkTyped, tree, Steps, Gate
<1>2. RestTyped'
  BY DEF Proposes, RestTyped
<1>3. reason' \in BOOLEAN
  BY DEF Proposes
<1>4. SaidTyped' /\ VerdictTyped'
  BY <1>3, VerdictKept DEF Proposes, SaidTyped
<1> QED
  BY <1>1, <1>2, <1>4

LEMMA BackgroundTyped == ASSUME Typed, BackgroundWrites PROVE Typed'
<1> USE DEF Typed
<1>1. work["app"] \cup {"todo"} \in SUBSET Lines
  BY PathsHere DEF WorkTyped, Tree
<1>2. work' \in Tree
  BY <1>1, PathsHere, PutTyped DEF BackgroundWrites, WorkTyped
<1>3. WorkTyped'
  BY <1>2 DEF BackgroundWrites, WorkTyped
<1>4. RestTyped'
  BY DEF BackgroundWrites, RestTyped
<1>5. SaidTyped' /\ VerdictTyped'
  BY SaidKept, VerdictKept DEF BackgroundWrites
<1> QED
  BY <1>3, <1>4, <1>5

--------------------------------------------------------------------------------
(* Types are kept: the gate, the verifier and the end.                      *)

(* A step that only changes where it is and what was read.                  *)
LEMMA ReadTyped ==
    ASSUME Typed, pc' \in Steps, VerdictTyped', RestTyped', reason' \in BOOLEAN,
           UNCHANGED <<job, tree, evidence, writing>>
    PROVE  Typed'
BY DEF Typed, WorkTyped, SaidTyped, tree

LEMMA GatePreparesTyped == ASSUME Typed, GatePrepares PROVE Typed'
<1> USE DEF Typed
<1>1. known' \in SUBSET Paths
  BY DEF GatePrepares, WorkTyped, Present
<1>2. WorkTyped'
  BY <1>1 DEF GatePrepares, WorkTyped, Steps, Gate
<1>3. SaidTyped' /\ VerdictTyped' /\ RestTyped'
  BY SaidKept, VerdictKept DEF GatePrepares, RestTyped
<1> QED
  BY <1>2, <1>3

LEMMA GateStatusTyped == ASSUME Typed, GateStatus PROVE Typed'
<1>1. gate' \in GateReadings
  BY StatusTyped DEF GateStatus, Typed, VerdictTyped, GateReadings
<1>2. VerdictTyped' /\ RestTyped'
  BY <1>1 DEF GateStatus, Typed, VerdictTyped, RestTyped
<1> QED
  BY <1>2, ReadTyped DEF GateStatus, Typed, SaidTyped, said, Steps, Gate

LEMMA GateDiffTyped == ASSUME Typed, GateDiff PROVE Typed'
<1>1. gate' \in GateReadings
  BY ReadingTyped DEF GateDiff, Typed, VerdictTyped, GateReadings, Readings
<1>2. VerdictTyped' /\ RestTyped'
  BY <1>1 DEF GateDiff, Typed, VerdictTyped, RestTyped
<1> QED
  BY <1>2, ReadTyped DEF GateDiff, Typed, SaidTyped, said, Steps, Gate

LEMMA ReadyTyped == ASSUME Ready PROVE VerdictTyped' /\ reason' \in BOOLEAN
<1>1. reason' \in BOOLEAN
  BY Zenon DEF Ready
<1>2. gate' \in GateReadings /\ seen' \in Verdicts
  BY UnseenTyped, Zenon DEF Ready
<1>3. queue' \in Seq(SmokeKinds) /\ diffed' \in Tree /\ tested' \in Tree
  BY MissingTyped DEF Ready
<1> QED
  BY <1>1, <1>2, <1>3 DEF VerdictTyped

LEMMA GateInspectsTyped == ASSUME Typed, GateInspects PROVE Typed'
<1>1. \/ pc' = "prepare" /\ UNCHANGED <<reason, verdict>>
      \/ pc' = "working" /\ Ready
  BY DEF GateInspects
<1>2. VerdictTyped' /\ reason' \in BOOLEAN /\ pc' \in Steps
  BY <1>1, ReadyTyped, VerdictKept DEF Typed, SaidTyped, Steps, Verifier, Agent
<1> QED
  BY <1>2, ReadTyped DEF GateInspects, Typed, RestTyped

LEMMA PreparesTyped == ASSUME Typed, Prepares PROVE Typed'
<1> USE DEF Typed
<1>1. known' \in SUBSET Paths /\ git' \in BOOLEAN
  BY DEF Prepares, WorkTyped, Present
<1>2. WorkTyped'
  BY <1>1 DEF Prepares, WorkTyped, Steps, Verifier
<1>3. SaidTyped' /\ VerdictTyped' /\ RestTyped'
  BY SaidKept, VerdictKept DEF Prepares, RestTyped
<1> QED
  BY <1>2, <1>3

LEMMA ReadsStatusTyped == ASSUME Typed, ReadsStatus PROVE Typed'
<1>1. seen' \in Verdicts
  BY StatusTyped DEF ReadsStatus, Sees, Typed, VerdictTyped, Verdicts
<1>2. VerdictTyped' /\ RestTyped'
  BY <1>1 DEF ReadsStatus, Typed, VerdictTyped, RestTyped
<1> QED
  BY <1>2, ReadTyped DEF ReadsStatus, Typed, SaidTyped, said, Steps, Verifier

LEMMA ReadsDiffTyped == ASSUME Typed, ReadsDiff PROVE Typed'
<1>1. seen' \in Verdicts
  BY ReadingTyped DEF ReadsDiff, Sees, Typed, VerdictTyped, Verdicts
<1>2. VerdictTyped' /\ RestTyped'
  BY <1>1 DEF ReadsDiff, Typed, VerdictTyped, RestTyped, WorkTyped
<1>3. pc' \in Steps
  BY DEF ReadsDiff, Steps, Verifier
<1> QED
  BY <1>2, <1>3, ReadTyped DEF ReadsDiff, Typed, SaidTyped, said

LEMMA RunsTyped ==
    ASSUME Typed, NEW k \in {"tests", "build", "lint"}, NEW next \in Verifier, Runs(k, next)
    PROVE  Typed'
<1> USE DEF Typed
<1>1. PICK r \in Outcomes(k) \cup {Check(0, FALSE), Check(1, FALSE)} :
        /\ Sees(k, r)
        /\ tested' = IF k = "tests" /\ r = Check(0, TRUE) THEN work ELSE tested
  BY DEF Runs
<1>2. r \in Checks
  <2>1. \A exit \in {0, 1}, detected \in BOOLEAN : Check(exit, detected) \in Checks
    BY DEF Check, Checks
  <2>2. r \in {Check(0, TRUE), Check(1, TRUE), Check(0, FALSE), Check(1, FALSE)}
    BY DEF Outcomes
  <2> QED
    BY <2>1, <2>2
<1>3. seen' \in Verdicts
  BY <1>1, <1>2 DEF Sees, VerdictTyped, Verdicts
<1>4. VerdictTyped'
  BY <1>1, <1>3 DEF Runs, VerdictTyped, WorkTyped
<1>5. WorkTyped' /\ RestTyped'
  BY LeavesTyped DEF Runs, WorkTyped, RestTyped, Steps
<1>6. SaidTyped'
  BY SaidKept DEF Runs
<1> QED
  BY <1>4, <1>5, <1>6

LEMMA ListsTyped == ASSUME Typed, Lists PROVE Typed'
<1>1. seen' \in Verdicts
  <2>1. CASE UNCHANGED seen
    BY <2>1 DEF Typed, VerdictTyped
  <2>2. ASSUME NEW l \in {Present, {}}, Sees("listed", l) PROVE seen' \in Verdicts
    BY <2>2 DEF Sees, Typed, VerdictTyped, Verdicts, Present
  <2> QED
    BY <2>1, <2>2 DEF Lists
<1>2. VerdictTyped' /\ RestTyped'
  BY <1>1 DEF Lists, Typed, VerdictTyped, RestTyped
<1> QED
  BY <1>2, ReadTyped DEF Lists, Typed, SaidTyped, said, Steps, Verifier

LEMMA AugmentsTyped == ASSUME Typed, Augments PROVE Typed'
<1> DEFINE found == IF HasDiff THEN seen.diff.diff ELSE Synthetic(seen.status.paths, seen.listed)
           detected == seen.tests.detected \/ seen.build.detected \/ seen.lint.detected
<1>1. PICK read \in {work, Missing} :
        /\ queue' = SmokeCommands(job.cues, plan, Augmented(plan, found, read))
        /\ seen' = [seen EXCEPT !.verified = Augmented(plan, found, read),
                                !.smoke.detected = queue' # <<>>,
                                !.smoke.exit = IF queue' # <<>> THEN 0
                                               ELSE NoSmokeExit(plan, Augmented(plan, found, read), detected)]
  BY DEF Augments
<1>2. found \in Diffs
  BY SyntheticTyped DEF Typed, VerdictTyped, Verdicts, Readings
<1>3. read \in Tree
  BY MissingTyped DEF Typed, WorkTyped
<1> DEFINE verified == Augmented(plan, found, read)
           exit == IF queue' # <<>> THEN 0 ELSE NoSmokeExit(plan, verified, detected)
           some == queue' # <<>>
<1>4. verified \in Diffs
  <2> HIDE DEF found
  <2> QED
    BY <1>2, <1>3, AugmentedTyped
<1>5. exit \in {0, 1} /\ some \in BOOLEAN
  BY NoSmokeTyped
<1>6. queue' \in Seq(SmokeKinds)
  BY <1>1, SmokeTyped
<1>7. seen' = [seen EXCEPT !.verified = verified, !.smoke.detected = some, !.smoke.exit = exit]
  BY <1>1
<1>8. seen' \in Verdicts
  <2> HIDE DEF verified, exit, some
  <2> QED
    BY <1>4, <1>5, <1>7 DEF Typed, VerdictTyped, Verdicts, Smokes
<1>9. VerdictTyped' /\ RestTyped'
  BY <1>6, <1>8 DEF Augments, Typed, VerdictTyped, RestTyped
<1> QED
  BY <1>9, ReadTyped DEF Augments, Typed, SaidTyped, said, Steps, Verifier

LEMMA SmokeRunsTyped == ASSUME Typed, SmokeRuns PROVE Typed'
<1> USE DEF Typed
<1>1. Tail(queue) \in Seq(SmokeKinds) /\ Head(queue) \in SmokeKinds /\ <<>> \in Seq(SmokeKinds)
  BY DEF SmokeRuns, VerdictTyped
<1>2. \A more \in {{}, {"output"}} :
        seen.smoke.ran \cup {Head(queue)} \cup more
          \cup When("test", Head(queue) = "declared" /\ "test_command" \in job.cues) \in SUBSET (SmokeKinds \cup {"output", "test"})
  BY <1>1 DEF When, VerdictTyped, Verdicts, Smokes
<1>3. seen' \in Verdicts /\ queue' \in Seq(SmokeKinds)
  <2>1. ASSUME NEW ran \in SUBSET (SmokeKinds \cup {"output", "test"}), Sees("smoke", [seen.smoke EXCEPT !.ran = ran])
        PROVE  seen' \in Verdicts
    BY <2>1 DEF Sees, VerdictTyped, Verdicts, Smokes
  <2>2. ASSUME Sees("smoke", [seen.smoke EXCEPT !.exit = 1]) PROVE seen' \in Verdicts
    BY <2>2 DEF Sees, VerdictTyped, Verdicts, Smokes
  <2> QED
    BY <1>1, <1>2, <2>1, <2>2 DEF SmokeRuns
<1>4. VerdictTyped'
  BY <1>3 DEF SmokeRuns, VerdictTyped
<1>5. WorkTyped' /\ RestTyped'
  BY LeavesTyped DEF SmokeRuns, WorkTyped, RestTyped
<1>6. SaidTyped'
  BY SaidKept DEF SmokeRuns
<1> QED
  BY <1>4, <1>5, <1>6

LEMMA JudgesTyped == ASSUME Typed, Judges PROVE Typed'
<1>1. seen' \in Verdicts
  BY DEF Judges, Sees, Typed, VerdictTyped, Verdicts
<1>2. VerdictTyped' /\ RestTyped'
  BY <1>1 DEF Judges, Typed, VerdictTyped, RestTyped
<1> QED
  BY <1>2, ReadTyped DEF Judges, Typed, SaidTyped, said, Steps

LEMMA ConcludesTyped == ASSUME Typed, SmokeEnds \/ Concludes PROVE Typed'
<1>1. pc' \in Steps /\ UNCHANGED <<job, tree, evidence, writing>>
  BY DEF SmokeEnds, Concludes, StopsAfterVerification, Rejects, Accepts, ReviewPasses, ReviewBlocks, Exports, TimesOut,
         Steps, Verifier, Settled, said
<1>2. VerdictTyped' /\ reason' \in BOOLEAN
  <2>1. Ready \/ UNCHANGED <<reason, verdict>>
    BY DEF SmokeEnds, Concludes, StopsAfterVerification, Rejects, Accepts, ReviewPasses, ReviewBlocks, Exports, TimesOut, said
  <2> QED
    BY <2>1, ReadyTyped, VerdictKept DEF Typed, SaidTyped
<1>3. RestTyped'
  BY DEF SmokeEnds, Concludes, StopsAfterVerification, Rejects, Accepts, ReviewPasses, ReviewBlocks, Exports, TimesOut,
         Typed, RestTyped, VerdictTyped, Verdicts
<1> QED
  BY <1>1, <1>2, <1>3, ReadTyped

LEMMA TypedStep == Typed /\ [CandidateNext]_vars => Typed'
<1> SUFFICES ASSUME Typed, [CandidateNext]_vars PROVE Typed'
  OBVIOUS
<1>1. CASE UNCHANGED vars
  BY <1>1 DEF vars, tree, said, verdict, Typed, WorkTyped, SaidTyped, VerdictTyped, RestTyped
<1>2. CASE AgentActs
  BY <1>2, WriteTyped, EditReadsTyped, PatchWritesTyped, AgentRunsTyped, ResearchesTyped, CommitsTyped, ProposesTyped DEF AgentActs
<1>3. CASE Gates
  BY <1>3, GatePreparesTyped, GateStatusTyped, GateDiffTyped, GateInspectsTyped DEF Gates
<1>4. CASE Verifies
  <2>1. {"build", "lint", "list"} \subseteq Verifier
    BY DEF Verifier
  <2>2. CASE RunsTests \/ RunsBuild \/ RunsLint
    BY <2>1, <2>2, RunsTyped DEF RunsTests, RunsBuild, RunsLint
  <2> QED
    BY <1>4, <2>2, PreparesTyped, ReadsStatusTyped, ReadsDiffTyped, ListsTyped, AugmentsTyped, SmokeRunsTyped,
       ConcludesTyped, JudgesTyped DEF Verifies
<1>5. CASE EditWrites \/ PatchRuns \/ PatchRemoves \/ Concludes \/ BackgroundWrites
  BY <1>5, EditWritesTyped, PatchRunsTyped, PatchRemovesTyped, ConcludesTyped, BackgroundTyped
<1> QED
  BY <1>1, <1>2, <1>3, <1>4, <1>5 DEF CandidateNext, Progress

LEMMA TypedImpliesTypeOK == Typed => CandidateTypeOK
<1> SUFFICES ASSUME Typed PROVE CandidateTypeOK
  OBVIOUS
<1> USE DEF Typed
<1>1. Range(queue) \subseteq SmokeKinds
  BY DEF VerdictTyped, Range
<1>2. count.edits <= MaxEdits /\ count.strays <= MaxStrays /\ count.candidates <= MaxCandidates
  BY DEF RestTyped
<1>3. /\ {gate.diff, seen.diff.diff, seen.verified, patch} \subseteq Diffs
      /\ {gate.status.paths, seen.status.paths} \subseteq SUBSET (Paths \cup {"message"})
      /\ {seen.tests, seen.build, seen.lint} \subseteq [exit : {0, 1}, detected : BOOLEAN]
  BY DEF VerdictTyped, RestTyped, GateReadings, Verdicts, Readings, Reports, Checks
<1> QED
  BY <1>1, <1>2, <1>3 DEF CandidateTypeOK, WorkTyped, SaidTyped, VerdictTyped

(* The types of CandidateTypeOK hold in every state.                        *)
THEOREM CandidateTypeCorrect == CandidateSpec => []CandidateTypeOK
<1>1. CandidateSpec => []Typed
  BY InitTyped, TypedStep, PTL DEF CandidateSpec
<1> QED
  BY <1>1, TypedImpliesTypeOK, PTL

--------------------------------------------------------------------------------
(* Calls that fail are not forgotten.                                       *)
LEMMA FaultsGrow == ASSUME [CandidateNext]_vars PROVE faults \subseteq faults'
<1>1. CASE UNCHANGED vars
  BY <1>1 DEF vars
<1>2. CASE AgentActs \/ EditWrites \/ PatchRuns \/ PatchRemoves
  BY <1>2 DEF AgentActs, WriteFile, EditReads, PatchWrites, AgentRuns, Researches, Commits, Proposes, EditWrites, PatchRuns, PatchRemoves,
     Edits, Returns, Succeeds, Faulty
<1>3. CASE Gates
  BY <1>3 DEF Gates, GatePrepares, GateStatus, GateDiff, GateInspects, Returns, Succeeds, Faulty
<1>4. CASE Verifies
  <2>1. CASE Prepares \/ ReadsStatus \/ ReadsDiff \/ RunsTests \/ RunsBuild \/ RunsLint
    BY <2>1 DEF Prepares, ReadsStatus, ReadsDiff, RunsTests, RunsBuild, RunsLint, Runs, Returns, Succeeds, Faulty
  <2>2. CASE Lists \/ Augments \/ SmokeRuns \/ SmokeEnds \/ Judges
    BY <2>2 DEF Lists, Augments, SmokeRuns, SmokeEnds, Judges, Returns, Succeeds, Faulty
  <2> QED
    BY <1>4, <2>1, <2>2 DEF Verifies
<1>5. CASE Concludes \/ BackgroundWrites
  BY <1>5 DEF Concludes, StopsAfterVerification, Rejects, Accepts, ReviewPasses, ReviewBlocks, Exports, TimesOut,
     BackgroundWrites
<1> QED
  BY <1>1, <1>2, <1>3, <1>4, <1>5 DEF CandidateNext, Progress

(* The file of apply_patch. While the tool runs it lies in the workspace;   *)
(* the agent's commits, the gate and the verifier come after it is gone.    *)

ScratchTree ==
    /\ head["leftover"] = {}
    /\ pc \notin {"patching", "removing"} => work["leftover"] = {}
    /\ pc = "editing" => writing.edit \in job.edits
ScratchSeen == "leftover" \notin seen.status.paths \cup seen.diff.diff.paths \cup seen.verified.paths \cup patch.paths
ScratchInv == "lost" \notin faults => ScratchTree /\ ScratchSeen

LEMMA ScratchInit == CandidateInit => ScratchInv
<1> SUFFICES ASSUME CandidateInit PROVE ScratchTree /\ ScratchSeen
  BY DEF ScratchInv
<1>1. ScratchTree
  BY DEF CandidateInit, ScratchTree
<1>2. NoDiff.paths = {}
  BY DEF NoDiff, Sections
<1>3. seen = Unseen /\ patch = NoDiff
  BY DEF CandidateInit
<1> QED
  BY <1>1, <1>2, <1>3 DEF ScratchSeen, Unseen, Report, Reading

(* Writing one of the job's edits, whether or not the call raises.          *)
LEMMA ScratchEdits ==
    ASSUME Typed, NEW e \in job.edits, NEW lines \in SUBSET Lines, Edits(Put(work, e.path, lines))
    PROVE  work'["leftover"] = work["leftover"]
<1>1. e.path \in Paths /\ "leftover" \in Paths \ {e.path}
  BY EditTyped DEF Typed
<1>2. Put(work, e.path, lines)["leftover"] = work["leftover"]
  BY <1>1, PutTyped DEF Typed, WorkTyped
<1>3. work' \in {work, Put(work, e.path, lines)}
  BY DEF Edits
<1> QED
  BY <1>2, <1>3

LEMMA ScratchTools ==
    ASSUME Typed, ScratchTree, "lost" \notin faults', AgentActs \/ EditWrites
    PROVE  ScratchTree'
<1>1. CASE WriteFile
  <2>1. PICK e \in job.edits : Edits(Put(work, e.path, {e.to}))
    BY <1>1 DEF WriteFile
  <2>2. {e.to} \in SUBSET Lines
    BY EditTyped DEF Typed
  <2> QED
    BY <1>1, <2>1, <2>2, ScratchEdits DEF WriteFile, Starts, ScratchTree
<1>2. CASE EditWrites
  <2>1. writing.edit \in job.edits /\ work["leftover"] = {} /\ pc' = "working" /\ UNCHANGED head
    BY <1>2 DEF EditWrites, ScratchTree
  <2>2. Replaced(writing.text, writing.edit) \in SUBSET Lines
    BY ReplacedTyped DEF Typed, SaidTyped
  <2>3. Edits(Put(work, writing.edit.path, Replaced(writing.text, writing.edit))) \/ UNCHANGED work
    BY <1>2 DEF EditWrites
  <2>4. work'["leftover"] = {}
    BY <2>1, <2>2, <2>3, ScratchEdits
  <2> QED
    BY <2>1, <2>4 DEF ScratchTree
<1>3. CASE EditReads
  <2>1. PICK e \in job.edits, gone \in {{}, {"old"}} : writing' = [edit |-> e, text |-> work[e.path] \ gone]
    BY <1>3 DEF EditReads
  <2> QED
    BY <1>3, <2>1 DEF EditReads, Starts, tree, ScratchTree
<1>4. CASE PatchWrites
  <2>1. pc' = "patching" /\ UNCHANGED head
    BY <1>4 DEF PatchWrites, Faulty
  <2> QED
    BY <2>1 DEF ScratchTree
<1>5. CASE AgentRuns
  <2>1. work'["leftover"] = work["leftover"]
    BY <1>5, LeavesTyped DEF AgentRuns, Typed
  <2> QED
    BY <1>5, <2>1 DEF AgentRuns, ScratchTree
<1>6. CASE Commits
  BY <1>6 DEF Commits, ScratchTree
<1>7. CASE Researches \/ Proposes
  BY <1>7 DEF Researches, Proposes, tree, ScratchTree
<1> QED
  BY <1>1, <1>2, <1>3, <1>4, <1>5, <1>6, <1>7 DEF AgentActs

(* If the patch applied, its file went with the same command; if anything   *)
(* was refused, the second command takes it.                                *)
LEMMA ScratchPatch ==
    ASSUME Typed, ScratchTree, "lost" \notin faults', PatchRuns \/ PatchRemoves
    PROVE  ScratchTree'
<1>1. CASE PatchRuns
  <2> DEFINE e == writing.edit
             applied == Put(work, e.path, Replaced(work[e.path], e))
             done == Put(applied, "leftover", {})
  <2>1. work' = done \/ pc' = "removing"
    BY <1>1 DEF PatchRuns, Faulty
  <2>2. applied \in Tree
    <3>1. e \in Edit /\ e.path \in Paths /\ work[e.path] \in SUBSET Lines
      BY DEF Typed, SaidTyped, WorkTyped, Edit, Tree
    <3> QED
      BY <3>1, ReplacedTyped, PutTyped DEF Typed, WorkTyped
  <2>3. done["leftover"] = {}
    <3> HIDE DEF applied
    <3> QED
      BY <2>2, PathsHere, PutTyped
  <2>4. pc' \in {"working", "removing"} /\ UNCHANGED head
    BY <1>1 DEF PatchRuns
  <2> HIDE DEF done
  <2> QED
    BY <2>1, <2>3, <2>4 DEF ScratchTree
<1>2. CASE PatchRemoves
  <2>1. work' = Put(work, "leftover", {}) /\ pc' = "working" /\ UNCHANGED head
    BY <1>2 DEF PatchRemoves, Faulty
  <2>2. work'["leftover"] = {}
    BY <2>1, PathsHere, PutTyped DEF Typed, WorkTyped
  <2> QED
    BY <2>1, <2>2 DEF ScratchTree
<1> QED
  BY <1>1, <1>2

LEMMA ScratchFiles == ASSUME Typed, ScratchTree, "lost" \notin faults', CandidateNext PROVE ScratchTree'
<1>1. CASE Gates
  BY <1>1 DEF Gates, GatePrepares, GateStatus, GateDiff, GateInspects, tree, ScratchTree
<1>2. CASE Verifies
  <2>1. CASE RunsTests \/ RunsBuild \/ RunsLint
    <3>1. work'["leftover"] = work["leftover"]
      BY <2>1, LeavesTyped DEF RunsTests, RunsBuild, RunsLint, Runs, Typed
    <3> QED
      BY <2>1, <3>1 DEF RunsTests, RunsBuild, RunsLint, Runs, ScratchTree
  <2>2. CASE SmokeRuns
    <3>1. work'["leftover"] = work["leftover"]
      BY <2>2, LeavesTyped DEF SmokeRuns, Typed
    <3> QED
      BY <2>2, <3>1 DEF SmokeRuns, ScratchTree
  <2>3. CASE Prepares \/ ReadsStatus \/ ReadsDiff \/ Lists \/ Augments \/ SmokeEnds \/ Judges
    BY <2>3 DEF Prepares, ReadsStatus, ReadsDiff, Lists, Augments, SmokeEnds, Judges, tree, ScratchTree
  <2> QED
    BY <1>2, <2>1, <2>2, <2>3 DEF Verifies
<1>3. CASE Concludes
  BY <1>3 DEF Concludes, StopsAfterVerification, Rejects, Accepts, ReviewPasses, ReviewBlocks, Exports, TimesOut,
     Verifier, tree, ScratchTree
<1>4. CASE BackgroundWrites
  <2>1. work["app"] \cup {"todo"} \in SUBSET Lines /\ "leftover" \in Paths \ {"app"}
    BY PathsHere DEF Typed, WorkTyped, Tree
  <2>2. work'["leftover"] = work["leftover"]
    BY <1>4, <2>1, PathsHere, PutTyped DEF BackgroundWrites, Typed, WorkTyped
  <2> QED
    BY <1>4, <2>2 DEF BackgroundWrites, ScratchTree
<1> QED
  BY <1>1, <1>2, <1>3, <1>4, ScratchTools, ScratchPatch DEF CandidateNext, Progress

(* A step that reads nothing, or forgets what was read.                     *)
LEMMA ScratchUnread == ASSUME ScratchSeen, UNCHANGED seen \/ Ready, UNCHANGED patch PROVE ScratchSeen'
<1>1. NoDiff.paths = {}
  BY DEF NoDiff, Sections
<1>2. CASE Ready
  <2>1. seen' = Unseen
    BY <1>2 DEF Ready
  <2> QED
    BY <1>1, <2>1 DEF ScratchSeen, Unseen, Report, Reading
<1> QED
  BY <1>2 DEF ScratchSeen

(* ... or that reads neither a status nor a diff.                           *)
LEMMA ScratchOther ==
    ASSUME ScratchSeen, seen'.status = seen.status, seen'.diff = seen.diff, seen'.verified = seen.verified,
           UNCHANGED patch
    PROVE  ScratchSeen'
BY DEF ScratchSeen

LEMMA NotChanged ==
    ASSUME head["leftover"] = {}, work["leftover"] = {}
    PROVE  "leftover" \notin Changed(head, work)
BY DEF Changed

LEMMA ScratchStatus == ASSUME Typed, ScratchTree, ScratchSeen, ReadsStatus PROVE ScratchSeen'
<1>1. PICK s \in {GoodStatus} \cup BadStatus : Sees("status", s)
  BY DEF ReadsStatus
<1>2. "leftover" \notin Changed(head, work)
  BY NotChanged DEF ReadsStatus, ScratchTree
<1>3. "leftover" \notin s.paths
  BY <1>2 DEF GoodStatus, BadStatus, Failure, Report
<1>4. seen'.status = s /\ seen'.diff = seen.diff /\ seen'.verified = seen.verified /\ UNCHANGED patch
  BY <1>1 DEF ReadsStatus, Sees, Typed, VerdictTyped, Verdicts
<1> QED
  BY <1>3, <1>4 DEF ScratchSeen

LEMMA ScratchDiff == ASSUME Typed, ScratchTree, ScratchSeen, ReadsDiff PROVE ScratchSeen'
<1>1. PICK d \in {GoodDiff} \cup BadDiff : Sees("diff", d)
  BY DEF ReadsDiff
<1>2. "leftover" \notin Changed(head, work)
  BY NotChanged DEF ReadsDiff, ScratchTree
<1>3. Unreadable.diff.paths = {}
  BY DEF Unreadable, Reading, NoDiff, Sections
<1>4. \A ps, cut : Reading(0, Sections(ps, head, work), cut).diff.paths = ps
  BY DEF Reading, Sections
<1>5. \/ d = Unreadable
      \/ \E ps \in SUBSET Changed(head, work), cut \in BOOLEAN : d = Reading(0, Sections(ps, head, work), cut)
  <2>1. Changed(head, work) \cap known \in SUBSET Changed(head, work)
    OBVIOUS
  <2> QED
    BY <1>1, <2>1, Zenon DEF GoodDiff, BadDiff
<1>6. "leftover" \notin d.diff.paths
  BY <1>2, <1>3, <1>4, <1>5
<1>7. seen'.diff = d /\ seen'.status = seen.status /\ seen'.verified = seen.verified /\ UNCHANGED patch
  BY <1>1 DEF ReadsDiff, Sees, Typed, VerdictTyped, Verdicts
<1> QED
  BY <1>6, <1>7 DEF ScratchSeen

LEMMA ScratchAugments == ASSUME Typed, ScratchSeen, Augments PROVE ScratchSeen'
<1> DEFINE found == IF HasDiff THEN seen.diff.diff ELSE Synthetic(seen.status.paths, seen.listed)
<1>1. PICK read \in {work, Missing} :
        \E out : seen' = [seen EXCEPT !.verified = Augmented(plan, found, read),
                                      !.smoke.detected = queue' # <<>>, !.smoke.exit = out]
  BY DEF Augments
<1>2. /\ seen'.status = seen.status /\ seen'.diff = seen.diff
      /\ seen'.verified = Augmented(plan, found, read)
  BY <1>1 DEF Typed, VerdictTyped, Verdicts
<1>3. "leftover" \notin found.paths
  <2>1. Synthetic(seen.status.paths, seen.listed).paths \subseteq seen.status.paths
    BY NoDiffTyped DEF Synthetic, Diffs
  <2> QED
    BY <2>1 DEF ScratchSeen
<1>4. found \in Diffs
  BY SyntheticTyped DEF Typed, VerdictTyped, Verdicts, Readings
<1>5. "leftover" \notin Appended(plan, found, read)
  BY DEF Appended, When, Python
<1>6. Augmented(plan, found, read).paths = found.paths \cup Appended(plan, found, read)
  <2> HIDE DEF found
  <2> QED
    BY <1>4 DEF Augmented, Diffs
<1>7. UNCHANGED patch
  BY DEF Augments
<1> HIDE DEF found
<1> QED
  BY <1>2, <1>3, <1>5, <1>6, <1>7 DEF ScratchSeen

LEMMA ScratchReadings == ASSUME Typed, ScratchTree, ScratchSeen, CandidateNext PROVE ScratchSeen'
<1>1. CASE AgentActs \/ EditWrites \/ PatchRuns \/ PatchRemoves
  BY <1>1, ScratchUnread DEF AgentActs, WriteFile, EditReads, PatchWrites, AgentRuns, Researches, Commits, Proposes,
     EditWrites, PatchRuns, PatchRemoves, verdict
<1>2. CASE Gates
  BY <1>2, ScratchUnread DEF Gates, GatePrepares, GateStatus, GateDiff, GateInspects, verdict
<1>3. CASE Verifies
  <2>1. CASE Prepares \/ SmokeEnds
    BY <2>1, ScratchUnread DEF Prepares, SmokeEnds, verdict
  <2>2. CASE RunsTests \/ RunsBuild \/ RunsLint \/ Lists \/ SmokeRuns \/ Judges
    <3>1. seen'.status = seen.status /\ seen'.diff = seen.diff /\ seen'.verified = seen.verified
      <4>1. CASE RunsTests \/ RunsBuild \/ RunsLint
        BY <4>1 DEF RunsTests, RunsBuild, RunsLint, Runs, Sees, Typed, VerdictTyped, Verdicts
      <4>2. CASE Lists \/ SmokeRuns \/ Judges
        BY <4>2 DEF Lists, SmokeRuns, Judges, Sees, Typed, VerdictTyped, Verdicts
      <4> QED
        BY <2>2, <4>1, <4>2
    <3>2. UNCHANGED patch
      BY <2>2 DEF RunsTests, RunsBuild, RunsLint, Runs, Lists, SmokeRuns, Judges
    <3> QED
      BY <3>1, <3>2, ScratchOther
  <2> QED
    BY <1>3, <2>1, <2>2, ScratchStatus, ScratchDiff, ScratchAugments DEF Verifies
<1>4. CASE Concludes
  <2>1. CASE Exports
    BY <2>1 DEF Exports, verdict, ScratchSeen
  <2>2. CASE StopsAfterVerification \/ Rejects \/ Accepts \/ ReviewPasses \/ ReviewBlocks \/ TimesOut
    BY <2>2, ScratchUnread DEF StopsAfterVerification, Rejects, Accepts, ReviewPasses, ReviewBlocks, TimesOut, verdict
  <2> QED
    BY <1>4, <2>1, <2>2 DEF Concludes
<1>5. CASE BackgroundWrites
  BY <1>5, ScratchUnread DEF BackgroundWrites, verdict
<1> QED
  BY <1>1, <1>2, <1>3, <1>4, <1>5 DEF CandidateNext, Progress

LEMMA ScratchStep == Typed /\ ScratchInv /\ [CandidateNext]_vars => ScratchInv'
<1> SUFFICES ASSUME Typed, ScratchInv, [CandidateNext]_vars, "lost" \notin faults' PROVE ScratchTree' /\ ScratchSeen'
  BY DEF ScratchInv
<1>1. ScratchTree /\ ScratchSeen
  BY FaultsGrow DEF ScratchInv
<1>2. CASE UNCHANGED vars
  BY <1>1, <1>2 DEF vars, tree, verdict, ScratchTree, ScratchSeen
<1> QED
  BY <1>1, <1>2, ScratchFiles, ScratchReadings

(* Refused, applied or applied where git diff fails: the file of apply_patch *)
(* gets neither into a commit of the agent's nor into the patch that ships.  *)
THEOREM ScratchStaysHome == CandidateSpec => []ScratchNeverShips
<1>1. ScratchInv => ScratchNeverShips
  BY DEF ScratchInv, ScratchTree, ScratchSeen, ScratchNeverShips
<1> QED
  BY <1>1, InitTyped, TypedStep, ScratchInit, ScratchStep, PTL DEF CandidateSpec

--------------------------------------------------------------------------------
(* Tests. Between the diff and the tests nothing writes but a process of    *)
(* the background; from the tests on, their verdict is about the diff.      *)

AfterTests == {"build", "lint", "list", "augment", "smoke", "judge", "decided", "review", "export", "succeeded"}
Accepted == {"review", "export", "succeeded"}
Counts == "tests" \in job.suite /\ "artifact" \notin job.cues /\ NoBackground /\ "probe" \notin faults

TestedHere ==
    /\ pc = "tests" => work = diffed
    /\ pc \in AfterTests /\ "docs" \notin job.cues /\ seen.tests.exit = 0 => tested = diffed
    /\ pc \in Accepted => seen.tests.exit = 0 /\ ("docs" \in job.cues => seen.verified.paths \cap CodeLike = {})
    /\ Shipped => patch = seen.verified

TestedInv == Counts => TestedHere

LEMMA PlanOf == plan.docs = ("docs" \in job.cues) /\ plan.artifact = ("artifact" \in job.cues)
BY DEF plan, Plan

LEMMA TestedInit == CandidateInit => TestedInv
BY DEF CandidateInit, TestedInv, TestedHere, AfterTests, Accepted, Shipped

(* A step to a place before the tests.                                      *)
LEMMA TestedBefore ==
    ASSUME pc' \in Agent \cup Gate \cup {"prepare", "status", "diff", "failed"}
    PROVE  TestedInv'
BY DEF TestedInv, TestedHere, AfterTests, Accepted, Shipped, Agent, Gate

(* A step after the tests that does not touch what they said.               *)
LEMMA TestedAfter ==
    ASSUME TestedInv, pc \in AfterTests \ Accepted, pc' \in AfterTests \ Accepted, faults \subseteq faults',
           seen'.tests = seen.tests, UNCHANGED <<job, diffed, tested>>
    PROVE  TestedInv'
BY DEF TestedInv, TestedHere, Counts, NoBackground, AfterTests, Accepted, Shipped

LEMMA TestedAgent == ASSUME AgentActs \/ EditWrites \/ PatchRuns \/ PatchRemoves PROVE TestedInv'
<1>1. pc' \in Agent \cup Gate
  BY DEF AgentActs, WriteFile, EditReads, PatchWrites, AgentRuns, Researches, Commits, Proposes, EditWrites, PatchRuns, PatchRemoves,
         Starts, Agent, Gate
<1> QED
  BY <1>1, TestedBefore

LEMMA TestedReadsDiff == ASSUME Typed, ReadsDiff PROVE TestedInv'
<1>1. UNCHANGED <<job, work>> /\ diffed' = work /\ pc' = IF Unchecked(plan) THEN "list" ELSE "tests"
  BY DEF ReadsDiff, tree
<1>2. Unchecked(plan) = ("docs" \in job.cues \/ "artifact" \in job.cues)
  BY PlanOf DEF Unchecked
<1> QED
  BY <1>1, <1>2 DEF TestedInv, TestedHere, Counts, AfterTests, Accepted, Shipped

LEMMA TestedRunsTests == ASSUME Typed, TestedInv, RunsTests PROVE TestedInv'
<1>1. PICK r \in Outcomes("tests") \cup {Check(0, FALSE), Check(1, FALSE)} :
        /\ \/ r \in Outcomes("tests") /\ Succeeds
           \/ r = Check(0, FALSE) /\ "tests" \in job.suite /\ Faulty("probe")
           \/ r = Check(1, FALSE) /\ Faulty("run")
        /\ Sees("tests", r)
        /\ tested' = IF r = Check(0, TRUE) THEN work ELSE tested
  BY DEF RunsTests, Runs
<1>2. pc = "tests" /\ pc' = "build" /\ UNCHANGED <<job, diffed>>
  BY DEF RunsTests, Runs
<1>3. SUFFICES ASSUME Counts' PROVE seen'.tests.exit = 0 => tested' = diffed'
  BY <1>2 DEF TestedInv, TestedHere, AfterTests, Accepted, Shipped
<1>4. faults \subseteq faults' /\ ~Faulty("probe")
  BY <1>1, <1>3 DEF Succeeds, Faulty, Counts
<1>5. work = diffed
  BY <1>2, <1>3, <1>4 DEF TestedInv, TestedHere, Counts, NoBackground
<1>6. r \in {Check(0, TRUE), Check(1, TRUE), Check(1, FALSE)}
  BY <1>1, <1>2, <1>3, <1>4 DEF Outcomes, Counts
<1>7. seen'.tests = r
  BY <1>1 DEF Sees, Typed, VerdictTyped, Verdicts
<1>8. seen'.tests.exit = 0 => r = Check(0, TRUE)
  BY <1>6, <1>7 DEF Check
<1> QED
  BY <1>1, <1>2, <1>5, <1>8

LEMMA TestedRuns ==
    ASSUME Typed, TestedInv, NEW k \in {"build", "lint"}, NEW next \in {"lint", "list"}, Runs(k, next)
    PROVE  TestedInv'
<1>1. seen'.tests = seen.tests /\ UNCHANGED tested
  BY DEF Runs, Sees, Typed, VerdictTyped, Verdicts
<1>2. faults \subseteq faults' /\ UNCHANGED <<job, diffed>> /\ pc = k /\ pc' = next
  BY DEF Runs, Succeeds, Faulty
<1> QED
  BY <1>1, <1>2, TestedAfter DEF AfterTests, Accepted

LEMMA TestedVerifies == ASSUME Typed, TestedInv, Verifies PROVE TestedInv'
<1>1. CASE Prepares \/ ReadsStatus
  BY <1>1, TestedBefore DEF Prepares, ReadsStatus
<1>2. CASE RunsBuild \/ RunsLint
  BY <1>2, TestedRuns DEF RunsBuild, RunsLint
<1>3. CASE Lists
  <2>1. seen'.tests = seen.tests /\ faults \subseteq faults' /\ UNCHANGED <<job, diffed, tested>>
    BY <1>3 DEF Lists, Sees, Returns, Typed, VerdictTyped, Verdicts
  <2> QED
    BY <1>3, <2>1, TestedAfter DEF Lists, AfterTests, Accepted
<1>4. CASE Augments
  <2>1. seen'.tests = seen.tests /\ faults \subseteq faults' /\ UNCHANGED <<job, diffed, tested>>
    BY <1>4 DEF Augments, Returns, Typed, VerdictTyped, Verdicts
  <2> QED
    BY <1>4, <2>1, TestedAfter DEF Augments, AfterTests, Accepted
<1>5. CASE SmokeRuns
  <2>1. seen'.tests = seen.tests /\ faults \subseteq faults' /\ UNCHANGED <<pc, job, diffed, tested>>
    BY <1>5 DEF SmokeRuns, Sees, Succeeds, Faulty, Typed, VerdictTyped, Verdicts
  <2> QED
    BY <1>5, <2>1, TestedAfter DEF SmokeRuns, AfterTests, Accepted
<1>6. CASE SmokeEnds \/ Judges
  <2>1. seen'.tests = seen.tests /\ UNCHANGED <<job, diffed, tested, faults>>
    BY <1>6 DEF SmokeEnds, Judges, Sees, verdict, Typed, VerdictTyped, Verdicts
  <2> QED
    BY <1>6, <2>1, TestedAfter DEF SmokeEnds, Judges, AfterTests, Accepted
<1> QED
  BY <1>1, <1>2, <1>3, <1>4, <1>5, <1>6, TestedReadsDiff, TestedRunsTests DEF Verifies

LEMMA TestedConcludes == ASSUME Typed, TestedInv, Concludes PROVE TestedInv'
<1>1. CASE StopsAfterVerification \/ Rejects \/ ReviewBlocks \/ TimesOut
  BY <1>1, TestedBefore DEF StopsAfterVerification, Rejects, ReviewBlocks, TimesOut, Agent
<1>2. CASE Accepts
  <2>1. UNCHANGED <<job, verdict, patch, faults>> /\ pc = "decided" /\ pc' \in {"review", "export"}
    BY <1>2 DEF Accepts
  <2>2. seen.tests.exit = 0 /\ (plan.docs => seen.verified.paths \cap CodeLike = {})
    BY <1>2 DEF Accepts, Passes, CommandsPass, Fixes, PlanFixes, When
  <2> QED
    BY <2>1, <2>2, PlanOf DEF TestedInv, TestedHere, Counts, NoBackground, AfterTests, Accepted, Shipped, verdict
<1>3. CASE ReviewPasses \/ Exports
  BY <1>3 DEF ReviewPasses, Exports, TestedInv, TestedHere, Counts, NoBackground, AfterTests, Accepted, Shipped, verdict
<1> QED
  BY <1>1, <1>2, <1>3 DEF Concludes

LEMMA TestedStep == Typed /\ TestedInv /\ [CandidateNext]_vars => TestedInv'
<1> SUFFICES ASSUME Typed, TestedInv, [CandidateNext]_vars PROVE TestedInv'
  OBVIOUS
<1>1. CASE UNCHANGED vars
  BY <1>1 DEF vars, tree, verdict, TestedInv, TestedHere, Counts, NoBackground, Shipped
<1>2. CASE Gates
  BY <1>2, TestedBefore DEF Gates, GatePrepares, GateStatus, GateDiff, GateInspects, Gate, Agent
<1>3. CASE BackgroundWrites
  BY <1>3 DEF BackgroundWrites, TestedInv, Counts, NoBackground
<1> QED
  BY <1>1, <1>2, <1>3, TestedAgent, TestedVerifies, TestedConcludes DEF CandidateNext, Progress

(* Code that ships is code that the project's own tests passed with.        *)
THEOREM CodeShipsTested == CandidateSpec => []CodeIsTested
<1>1. TestedInv => CodeIsTested
  BY DEF TestedInv, TestedHere, Counts, CodeIsTested, Shipped, AfterTests, Accepted
<1> QED
  BY <1>1, InitTyped, TypedStep, TestedInit, TestedStep, PTL DEF CandidateSpec

--------------------------------------------------------------------------------
(* The index: what the last commit holds is in it, a repository of the      *)
(* job's own is there from the start, and without one nothing is committed. *)

Indexed ==
    /\ job.repo => git
    /\ git \/ head = Missing
    /\ \A p \in Paths : head[p] # {} => p \in known

(* When nothing fails, the gate reads one tree and judges it, the verifier  *)
(* reads its diff from the same tree, and nothing writes in between.        *)
AfterDiff == {"tests"} \cup AfterTests

BlockersOf(tr) ==
    GateBlockers(job.cues, job.must, Changed(head, tr), Sections(Changed(head, tr), head, tr), tr)

GateHere ==
    /\ pc \in {"gate_status", "gate_diff", "inspect"} => Present \subseteq known
    /\ pc \in {"gate_diff", "inspect"} => gate.status.paths = Changed(head, work)
    /\ pc = "inspect" => gate.diff = Sections(Changed(head, work), head, work)
    /\ pc \in {"prepare", "status", "diff"} => BlockersOf(work) = {}
    /\ pc \in AfterDiff => BlockersOf(diffed) = {}

Guarded == job.repo /\ NoBackground /\ "gate" \notin faults

GateInv == Guarded => GateHere

(* What the verifier read, and what becomes of it. A diff that was not read *)
(* whole has no sections or is cut; a listing has all files that the        *)
(* verifier saw with the diff, for since then files were only added.        *)
AfterAugment == {"smoke", "judge", "decided"} \cup Accepted
AfterList == {"augment"} \cup AfterAugment
BeforeList == {"tests", "build", "lint", "list"}

Filled(tr) == {p \in Paths : tr[p] # {}}
Found == IF HasDiff THEN seen.diff.diff ELSE Synthetic(seen.status.paths, seen.listed)

StatusRead(tr) == git /\ "status" \notin faults => seen.status = Report(0, Changed(head, tr), FALSE)
DiffRead ==
    \/ git /\ seen.diff = Reading(0, Sections(Changed(head, diffed) \cap known, head, diffed), FALSE)
    \/ (git => "diff" \in faults) /\ (seen.diff.cut \/ seen.diff.diff.paths = {})
ListRead == seen.listed = {} \/ (~job.repo /\ seen.status.paths # {} /\ Filled(diffed) \subseteq seen.listed)
Verified == Found.paths \subseteq seen.verified.paths
              /\ (Found.git => seen.verified.git \/ plan.crawler \/ plan.contains)

PatchHere ==
    /\ pc \in {"status", "diff"} /\ "prepare" \notin faults => git /\ Present \subseteq known
    /\ pc \in AfterDiff /\ "prepare" \notin faults => git /\ Filled(diffed) \subseteq known
    /\ pc = "diff" => StatusRead(work)
    /\ pc \in AfterDiff => StatusRead(diffed) /\ DiffRead
    /\ pc \in BeforeList => Filled(diffed) \subseteq Present
    /\ pc \in AfterList => ListRead
    /\ pc \in AfterAugment => Verified
    /\ pc \in Accepted => ~seen.diff.cut /\ ChangeSeen

(* Nothing is listed before the verifier lists.                             *)
Listing == seen.listed # {} => pc \in AfterList \cup {"failed"}

PatchInv ==
    /\ Listing
    /\ Shipped => patch = seen.verified
    /\ NoBackground => PatchHere

LEMMA IndexedInit == CandidateInit => Indexed
BY Zenon DEF CandidateInit, Indexed

LEMMA IndexedKept == ASSUME Indexed, UNCHANGED <<job, head, git, known>> PROVE Indexed'
BY DEF Indexed

LEMMA IndexedStep == Typed /\ Indexed /\ [CandidateNext]_vars => Indexed'
<1> SUFFICES ASSUME Typed, Indexed, [CandidateNext]_vars PROVE Indexed'
  OBVIOUS
<1>1. CASE UNCHANGED vars
  BY <1>1, IndexedKept DEF vars, tree
<1>2. CASE AgentActs \/ EditWrites \/ PatchRuns \/ PatchRemoves
  <2>1. CASE Commits
    BY <2>1 DEF Commits, Indexed, Present
  <2>2. CASE WriteFile \/ EditReads \/ PatchWrites \/ AgentRuns \/ Researches \/ Proposes \/ EditWrites \/ PatchRuns \/ PatchRemoves
    BY <2>2, IndexedKept DEF WriteFile, EditReads, PatchWrites, AgentRuns, Researches, Proposes, EditWrites, PatchRuns, PatchRemoves, tree
  <2> QED
    BY <1>2, <2>1, <2>2 DEF AgentActs
<1>3. CASE Gates
  BY <1>3 DEF Gates, GatePrepares, GateStatus, GateDiff, GateInspects, tree, Indexed
<1>4. CASE Verifies
  <2>1. CASE Prepares
    BY <2>1 DEF Prepares, Indexed
  <2>2. CASE ReadsStatus \/ ReadsDiff \/ RunsTests \/ RunsBuild \/ RunsLint
    BY <2>2, IndexedKept DEF ReadsStatus, ReadsDiff, RunsTests, RunsBuild, RunsLint, Runs, tree
  <2>3. CASE Lists \/ Augments \/ SmokeRuns \/ SmokeEnds \/ Judges
    BY <2>3, IndexedKept DEF Lists, Augments, SmokeRuns, SmokeEnds, Judges, tree
  <2> QED
    BY <1>4, <2>1, <2>2, <2>3 DEF Verifies
<1>5. CASE Concludes \/ BackgroundWrites
  BY <1>5, IndexedKept DEF Concludes, StopsAfterVerification, Rejects, Accepts, ReviewPasses, ReviewBlocks, Exports, TimesOut,
     BackgroundWrites, tree
<1> QED
  BY <1>1, <1>2, <1>3, <1>4, <1>5 DEF CandidateNext, Progress

(* git diff shows every change once the files are in the index: also those  *)
(* that are gone, which the last commit holds.                              *)
LEMMA AllShown ==
    ASSUME Typed, Indexed, Present \subseteq known
    PROVE  Changed(head, work) \cap known = Changed(head, work)
<1>1. \A p \in Paths : work[p] # head[p] => p \in known
  BY DEF Indexed, Present
<1> QED
  BY <1>1 DEF Changed, Meaningful

LEMMA GoodReadings ==
    ASSUME Typed, Indexed, git
    PROVE  /\ GoodStatus = Report(0, Changed(head, work), FALSE)
           /\ Present \subseteq known => GoodDiff = Reading(0, Sections(Changed(head, work), head, work), FALSE)
BY AllShown DEF GoodStatus, GoodDiff

--------------------------------------------------------------------------------
(* The gate.                                                                *)

LEMMA GateInit == CandidateInit => GateInv
BY DEF CandidateInit, GateInv, GateHere, AfterDiff, AfterTests

(* A step to a place before the gate has read anything.                     *)
LEMMA GateBefore == ASSUME pc' \in Agent \cup {"gate", "failed"} PROVE GateInv'
BY DEF GateInv, GateHere, AfterDiff, AfterTests, Agent

(* A step of the verifier before it has its diff.                           *)
LEMMA GateKept ==
    ASSUME GateInv, pc \in {"prepare", "status"}, pc' \in {"status", "diff"}, faults \subseteq faults',
           UNCHANGED <<job, head, work>>
    PROVE  GateInv'
BY DEF GateInv, GateHere, Guarded, NoBackground, AfterDiff, AfterTests, BlockersOf

(* A step after it.                                                         *)
LEMMA GateAfter ==
    ASSUME GateInv, pc \in AfterDiff, pc' \in AfterDiff, faults \subseteq faults', UNCHANGED <<job, head, diffed>>
    PROVE  GateInv'
<1>1. pc' \notin {"gate_status", "gate_diff", "inspect", "prepare", "status", "diff"}
  BY DEF AfterDiff, AfterTests
<1>2. UNCHANGED BlockersOf(diffed)
  BY DEF BlockersOf
<1> QED
  BY <1>1, <1>2 DEF GateInv, GateHere, Guarded, NoBackground

LEMMA GatePreparesKeeps == ASSUME Typed, Indexed, GateInv, GatePrepares PROVE GateInv'
<1>1. pc' = "gate_status" /\ UNCHANGED <<job, work, git>>
  BY DEF GatePrepares
<1>2. SUFFICES ASSUME Guarded' PROVE Present' \subseteq known'
  BY <1>1 DEF GateInv, GateHere, AfterDiff, AfterTests
<1>3. known' = known \cup (IF git THEN Present ELSE {})
  BY <1>2 DEF GatePrepares, Guarded, Faulty
<1>4. git
  BY <1>1, <1>2 DEF Guarded, Indexed
<1> QED
  BY <1>1, <1>3, <1>4 DEF Present

LEMMA GateStatusKeeps == ASSUME Typed, Indexed, GateInv, GateStatus PROVE GateInv'
<1>1. pc = "gate_status" /\ pc' = "gate_diff" /\ UNCHANGED <<job, head, work, git, known>>
  BY DEF GateStatus, tree
<1>2. SUFFICES ASSUME Guarded' PROVE Present' \subseteq known' /\ gate'.status.paths = Changed(head', work')
  BY <1>1 DEF GateInv, GateHere, AfterDiff, AfterTests
<1>3. PICK s \in {GoodStatus} \cup BadStatus :
        Returns("gate", s, GoodStatus, BadStatus) /\ gate' = [gate EXCEPT !.status = s]
  BY DEF GateStatus
<1>4. s = GoodStatus /\ UNCHANGED faults
  BY <1>2, <1>3 DEF Returns, Guarded
<1>5. git
  BY <1>1, <1>2 DEF Guarded, Indexed
<1>6. Present' \subseteq known'
  BY <1>1, <1>2, <1>4 DEF GateInv, GateHere, Guarded, NoBackground, Present
<1>7. s.paths = Changed(head, work)
  BY <1>4, <1>5, GoodReadings DEF Report
<1>8. gate'.status = s
  BY <1>3 DEF Typed, VerdictTyped, GateReadings
<1> QED
  BY <1>1, <1>6, <1>7, <1>8

LEMMA GateDiffKeeps == ASSUME Typed, Indexed, GateInv, GateDiff PROVE GateInv'
<1>1. pc = "gate_diff" /\ pc' = "inspect" /\ UNCHANGED <<job, head, work, git, known>>
  BY DEF GateDiff, tree
<1>2. SUFFICES ASSUME Guarded'
               PROVE  /\ Present' \subseteq known' /\ gate'.status.paths = Changed(head', work')
                      /\ gate'.diff = Sections(Changed(head', work'), head', work')
  BY <1>1 DEF GateInv, GateHere, AfterDiff, AfterTests
<1>3. PICK d \in {GoodDiff} \cup BadDiff :
        Returns("gate", d, GoodDiff, BadDiff) /\ gate' = [gate EXCEPT !.diff = d.diff]
  BY DEF GateDiff
<1>4. d = GoodDiff /\ UNCHANGED faults
  BY <1>2, <1>3 DEF Returns, Guarded
<1>5. git
  BY <1>1, <1>2 DEF Guarded, Indexed
<1>6. Present \subseteq known /\ gate.status.paths = Changed(head, work)
  BY <1>1, <1>2, <1>4 DEF GateInv, GateHere, Guarded, NoBackground
<1>7. d.diff = Sections(Changed(head, work), head, work)
  BY <1>4, <1>5, <1>6, GoodReadings DEF Reading
<1>8. gate'.diff = d.diff /\ gate'.status = gate.status
  BY <1>3 DEF Typed, VerdictTyped, GateReadings
<1> QED
  BY <1>1, <1>6, <1>7, <1>8 DEF Present

LEMMA GateInspectsKeeps == ASSUME Typed, GateInv, GateInspects PROVE GateInv'
<1>1. PICK read \in {work, Missing} :
        /\ Returns("gate", read, work, {Missing})
        /\ IF GateBlockers(job.cues, job.must, gate.status.paths, gate.diff, read) = {}
           THEN pc' = "prepare" /\ UNCHANGED <<reason, verdict>>
           ELSE pc' = "working" /\ Ready
  BY DEF GateInspects
<1>2. pc = "inspect" /\ UNCHANGED <<job, head, work>>
  BY DEF GateInspects, tree
<1>3. CASE pc' = "working"
  BY <1>3, GateBefore DEF Agent
<1>4. CASE pc' = "prepare" /\ GateBlockers(job.cues, job.must, gate.status.paths, gate.diff, read) = {}
  <2>1. SUFFICES ASSUME Guarded' PROVE BlockersOf(work)' = {}
    BY <1>4 DEF GateInv, GateHere, AfterDiff, AfterTests
  <2>2. read = work /\ UNCHANGED faults
    BY <1>1, <2>1 DEF Returns, Guarded
  <2>3. gate.status.paths = Changed(head, work) /\ gate.diff = Sections(Changed(head, work), head, work)
    BY <1>2, <2>1, <2>2 DEF GateInv, GateHere, Guarded, NoBackground
  <2>4. BlockersOf(work) = {}
    BY <1>4, <2>2, <2>3 DEF BlockersOf
  <2> QED
    BY <1>2, <2>4 DEF BlockersOf
<1> QED
  BY <1>1, <1>3, <1>4

LEMMA GateReadsDiff == ASSUME Typed, GateInv, ReadsDiff PROVE GateInv'
<1>1. pc = "diff" /\ pc' \in {"list", "tests"} /\ diffed' = work /\ UNCHANGED <<job, head>>
  BY DEF ReadsDiff, tree
<1>2. faults \subseteq faults'
  BY DEF ReadsDiff, Returns
<1>3. SUFFICES ASSUME Guarded' PROVE BlockersOf(diffed)' = {}
  BY <1>1 DEF GateInv, GateHere, AfterDiff, AfterTests
<1>4. BlockersOf(work) = {}
  BY <1>1, <1>2, <1>3 DEF GateInv, GateHere, Guarded, NoBackground
<1> QED
  BY <1>1, <1>4 DEF BlockersOf

LEMMA GateStep == Typed /\ Indexed /\ GateInv /\ [CandidateNext]_vars => GateInv'
<1> SUFFICES ASSUME Typed, Indexed, GateInv, [CandidateNext]_vars PROVE GateInv'
  OBVIOUS
<1>0. faults \subseteq faults'
  BY FaultsGrow
<1>1. CASE UNCHANGED vars
  BY <1>1 DEF vars, tree, verdict, GateInv, GateHere, Guarded, NoBackground, Present, BlockersOf
<1>2. CASE AgentActs \/ EditWrites \/ PatchRuns \/ PatchRemoves
  <2>1. pc' \in Agent \cup {"gate"}
    BY <1>2 DEF AgentActs, WriteFile, EditReads, PatchWrites, AgentRuns, Researches, Commits, Proposes, EditWrites, PatchRuns, PatchRemoves,
       Starts, Agent
  <2> QED
    BY <2>1, GateBefore
<1>3. CASE Prepares \/ ReadsStatus
  BY <1>0, <1>3, GateKept DEF Prepares, ReadsStatus, tree
<1>4. CASE RunsTests \/ RunsBuild \/ RunsLint \/ Lists \/ Augments \/ SmokeRuns \/ SmokeEnds \/ Judges
  <2>1. pc \in AfterDiff /\ pc' \in AfterDiff
    BY <1>4 DEF RunsTests, RunsBuild, RunsLint, Runs, Lists, Augments, SmokeRuns, SmokeEnds, Judges, AfterDiff, AfterTests
  <2>2. UNCHANGED <<job, head, diffed>>
    BY <1>4 DEF RunsTests, RunsBuild, RunsLint, Runs, Lists, Augments, SmokeRuns, SmokeEnds, Judges, tree, verdict
  <2> QED
    BY <1>0, <2>1, <2>2, GateAfter
<1>5. CASE Accepts \/ ReviewPasses \/ Exports
  <2>1. pc \in AfterDiff /\ pc' \in AfterDiff /\ UNCHANGED <<job, head, diffed>>
    BY <1>5 DEF Accepts, ReviewPasses, Exports, AfterDiff, AfterTests, tree, verdict
  <2> QED
    BY <1>0, <2>1, GateAfter
<1>6. CASE StopsAfterVerification \/ Rejects \/ ReviewBlocks \/ TimesOut
  BY <1>6, GateBefore DEF StopsAfterVerification, Rejects, ReviewBlocks, TimesOut, Agent
<1>7. CASE BackgroundWrites
  BY <1>7 DEF BackgroundWrites, GateInv, Guarded, NoBackground
<1> QED
  BY <1>1, <1>2, <1>3, <1>4, <1>5, <1>6, <1>7, GatePreparesKeeps, GateStatusKeeps, GateDiffKeeps, GateInspectsKeeps,
     GateReadsDiff DEF CandidateNext, Progress, Gates, Verifies, Concludes

(* What ships has none of the blockers of the gate, although the verifier   *)
(* reads its diff after the gate has read its own, and may add to the index *)
(* or make the repository in between.                                       *)
THEOREM ShipsPastGate == CandidateSpec => []ShippedPassesGate
<1>1. GateInv => ShippedPassesGate
  BY DEF GateInv, GateHere, Guarded, BlockersOf, ShippedPassesGate, Shipped, AfterDiff, AfterTests
<1> QED
  BY <1>1, InitTyped, TypedStep, IndexedInit, IndexedStep, GateInit, GateStep, PTL DEF CandidateSpec

--------------------------------------------------------------------------------
(* The patch.                                                               *)

LEMMA Phases ==
    /\ AfterDiff = {"tests", "build", "lint", "list", "augment", "smoke", "judge", "decided", "review", "export", "succeeded"}
    /\ AfterList = {"augment", "smoke", "judge", "decided", "review", "export", "succeeded"}
    /\ AfterAugment = {"smoke", "judge", "decided", "review", "export", "succeeded"}
    /\ BeforeList = {"tests", "build", "lint", "list"} /\ Accepted = {"review", "export", "succeeded"}
BY DEF AfterDiff, AfterTests, AfterList, AfterAugment, BeforeList, Accepted

LEMMA PatchInit == CandidateInit => PatchInv
<1> SUFFICES ASSUME CandidateInit PROVE PatchInv
  OBVIOUS
<1>1. pc = "working" /\ seen.listed = {}
  BY DEF CandidateInit, Unseen
<1> QED
  BY <1>1, Phases DEF PatchInv, PatchHere, Listing, Shipped

(* A step to a place before the verifier has prepared the repository.       *)
LEMMA PatchBefore ==
    ASSUME pc' \in Agent \cup Gate \cup {"prepare", "failed"}, pc' # "failed" => seen'.listed = {}
    PROVE  PatchInv'
BY Phases DEF PatchInv, PatchHere, Listing, Shipped, Agent, Gate

LEMMA Unlisted == ASSUME PatchInv, pc \in Steps \ (AfterList \cup {"failed"}) PROVE seen.listed = {}
BY DEF PatchInv, Listing

LEMMA ReadyUnlisted == ASSUME Ready PROVE seen'.listed = {}
BY DEF Ready, Unseen

(* A step after the diff that reads nothing more of the tree.               *)
SameReadings ==
    /\ seen'.status = seen.status /\ seen'.diff = seen.diff /\ seen'.listed = seen.listed
    /\ UNCHANGED <<job, head, git, known, diffed>>

LEMMA ReadingsKept ==
    ASSUME SameReadings, faults \subseteq faults'
    PROVE  /\ StatusRead(diffed) => StatusRead(diffed)'
           /\ DiffRead => DiffRead'
           /\ ListRead => ListRead'
           /\ Found' = Found /\ plan' = plan /\ (ChangeSeen => ChangeSeen')
<1>1. UNCHANGED Changed(head, diffed)
  BY DEF SameReadings
<1>2. StatusRead(diffed) => StatusRead(diffed)'
  BY <1>1 DEF SameReadings, StatusRead
<1>3. DiffRead => DiffRead'
  BY <1>1 DEF SameReadings, DiffRead
<1>4. ListRead => ListRead'
  BY DEF SameReadings, ListRead, Filled
<1>5. HasDiff' = HasDiff
  BY DEF SameReadings, HasDiff
<1>6. Found' = Found
  BY <1>5 DEF SameReadings, Found
<1>7. plan' = plan /\ (ChangeSeen => ChangeSeen')
  BY <1>5 DEF SameReadings, plan, ChangeSeen, Explicit
<1> QED
  BY <1>2, <1>3, <1>4, <1>6, <1>7

LEMMA PatchAfter ==
    ASSUME PatchInv, pc \in AfterDiff, pc' \in AfterDiff, faults \subseteq faults', SameReadings,
           pc \in AfterList <=> pc' \in AfterList,
           pc \in AfterAugment <=> pc' \in AfterAugment, pc \in AfterAugment => seen'.verified = seen.verified,
           pc' \in BeforeList => pc \in BeforeList /\ Present \subseteq Present',
           pc' \in Accepted => pc \in Accepted \/ CommandsPass,
           pc' = "succeeded" => patch' = seen'.verified
    PROVE  PatchInv'
<1>1. Listing'
  <2>1. pc # "failed"
    BY Phases
  <2> QED
    BY <2>1 DEF PatchInv, Listing, SameReadings
<1>2. (Shipped => patch = seen.verified)'
  BY DEF Shipped
<1>3. SUFFICES ASSUME NoBackground' PROVE PatchHere'
  BY <1>1, <1>2 DEF PatchInv
<1>4. PatchHere
  BY <1>3 DEF PatchInv, NoBackground
<1>5. pc' \notin {"status", "diff"}
  BY Phases
<1>6. StatusRead(diffed)' /\ DiffRead'
  BY <1>4, ReadingsKept DEF PatchHere
<1>7. "prepare" \notin faults' => git' /\ Filled(diffed)' \subseteq known'
  BY <1>4 DEF PatchHere, SameReadings, Filled
<1>8. pc' \in BeforeList => Filled(diffed)' \subseteq Present'
  BY <1>4 DEF PatchHere, SameReadings, Filled
<1>9. pc' \in AfterList => ListRead'
  BY <1>4, ReadingsKept DEF PatchHere
<1>10. pc' \in AfterAugment => Verified'
  <2>1. Found' = Found /\ plan' = plan
    BY ReadingsKept
  <2> QED
    BY <1>4, <2>1 DEF PatchHere, Verified
<1>11. pc' \in Accepted => ~seen'.diff.cut /\ ChangeSeen'
  <2>1. pc' \in Accepted => ~seen.diff.cut /\ ChangeSeen
    BY <1>4 DEF PatchHere, CommandsPass
  <2> QED
    BY <2>1, ReadingsKept DEF SameReadings
<1> QED
  BY <1>5, <1>6, <1>7, <1>8, <1>9, <1>10, <1>11 DEF PatchHere

LEMMA PatchPrepares == ASSUME Typed, PatchInv, Prepares PROVE PatchInv'
<1>1. pc = "prepare" /\ pc' = "status" /\ UNCHANGED <<work, seen>>
  BY DEF Prepares, verdict
<1>2. Listing' /\ ~Shipped'
  BY <1>1, Phases DEF PatchInv, Listing, Shipped
<1>3. SUFFICES ASSUME "prepare" \notin faults' PROVE git' /\ Present' \subseteq known'
  BY <1>1, <1>2, Phases DEF PatchInv, PatchHere
<1>4. git' = TRUE /\ known' = known \cup Present
  BY <1>3 DEF Prepares, Faulty
<1> QED
  BY <1>1, <1>4 DEF Present

LEMMA PatchReadsStatus == ASSUME Typed, PatchInv, ReadsStatus PROVE PatchInv'
<1>1. PICK s \in {GoodStatus} \cup BadStatus : Returns("status", s, GoodStatus, BadStatus) /\ Sees("status", s)
  BY DEF ReadsStatus
<1>2. pc = "status" /\ pc' = "diff" /\ UNCHANGED <<job, head, git, work, known>>
  BY DEF ReadsStatus, tree
<1>3. seen'.status = s /\ seen'.listed = seen.listed
  BY <1>1 DEF Sees, Typed, VerdictTyped, Verdicts
<1>4. Listing' /\ ~Shipped'
  BY <1>2, <1>3, Phases DEF PatchInv, Listing, Shipped
<1>5. SUFFICES ASSUME NoBackground'
               PROVE  ("prepare" \notin faults' => git' /\ Present' \subseteq known') /\ StatusRead(work)'
  BY <1>2, <1>4, Phases DEF PatchInv, PatchHere
<1>6. faults \subseteq faults'
  BY <1>1 DEF Returns
<1>7. "prepare" \notin faults => git /\ Present \subseteq known
  BY <1>2, <1>5, <1>6 DEF PatchInv, PatchHere, NoBackground
<1>8. git /\ "status" \notin faults' => s = Report(0, Changed(head, work), FALSE)
  BY <1>1 DEF Returns, GoodStatus
<1> QED
  BY <1>2, <1>3, <1>6, <1>7, <1>8 DEF Present, StatusRead

LEMMA PatchReadsDiff == ASSUME Typed, PatchInv, ReadsDiff PROVE PatchInv'
<1>1. PICK d \in {GoodDiff} \cup BadDiff : Returns("diff", d, GoodDiff, BadDiff) /\ Sees("diff", d)
  BY DEF ReadsDiff
<1>2. pc = "diff" /\ pc' \in {"list", "tests"} /\ diffed' = work /\ UNCHANGED <<job, head, git, work, known>>
  BY DEF ReadsDiff, tree
<1>3. seen'.diff = d /\ seen'.status = seen.status /\ seen'.listed = seen.listed
  BY <1>1 DEF Sees, Typed, VerdictTyped, Verdicts
<1>4. Listing' /\ ~Shipped'
  BY <1>2, <1>3, Phases DEF PatchInv, Listing, Shipped
<1>5. SUFFICES ASSUME NoBackground'
               PROVE  /\ "prepare" \notin faults' => git' /\ Filled(diffed)' \subseteq known'
                      /\ StatusRead(diffed)' /\ DiffRead' /\ Filled(diffed)' \subseteq Present'
  BY <1>2, <1>4, Phases DEF PatchInv, PatchHere
<1>6. faults \subseteq faults'
  BY <1>1 DEF Returns
<1>7. ("prepare" \notin faults => git /\ Present \subseteq known) /\ StatusRead(work)
  BY <1>2, <1>5, <1>6 DEF PatchInv, PatchHere, NoBackground
<1>8. StatusRead(diffed)'
  BY <1>2, <1>3, <1>6, <1>7 DEF StatusRead
<1>9. Unreadable.diff.paths = {}
  BY DEF Unreadable, Reading, NoDiff, Sections
<1>10. CASE d = GoodDiff /\ UNCHANGED faults
  <2>1. CASE git
    <3>1. d = Reading(0, Sections(Changed(head, work) \cap known, head, work), FALSE)
      BY <1>10, <2>1 DEF GoodDiff
    <3> QED
      BY <1>2, <1>3, <1>8, <1>6, <1>7, <2>1, <3>1 DEF DiffRead, Filled, Present
  <2>2. CASE ~git
    <3>1. d = Unreadable
      BY <1>10, <2>2 DEF GoodDiff
    <3> QED
      BY <1>2, <1>3, <1>6, <1>7, <1>8, <1>9, <2>2, <3>1 DEF DiffRead, Filled, Present
  <2> QED
    BY <2>1, <2>2
<1>11. CASE d \in BadDiff /\ "diff" \in faults'
  <2>1. d.cut \/ d = Unreadable
    BY <1>11 DEF BadDiff, Reading
  <2> QED
    BY <1>2, <1>3, <1>6, <1>7, <1>8, <1>9, <1>11, <2>1 DEF DiffRead, Filled, Present
<1> QED
  BY <1>1, <1>10, <1>11 DEF Returns

LEMMA PatchLists == ASSUME Typed, PatchInv, Lists PROVE PatchInv'
<1>1. pc = "list" /\ pc' = "augment" /\ UNCHANGED <<job, head, git, work, known, diffed>>
  BY DEF Lists, tree
<1>2. seen.listed = {}
  BY <1>1, Unlisted, Phases DEF Steps, Verifier
<1>3. Listing' /\ ~Shipped'
  BY <1>1, Phases DEF Listing, Shipped
<1>4. SUFFICES ASSUME NoBackground' PROVE PatchHere'
  BY <1>3 DEF PatchInv
<1>5. faults \subseteq faults'
  BY DEF Lists, Returns
<1>6. PatchHere
  BY <1>4, <1>5 DEF PatchInv, NoBackground
<1>7. /\ seen'.status = seen.status /\ seen'.diff = seen.diff
      /\ seen'.listed = {} \/ (~job.repo /\ seen.status.paths # {} /\ seen'.listed = Present)
  BY <1>2 DEF Lists, Sees, Typed, VerdictTyped, Verdicts
<1>8. Filled(diffed) \subseteq Present
  BY <1>1, <1>6, Phases DEF PatchHere
<1>9. ListRead'
  BY <1>1, <1>7, <1>8 DEF ListRead, Filled
<1>10. StatusRead(diffed)' /\ DiffRead'
  <2>1. StatusRead(diffed) /\ DiffRead
    BY <1>1, <1>6, Phases DEF PatchHere
  <2> QED
    BY <1>1, <1>5, <1>7, <2>1 DEF StatusRead, DiffRead
<1>11. "prepare" \notin faults' => git' /\ Filled(diffed)' \subseteq known'
  BY <1>1, <1>5, <1>6, Phases DEF PatchHere, Filled
<1> QED
  BY <1>1, <1>9, <1>10, <1>11, Phases DEF PatchHere

(* What the verifier appends hides nothing of the diff.                     *)
LEMMA AugmentedWhole ==
    ASSUME NEW p, NEW diff \in Diffs, NEW tr \in Tree
    PROVE  /\ diff.paths \subseteq Augmented(p, diff, tr).paths
           /\ diff.git => Augmented(p, diff, tr).git \/ p.crawler \/ p.contains
<1> DEFINE more == Appended(p, diff, tr)
<1>1. Augmented(p, diff, tr).paths = diff.paths \cup more /\ Augmented(p, diff, tr).git = (diff.git /\ more = {})
  BY DEF Augmented, Diffs
<1>2. more # {} => p.crawler \/ p.contains
  BY DEF Appended, When
<1> QED
  BY <1>1, <1>2

LEMMA PatchAugments == ASSUME Typed, PatchInv, Augments PROVE PatchInv'
<1>1. PICK read \in {work, Missing} :
        /\ Returns("read", read, work, {Missing})
        /\ \E out : seen' = [seen EXCEPT !.verified = Augmented(plan, Found, read),
                                         !.smoke.detected = queue' # <<>>, !.smoke.exit = out]
  BY DEF Augments, Found
<1>2. /\ seen'.status = seen.status /\ seen'.diff = seen.diff /\ seen'.listed = seen.listed
      /\ seen'.verified = Augmented(plan, Found, read)
  BY <1>1 DEF Typed, VerdictTyped, Verdicts
<1>3. pc = "augment" /\ pc' = "smoke" /\ UNCHANGED <<job, head, git, known, diffed>>
  BY DEF Augments, tree
<1>4. Listing' /\ ~Shipped'
  BY <1>3, Phases DEF Listing, Shipped
<1>5. SUFFICES ASSUME NoBackground' PROVE PatchHere'
  BY <1>4 DEF PatchInv
<1>6. faults \subseteq faults'
  BY <1>1 DEF Returns
<1>7. PatchHere
  BY <1>5, <1>6 DEF PatchInv, NoBackground
<1>8. SameReadings
  BY <1>2, <1>3 DEF SameReadings
<1>9. StatusRead(diffed)' /\ DiffRead' /\ ListRead' /\ Found' = Found /\ plan' = plan
  BY <1>3, <1>6, <1>7, <1>8, Phases, ReadingsKept DEF PatchHere
<1>10. Found \in Diffs /\ read \in Tree
  BY SyntheticTyped, MissingTyped DEF Found, Typed, WorkTyped, VerdictTyped, Verdicts, Readings
<1>11. Verified'
  BY <1>2, <1>9, <1>10, AugmentedWhole DEF Verified
<1>12. "prepare" \notin faults' => git' /\ Filled(diffed)' \subseteq known'
  BY <1>3, <1>6, <1>7, Phases DEF PatchHere, Filled
<1> QED
  BY <1>3, <1>9, <1>11, <1>12, Phases DEF PatchHere

LEMMA PatchStep == Typed /\ PatchInv /\ [CandidateNext]_vars => PatchInv'
<1> SUFFICES ASSUME Typed, PatchInv, [CandidateNext]_vars PROVE PatchInv'
  OBVIOUS
<1>0. faults \subseteq faults' /\ pc \in Steps
  BY FaultsGrow DEF Typed, WorkTyped
<1>1. CASE UNCHANGED vars
  <2>1. SameReadings /\ UNCHANGED <<pc, work, seen, patch, faults>>
    BY <1>1 DEF vars, tree, verdict, SameReadings
  <2>2. plan' = plan /\ Found' = Found /\ ChangeSeen' = ChangeSeen
    BY <2>1 DEF plan, Found, HasDiff, ChangeSeen, Explicit, SameReadings
  <2>3. UNCHANGED <<Changed(head, work), Changed(head, diffed), Present, Filled(diffed)>>
    BY <2>1 DEF SameReadings, Present, Filled
  <2>4. /\ StatusRead(work) => StatusRead(work)'
        /\ StatusRead(diffed) => StatusRead(diffed)'
    BY <2>1, <2>3 DEF SameReadings, StatusRead
  <2>5. DiffRead => DiffRead'
    BY <2>1, <2>3 DEF SameReadings, DiffRead
  <2>6. (ListRead => ListRead') /\ (Verified => Verified')
    BY <2>1, <2>2, <2>3 DEF SameReadings, ListRead, Verified
  <2>7. PatchHere => PatchHere'
    BY <2>1, <2>2, <2>3, <2>4, <2>5, <2>6 DEF SameReadings, PatchHere
  <2> QED
    BY <2>1, <2>7 DEF PatchInv, Listing, Shipped, NoBackground
<1>2. CASE AgentActs \/ EditWrites \/ PatchRuns \/ PatchRemoves
  <2>1. pc \in Agent /\ pc' \in Agent \cup {"gate"} /\ UNCHANGED seen
    BY <1>2 DEF AgentActs, WriteFile, EditReads, PatchWrites, AgentRuns, Researches, Commits, Proposes, EditWrites, PatchRuns,
       PatchRemoves, Starts, Agent, verdict
  <2>2. seen.listed = {}
    BY <1>0, <2>1, Unlisted, Phases DEF Agent
  <2> QED
    BY <2>1, <2>2, PatchBefore DEF Gate
<1>3. CASE Gates
  <2>1. pc \in Gate /\ pc' \in Gate \cup {"working", "prepare"} /\ (UNCHANGED seen \/ Ready)
    BY <1>3 DEF Gates, GatePrepares, GateStatus, GateDiff, GateInspects, Gate, verdict
  <2>2. seen.listed = {}
    BY <1>0, <2>1, Unlisted, Phases DEF Gate
  <2> QED
    BY <2>1, <2>2, ReadyUnlisted, PatchBefore DEF Agent
<1>4. CASE RunsTests \/ RunsBuild \/ RunsLint
  <2>1. /\ pc \in {"tests", "build", "lint"} /\ pc' \in {"build", "lint", "list"}
        /\ UNCHANGED <<job, head, git, known, diffed>>
    BY <1>4 DEF RunsTests, RunsBuild, RunsLint, Runs
  <2>2. seen'.status = seen.status /\ seen'.diff = seen.diff /\ seen'.listed = seen.listed
    BY <1>4 DEF RunsTests, RunsBuild, RunsLint, Runs, Sees, Typed, VerdictTyped, Verdicts
  <2>3. Present \subseteq Present'
    BY <1>4, LeavesTyped DEF RunsTests, RunsBuild, RunsLint, Runs, Typed, Present
  <2> QED
    BY <1>0, <2>1, <2>2, <2>3, PatchAfter, Phases DEF SameReadings
<1>5. CASE SmokeRuns \/ SmokeEnds \/ Judges
  <2>1. pc \in {"smoke", "judge"} /\ pc' \in {"smoke", "judge", "decided"} /\ UNCHANGED <<job, head, git, known, diffed>>
    BY <1>5 DEF SmokeRuns, SmokeEnds, Judges, tree, verdict
  <2>2. /\ seen'.status = seen.status /\ seen'.diff = seen.diff /\ seen'.verified = seen.verified
        /\ seen'.listed = seen.listed
    BY <1>5 DEF SmokeRuns, SmokeEnds, Judges, Sees, verdict, Typed, VerdictTyped, Verdicts
  <2> QED
    BY <1>0, <2>1, <2>2, PatchAfter, Phases DEF SameReadings
<1>6. CASE StopsAfterVerification \/ Rejects \/ ReviewBlocks \/ TimesOut
  <2>1. pc' = "failed" \/ (pc' = "working" /\ Ready)
    BY <1>6 DEF StopsAfterVerification, Rejects, ReviewBlocks, TimesOut
  <2> QED
    BY <2>1, ReadyUnlisted, PatchBefore DEF Agent
<1>7. CASE Accepts \/ ReviewPasses \/ Exports
  <2>1. /\ pc \in {"decided", "review", "export"} /\ pc' \in {"review", "export", "succeeded"}
        /\ UNCHANGED <<job, head, git, known, diffed, seen>>
    BY <1>7 DEF Accepts, ReviewPasses, Exports, tree, verdict
  <2>2. pc' = "succeeded" => patch' = seen'.verified
    BY <1>7 DEF Accepts, ReviewPasses, Exports, verdict
  <2>3. pc \in Accepted \/ CommandsPass
    BY <1>7, Phases DEF Accepts, ReviewPasses, Exports, Passes
  <2> QED
    BY <1>0, <2>1, <2>2, <2>3, PatchAfter, Phases DEF SameReadings
<1>8. CASE BackgroundWrites
  <2>1. UNCHANGED <<pc, seen, patch>> /\ "background" \in faults'
    BY <1>8 DEF BackgroundWrites, verdict
  <2> QED
    BY <2>1 DEF PatchInv, Listing, Shipped, NoBackground
<1> QED
  BY <1>1, <1>2, <1>3, <1>4, <1>5, <1>6, <1>7, <1>8, PatchPrepares, PatchReadsStatus, PatchReadsDiff, PatchLists, PatchAugments
  DEF CandidateNext, Progress, Verifies, Concludes

(* What a whole diff shows of the changes: all files that the index has,    *)
(* those of the last commit among them.                                     *)
LEMMA IndexShows ==
    ASSUME Indexed, PatchHere, pc \in AfterDiff, head = job.base
    PROVE  LET changed == Changed(head, diffed)
               tracked == {p \in Paths : job.base[p] # {}}
           IN /\ changed \cap tracked \subseteq known
              /\ "prepare" \notin faults => changed \subseteq known
<1>1. \A p \in Paths : head[p] # {} => p \in known
  BY DEF Indexed
<1>2. "prepare" \notin faults => \A p \in Paths : diffed[p] # {} => p \in known
  BY DEF PatchHere, Filled
<1> QED
  BY <1>1, <1>2 DEF Changed, Meaningful

(* What ships, in terms of what the verifier read.                          *)
LEMMA PatchMeans ==
    ASSUME Typed, Indexed, PatchHere, Shipped, patch = seen.verified, head = job.base
    PROVE  LET changed == Changed(job.base, diffed)
               tracked == {p \in Paths : job.base[p] # {}}
               listed == {p \in TopLevel : diffed[p] # {}}
               shown == (IF "prepare" \in faults THEN tracked ELSE Paths)
                          \cap (IF "diff" \in faults /\ ~job.repo THEN listed ELSE Paths)
           IN /\ {"status", "diff"} \subseteq faults \/ changed \cap shown \subseteq patch.paths
              /\ changed # {} \/ "status" \in faults \/ ~git
              /\ patch.git \/ plan.crawler \/ plan.contains \/ changed = {} \/ faults \cap {"prepare", "diff"} # {}
<1> DEFINE changed == Changed(job.base, diffed)
           tracked == {p \in Paths : job.base[p] # {}}
           listed == {p \in TopLevel : diffed[p] # {}}
           shown == (IF "prepare" \in faults THEN tracked ELSE Paths)
                      \cap (IF "diff" \in faults /\ ~job.repo THEN listed ELSE Paths)
           indexed == changed \cap known
<1>1. pc \in AfterDiff /\ pc \in AfterList /\ pc \in AfterAugment /\ pc \in Accepted
  BY Phases DEF Shipped
<1>2. /\ "prepare" \notin faults => git
      /\ StatusRead(diffed) /\ DiffRead /\ ListRead /\ Verified /\ ~seen.diff.cut /\ ChangeSeen
  BY <1>1 DEF PatchHere
<1>3. changed \in SUBSET Paths /\ (changed \cap tracked) \subseteq indexed /\ ("prepare" \notin faults => indexed = changed)
  BY <1>1, IndexShows DEF Changed, Meaningful
<1>4. seen.diff.cut \in BOOLEAN
  BY DEF Typed, VerdictTyped, Verdicts, Readings
<1>5. \/ git /\ seen.diff = Reading(0, Sections(indexed, head, diffed), FALSE)
      \/ (git => "diff" \in faults) /\ seen.diff.diff.paths = {}
  BY <1>2 DEF DiffRead
<1>6. CASE git /\ seen.diff = Reading(0, Sections(indexed, head, diffed), FALSE)
  <2>1. seen.diff.exit = 0 /\ seen.diff.diff.paths = indexed /\ seen.diff.diff.git = TRUE
    BY <1>6 DEF Reading, Sections
  <2>2. indexed # {} => Found = seen.diff.diff
    BY <2>1 DEF Found, HasDiff
  <2>3. indexed \subseteq patch.paths
    BY <1>2, <2>1, <2>2 DEF Verified
  <2>4. changed \cap shown \subseteq indexed
    BY <1>3
  <2>5. indexed # {} => patch.git \/ plan.crawler \/ plan.contains
    BY <1>2, <2>1, <2>2 DEF Verified
  <2>6. changed # {} \/ "status" \in faults
    <3>1. SUFFICES ASSUME changed = {}, "status" \notin faults PROVE FALSE
      OBVIOUS
    <3>2. seen.status.paths = {}
      BY <1>2, <1>6, <3>1 DEF StatusRead, Report
    <3> QED
      BY <1>2, <2>1, <3>1, <3>2 DEF ChangeSeen, HasDiff, Explicit, ListRead
  <2> HIDE DEF changed, shown, indexed, tracked, listed
  <2>7. indexed = changed \/ "prepare" \in faults
    BY <1>3
  <2>8. changed \cap shown \subseteq patch.paths
    BY <2>3, <2>4
  <2>9. patch.git \/ plan.crawler \/ plan.contains \/ changed = {} \/ faults \cap {"prepare", "diff"} # {}
    BY <2>5, <2>7
  <2> QED
    BY <2>6, <2>8, <2>9 DEF changed, shown, tracked, listed
<1>7. CASE ~git
  <2>1. "prepare" \in faults /\ tracked = {}
    BY <1>2, <1>7 DEF Indexed, Missing
  <2> QED
    BY <1>7, <2>1
<1>8. CASE git /\ "diff" \in faults /\ seen.diff.diff.paths = {}
  <2>1. ~HasDiff /\ Found = Synthetic(seen.status.paths, seen.listed)
    BY <1>8 DEF Found, HasDiff
  <2>2. CASE "status" \in faults
    BY <1>8, <2>2
  <2>3. CASE "status" \notin faults
    <3>1. seen.status.paths = changed
      BY <1>2, <1>8, <2>3 DEF StatusRead, Report
    <3>2. changed # {}
      BY <1>2, <2>1, <3>1 DEF ChangeSeen, Explicit, ListRead
    <3>3. Found.paths = Paths \cap (IF seen.listed = {} THEN changed ELSE changed \cap seen.listed \cap TopLevel)
      BY <2>1, <3>1, NoDiffTyped DEF Synthetic, Diffs
    <3>4. changed \cap shown \subseteq Found.paths
      <4>1. CASE seen.listed = {}
        BY <1>3, <3>3, <4>1
      <4>2. CASE seen.listed # {}
        <5>1. ~job.repo /\ Filled(diffed) \subseteq seen.listed
          BY <1>2, <4>2 DEF ListRead
        <5>2. shown \subseteq listed
          BY <1>8, <5>1
        <5>3. listed \subseteq seen.listed \cap TopLevel
          BY <5>1 DEF Filled, TopLevel
        <5> HIDE DEF shown, listed
        <5> QED
          BY <1>3, <3>3, <4>2, <5>2, <5>3
      <4> QED
        BY <4>1, <4>2
    <3>5. Found.paths \subseteq patch.paths
      BY <1>2 DEF Verified
    <3> HIDE DEF changed, shown
    <3>6. changed \cap shown \subseteq patch.paths
      BY <3>4, <3>5
    <3> QED
      BY <1>8, <3>2, <3>6 DEF changed, shown
  <2> QED
    BY <2>2, <2>3
<1> QED
  BY <1>5, <1>6, <1>7, <1>8

(* What git had to tell is in the patch; calls that fail hide only what the *)
(* property names.                                                          *)
THEOREM PatchIsComplete == CandidateSpec => []PatchComplete
<1>1. Typed /\ Indexed /\ PatchInv => PatchComplete
  <2> SUFFICES ASSUME Typed, Indexed, PatchInv, Shipped, head = job.base, NoBackground
               PROVE  PatchComplete
    BY DEF PatchComplete
  <2>1. PatchHere /\ patch = seen.verified
    BY DEF PatchInv
  <2> QED
    BY <2>1, PatchMeans DEF PatchComplete
<1> QED
  BY <1>1, InitTyped, TypedStep, IndexedInit, IndexedStep, PatchInit, PatchStep, PTL DEF CandidateSpec

================================================================================
