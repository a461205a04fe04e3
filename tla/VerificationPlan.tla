---------------------------- MODULE VerificationPlan ----------------------------
(***************************************************************************)
(* How a final candidate is judged, without the order in which the judges    *)
(* read the sandbox: the plan that an instruction implies, what git status   *)
(* and git diff say of a work tree, the blockers of the quality gate and the *)
(* fixes that the verifier demands. An instruction is the set of cues its    *)
(* text matches, a file the set of lines that some check tells apart.        *)
(***************************************************************************)
EXTENDS Naturals, FiniteSets, Sequences

Cues == {"crawler", "fixture", "url", "cli", "script", "api", "endpoint", "source", "bugfix",
         "docs", "sections", "checks", "artifact", "json", "json_path", "csv", "command", "test_command"}

Paths == {"app", "go", "test", "readme", "manifest", "json", "log", "cache", "leftover"}
Python == {"app", "test"}
CodeLike == Python \cup {"go", "json"}      \* has_code_like_changes
Marked == Python \cup {"go"}                \* where the gate looks for placeholders
TopLevel == Paths \ {"test", "json"}        \* tests/test_app.py and data/output.json are not
Meaningful == Paths \ {"cache"}             \* meaningful_change_path
Delivered == Meaningful \ {"log"}           \* meaningful_quality_path

(* old: the repository's own text; twice: a second copy of an               *)
(* implementation; fetched: a URL that fetch_url read; thin, terms: sections *)
(* of a README; broken, dirty: JSON that does not parse, records with holes. *)
Lines == {"old", "code", "todo", "twice", "import", "declares", "dry_run", "fixtures", "fetched",
          "invalid", "source_url", "thin", "terms", "broken", "dirty"}

Tree == [Paths -> SUBSET Lines]             \* a file without lines does not exist
Missing == [p \in Paths |-> {}]

When(code, holds) == IF holds THEN {code} ELSE {}

--------------------------------------------------------------------------------
(* build_verification_plan *)

LocalFixture(c) == {"crawler", "fixture"} \subseteq c /\ "url" \notin c

NeedsTest(c) == "bugfix" \in c /\ c \cap {"docs", "source"} = {}
NeedsSource(c) ==
    /\ \/ "api" \in c /\ c \cap {"url", "endpoint"} # {}
       \/ "source" \in c
       \/ {"crawler", "url"} \subseteq c
    /\ ~LocalFixture(c) /\ "artifact" \notin c

Plan(c) ==
    [test_change |-> NeedsTest(c),
     entrypoint |-> c \cap {"crawler", "cli"} # {} /\ c \cap {"bugfix", "artifact"} = {},
     no_placeholder |-> "docs" \notin c,
     source |-> NeedsSource(c),
     crawler |-> "crawler" \in c,
     artifact |-> "artifact" \in c,
     docs |-> "docs" \in c,
     repair |-> "source" \in c,
     contains |-> "checks" \in c \/ {"docs", "sections"} \subseteq c,
     command |-> "command" \in c]

(* The judge is not asked about these (plan_uses_structured_semantics).     *)
Structured(plan) == plan.docs \/ plan.artifact \/ plan.repair \/ plan.contains
Unchecked(plan) == plan.docs \/ plan.artifact

--------------------------------------------------------------------------------
(* git status and git diff of a work tree, relative to the commit `base`.   *)
(* said: the output holds text that is no section of a diff.                *)

Changed(base, work) == {p \in Meaningful : work[p] # base[p]}

(* A diff of these files: added lines, and all lines of the sections; files *)
(* are so short that a hunk shows the whole of them.                        *)
Sections(paths, base, work) ==
    [paths |-> paths, said |-> FALSE, git |-> TRUE,
     added |-> [p \in Paths |-> IF p \in paths THEN work[p] \ base[p] ELSE {}],
     text |-> [p \in Paths |-> IF p \in paths THEN work[p] \cup base[p] ELSE {}]]

Diffs == [paths : SUBSET Paths, said : BOOLEAN, git : BOOLEAN, added : Tree, text : Tree]
NoDiff == Sections({}, Missing, Missing)

(* synthetic_diff_from_status: headers only, for the files of the status    *)
(* that the listing of the top directory shows by the same name.            *)
Synthetic(paths, listed) ==
    [NoDiff EXCEPT !.git = FALSE,
                   !.paths = Paths \cap (IF listed = {} THEN paths ELSE paths \cap listed \cap TopLevel)]

(* What the two augment_diff_* read of the tree and append: whole files.    *)
Appended(plan, diff, work) ==
    When("readme", plan.contains /\ "terms" \notin diff.added["readme"] /\ "terms" \in work["readme"])
      \cup {p \in diff.paths \cap Python : plan.crawler /\ diff.added[p] = {} /\ work[p] # {}}

Augmented(plan, diff, work) ==
    LET more == Appended(plan, diff, work)
    IN [diff EXCEPT !.paths = @ \cup more,
                    !.git = @ /\ more = {},
                    !.added = [p \in Paths |-> IF p \in more THEN work[p] ELSE @[p]],
                    !.text = [p \in Paths |-> IF p \in more THEN @[p] \cup work[p] ELSE @[p]]]

Anywhere(lines, x) == \E p \in Paths : x \in lines[p]

--------------------------------------------------------------------------------
(* QualityGate.run. `status` holds paths, and "message" for the text of a   *)
(* failed call, which changed_paths_from_status takes for one more path.    *)

InferredJson(c, must, status) ==
    IF "json" \in must \cup status \/ c \cap {"json", "json_path", "crawler"} # {}
    THEN {"json"} ELSE {}

(* `work` is what read_file returned: {} for a file it could not read.      *)
ArtifactBlockers(c, must, status, work) ==
    IF InferredJson(c, must, status) = {} THEN {}
    ELSE When("json_artifact_missing", work["json"] = {} /\ "json_path" \in c)
           \cup When("json_artifact_invalid", "broken" \in work["json"])
           \cup When("json_records", "dirty" \in work["json"] /\ "broken" \notin work["json"])

Undeclared(diff) == Anywhere(diff.added, "import") /\ "manifest" \notin diff.paths

GateBlockers(c, must, status, diff, work) ==
    When("no_changes", status = {} /\ diff.paths = {} /\ ~diff.said)
      \cup When("generated_only_changes", status # {} /\ status \cap (Delivered \cup {"message"}) = {})
      \cup When("duplicate_python", \E p \in Python : "twice" \in diff.added[p])
      \cup When("placeholder_left_in_diff", \E p \in Marked : "todo" \in diff.text[p])
      \cup When("undeclared_third_party_dependency", Undeclared(diff))
      \cup ArtifactBlockers(c, must, status, work)
      \cup When("markdown_section_empty", "readme" \in must /\ "thin" \in work["readme"])

--------------------------------------------------------------------------------
(* evaluate_verification_plan. `evidence` is what the job's steps show.     *)

Evidence == {"edited", "test", "dry_run", "output", "url_command", "search", "relevant", "fetched"}

RelatedTest(diff, tests, smoke, evidence, reason) ==
    \/ tests.exit = 0 /\ tests.detected
    \/ smoke.exit = 0 /\ "test" \in smoke.ran
    \/ "test" \in evidence \/ "test" \in diff.paths \/ reason

SourceVerified(plan, diff, smoke, evidence) ==
    \/ evidence \cap {"relevant", "search"} # {}
    \/ smoke.exit = 0 /\ plan.command /\ "url_command" \in evidence
    \/ "fetched" \in evidence /\ (Anywhere(diff.text, "fetched") \/ Anywhere(diff.text, "invalid"))
    \/ Anywhere(diff.text, "invalid") /\ Anywhere(diff.added, "source_url")

CrawlerFixes(diff, smoke, evidence) ==
    When("undeclared", "import" \in diff.added["app"] /\ "declares" \notin diff.added["manifest"])
      \cup When("duplicated", "twice" \in diff.added["app"] \cup diff.added["test"])
      \cup When("dry_run", Anywhere(diff.text, "dry_run") /\ "dry_run" \notin smoke.ran \cup evidence)
      \cup When("output", /\ {"output", "json_output", "csv_output"} \cap (smoke.ran \cup evidence) = {}
                          /\ ~(Anywhere(diff.text, "dry_run") /\ Anywhere(diff.text, "fixtures")))

PlanFixes(plan, diff, tests, smoke, evidence, reason) ==
    When("related_test", plan.test_change /\ ~RelatedTest(diff, tests, smoke, evidence, reason))
      \cup When("code_in_docs", plan.docs /\ diff.paths \cap CodeLike # {})
      \cup When("contains", plan.contains /\ "terms" \notin diff.added["readme"])
      \cup When("entrypoint", plan.entrypoint /\ ~smoke.detected)
      \cup When("placeholder", plan.no_placeholder /\ Anywhere(diff.text, "todo"))
      \cup When("source", plan.source /\ ~SourceVerified(plan, diff, smoke, evidence))
      \cup (IF plan.crawler THEN CrawlerFixes(diff, smoke, evidence) ELSE {})

--------------------------------------------------------------------------------
(* run_smoke_verification: the commands, in order, for a diff.              *)

SmokeKinds == {"compile", "declared", "dry_run", "entry", "csv_output", "json_output", "json_check"}

Only(name, holds) == IF holds THEN <<name>> ELSE <<>>

Runnable(c, plan, files) ==
    "app" \in files /\ (c \cap {"crawler", "script"} # {} \/ plan.entrypoint)

SmokeCommands(c, plan, diff) ==
    LET files == diff.paths
        runs == Runnable(c, plan, files)
        commands ==
            Only("compile", files \cap Python # {})
              \o Only(IF plan.command THEN "declared"
                      ELSE IF plan.crawler /\ "dry_run" \in diff.added["app"] THEN "dry_run" ELSE "entry", runs)
              \o Only(IF "csv" \in c THEN "csv_output" ELSE "json_output", runs /\ c \cap {"csv", "json", "json_path"} # {})
              \o Only("json_check", "json" \in files)
    IN IF Unchecked(plan) THEN <<>>
       ELSE IF commands = <<>> \/ runs THEN commands
       ELSE commands \o Only("declared", plan.command)

(* The exit code when there is nothing to run.                              *)
NoSmokeExit(plan, diff, detected) ==
    IF diff.paths \cap CodeLike = {} \/ Unchecked(plan) \/ detected THEN 0 ELSE 1

================================================================================
