------------------------------ MODULE MCCandidate ------------------------------
EXTENDS Candidate

File(lines) == [p \in Paths |-> IF p = "app" THEN lines ELSE {}]
With(tr, p, lines) == [tr EXCEPT ![p] = lines]
Repository == With(With(File({"old"}), "readme", {"old"}), "test", {"old"})

E(p, f, t) == [path |-> p, from |-> f, to |-> t]

(* A job on a repository with tests, and one that starts from nothing.      *)
Cloned(cues, edits, shows) ==
    [cues |-> cues, repo |-> TRUE, suite |-> {"tests"}, must |-> {}, base |-> Repository,
     judge |-> TRUE, reviewer |-> TRUE, edits |-> edits, shows |-> shows]
Empty(cues, edits, shows) ==
    [cues |-> cues, repo |-> FALSE, suite |-> {}, must |-> {}, base |-> Missing,
     judge |-> FALSE, reviewer |-> FALSE, edits |-> edits, shows |-> shows]

MCJobs ==
    {Cloned({"bugfix"}, {E("app", "old", "code"), E("app", "code", "todo")}, {"test"}),
     [Cloned({"docs", "sections"}, {E("readme", "old", "terms"), E("app", "old", "code")}, {})
         EXCEPT !.must = {"readme"}],
     Cloned({"artifact"}, {E("go", "old", "twice")}, {}),
     [Cloned({"api", "endpoint"}, {E("app", "old", "import"), E("manifest", "old", "declares")}, {"relevant"})
         EXCEPT !.suite = {"tests", "build", "lint"}],
     Empty({"crawler", "fixture", "json_path"}, {E("app", "old", "dry_run"), E("json", "old", "dirty")}, {"output"}),
     Empty({"cli", "command", "test_command"}, {E("app", "old", "twice"), E("app", "twice", "code")}, {}),
     Empty({}, {E("cache", "old", "code")}, {})}
MCTools == {"write", "edit", "patch", "run", "commit", "research"}
================================================================================
