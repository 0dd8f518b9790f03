----------------------------- MODULE MCLinterCi -----------------------------
(* Jobs on a few providers, against an app with a few configurations.      *)
EXTENDS LinterCi

Default == [token |-> TRUE, config |-> FALSE, usage |-> "ok", dryRun |-> FALSE, suppress |-> FALSE,
            sarif |-> FALSE, subdir |-> FALSE, nosem |-> "default", secrets |-> FALSE, engine |-> None,
            historical |-> FALSE, supplyChain |-> FALSE, code |-> FALSE, branch |-> "branch",
            emptyRepo |-> FALSE, saved |-> "none", partial |-> "none", baseline |-> FALSE,
            auditOn |-> {}, env |-> {"SEMGREP_REPO_NAME"}]
PullRequest == {"GITHUB_ACTIONS", "GITHUB_REPOSITORY", "pull_request"}
MergeRequest == {"GITLAB_CI", "CI_PROJECT_PATH", "merge_request_event",
                 "CI_MERGE_REQUEST_TARGET_BRANCH_NAME"}

MCCommands == {
  Default,
  [Default EXCEPT !.usage = "bad"],
  [Default EXCEPT !.token = FALSE],
  [Default EXCEPT !.token = FALSE, !.config = TRUE, !.engine = "oss", !.branch = "base",
                  !.env = PullRequest],
  [Default EXCEPT !.config = TRUE],
  [Default EXCEPT !.emptyRepo = TRUE, !.subdir = TRUE],
  [Default EXCEPT !.sarif = TRUE, !.env = PullRequest, !.suppress = TRUE],
  [Default EXCEPT !.dryRun = TRUE, !.env = MergeRequest, !.saved = "present"],
  [Default EXCEPT !.secrets = TRUE, !.engine = "oss", !.saved = "present"],
  [Default EXCEPT !.historical = TRUE, !.sarif = TRUE, !.saved = "present"],
  [Default EXCEPT !.supplyChain = TRUE, !.engine = "interfile", !.saved = "present"],
  [Default EXCEPT !.saved = "missing"],
  [Default EXCEPT !.partial = "missing", !.saved = "present"],
  [Default EXCEPT !.nosem = "on", !.baseline = TRUE, !.saved = "present",
                  !.auditOn = {"pull_request"}, !.env = {"BUILDKITE", "BUILDKITE_PULL_REQUEST"}] }

Config == [NoConfig EXCEPT !.rules = "some", !.products = {"sast"}]

MCConfigs == {
  Config,
  [Config EXCEPT !.alwaysSuppress = TRUE, !.deep = TRUE, !.triaged = {"f"}],
  [Config EXCEPT !.nosemDisabled = TRUE, !.override = TRUE, !.blockIds = {"g"},
                 !.products = {"sast", "secrets"}],
  [Config EXCEPT !.override = TRUE, !.reason = TRUE, !.products = {"sca", "secrets"},
                 !.historical = TRUE],
  NoConfig }

F(id, blocks, nosem) ==
  [id |-> id, rule |-> "R", path |-> "a", ctx |-> id, line |-> 1, index |-> 0, fix |-> FALSE,
   block |-> blocks, sca |-> NoSca, validation |-> None, blockingStates |-> {},
   ignored |-> nosem, transient |-> FALSE, cai |-> FALSE, history |-> FALSE]

Dependency(id, kind, reachable, transitive) ==
  [F(id, TRUE, FALSE) EXCEPT !.sca = [kind |-> kind, reachable |-> reachable, transitive |-> transitive]]
Secret(id, state) ==
  [F(id, FALSE, FALSE) EXCEPT !.validation = state, !.blockingStates = {"valid"}]

MCOutcomes == {
  [code |-> OK, known |-> TRUE, found |-> {}],
  [code |-> OK, known |-> TRUE, found |-> {F("f", TRUE, FALSE), F("g", FALSE, FALSE)}],
  [code |-> OK, known |-> TRUE, found |-> {F("h", TRUE, TRUE), [F("i", TRUE, FALSE) EXCEPT !.cai = TRUE],
                                           [F("j", TRUE, FALSE) EXCEPT !.transient = TRUE]}],
  [code |-> OK, known |-> TRUE, found |-> {Dependency("k", "upgrade-only", FALSE, TRUE),
                                           Dependency("l", "reachability", FALSE, FALSE),
                                           Dependency("m", "legacy", TRUE, FALSE), Secret("n", "invalid"),
                                           Secret("o", "no validator")}],
  [code |-> OK, known |-> TRUE, found |-> {Dependency("p", "malicious", FALSE, TRUE), Secret("n", "invalid")}],
  [code |-> OK, known |-> TRUE, found |-> {Secret("q", "valid")}],
  [code |-> FATAL, known |-> TRUE, found |-> {}],
  [code |-> FATAL, known |-> FALSE, found |-> {}] }

Past(m) == [m EXCEPT !.history = TRUE]

MCHistories == {
  [code |-> OK, known |-> TRUE,
   found |-> {Past(Secret("n", "valid")), Past([Secret("r", "valid") EXCEPT !.ignored = TRUE])}],
  [code |-> FATAL, known |-> TRUE, found |-> {}],
  [code |-> FATAL, known |-> FALSE, found |-> {}] }
=============================================================================
