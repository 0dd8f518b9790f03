------------------------------- MODULE CiMeta -------------------------------
(***************************************************************************)
(* What `ci` says of the project (meta.py): which provider's environment   *)
(* it runs in, and the variable each fact is read from.  An environment is *)
(* the set of the variables it defines; a value is the name of the         *)
(* variable, or of the git command, that it comes from.                    *)
(***************************************************************************)
EXTENDS Integers, Sequences, SequencesExt

(* generate_meta_from_environment: the first marker that is set decides.   *)
Markers ==
  << <<"GITHUB_ACTIONS", "github">>, <<"GITLAB_CI", "gitlab">>, <<"CIRCLECI", "circleci">>,
     <<"JENKINS_URL", "jenkins">>, <<"BITBUCKET_BUILD_NUMBER", "bitbucket">>,
     <<"BUILD_BUILDID", "azure">>, <<"BUILDKITE", "buildkite">>, <<"TRAVIS", "travis">>,
     <<"SEMGREP_MANAGED_SCAN", "managed">>, <<"SEMGREP_MCP", "mcp">> >>

Provider(env) ==
  LET set == SelectSeq(Markers, LAMBDA m : m[1] \in env)
  IN  IF set = << >> THEN "git" ELSE Head(set)[2]

(* The first of the names that is set.                                     *)
First(env, names, default) ==
  LET set == {i \in DOMAIN names : names[i] \in env}
  IN  IF set = {} THEN default ELSE names[Min(set)]

GithubSources == [
  repo_name |-> <<"GITHUB_REPOSITORY">>, branch |-> <<"GITHUB_REF">>,
  commit |-> << >>, pr_id |-> <<"pull_request.number">>, url |-> << >>]
GitlabSources == [
  repo_name |-> <<"CI_PROJECT_PATH">>,
  branch |-> <<"CI_COMMIT_BRANCH", "CI_MERGE_REQUEST_SOURCE_BRANCH_NAME">>,
  commit |-> <<"CI_COMMIT_SHA">>, pr_id |-> <<"CI_MERGE_REQUEST_IID">>, url |-> <<"CI_PROJECT_URL">>]
CircleCISources == [
  repo_name |-> <<"CIRCLE_PROJECT_REPONAME", "CIRCLE_REPOSITORY_URL">>,
  branch |-> <<"CIRCLE_BRANCH">>, commit |-> <<"CIRCLE_SHA1">>,
  pr_id |-> <<"CIRCLE_PULL_REQUEST">>, url |-> <<"CIRCLE_REPOSITORY_URL">>]
JenkinsSources == [
  repo_name |-> <<"GIT_URL">>, branch |-> <<"GIT_BRANCH">>, commit |-> <<"GIT_COMMIT">>,
  pr_id |-> << >>, url |-> <<"GIT_URL", "GIT_URL_1">>]
BitbucketSources == [
  repo_name |-> <<"BITBUCKET_REPO_FULL_NAME", "BITBUCKET_GIT_HTTP_ORIGIN">>,
  branch |-> <<"BITBUCKET_BRANCH">>, commit |-> <<"BITBUCKET_COMMIT">>,
  pr_id |-> <<"BITBUCKET_PR_ID">>, url |-> <<"BITBUCKET_GIT_HTTP_ORIGIN">>]
AzureSources == [
  repo_name |-> <<"SYSTEM_PULLREQUEST_SOURCEREPOSITORYURI", "BUILD_REPOSITORY_URI">>,
  branch |-> <<"SYSTEM_PULLREQUEST_SOURCEBRANCH", "BUILD_SOURCEBRANCH", "BUILD_SOURCEBRANCHNAME">>,
  commit |-> <<"SYSTEM_PULLREQUEST_SOURCECOMMITID", "BUILD_SOURCEVERSION">>,
  pr_id |-> <<"SYSTEM_PULLREQUEST_PULLREQUESTNUMBER">>,
  url |-> <<"SYSTEM_PULLREQUEST_SOURCEREPOSITORYURI", "BUILD_REPOSITORY_URI">>]
BuildkiteSources == [
  repo_name |-> <<"BUILDKITE_REPO">>, branch |-> <<"BUILDKITE_BRANCH">>,
  commit |-> <<"BUILDKITE_COMMIT">>, pr_id |-> <<"BUILDKITE_PULL_REQUEST">>,
  url |-> <<"BUILDKITE_REPO">>]
TravisSources == [
  repo_name |-> <<"TRAVIS_REPO_SLUG">>, branch |-> <<"TRAVIS_PULL_REQUEST_BRANCH", "TRAVIS_BRANCH">>,
  commit |-> <<"TRAVIS_COMMIT">>, pr_id |-> <<"TRAVIS_PULL_REQUEST">>, url |-> << >>]
NoSources == [repo_name |-> << >>, branch |-> << >>, commit |-> << >>, pr_id |-> << >>, url |-> << >>]

Sources(provider) ==
  CASE provider = "github"    -> GithubSources
    [] provider = "gitlab"    -> GitlabSources
    [] provider = "circleci"  -> CircleCISources
    [] provider = "jenkins"   -> JenkinsSources
    [] provider = "bitbucket" -> BitbucketSources
    [] provider = "azure"     -> AzureSources
    [] provider = "buildkite" -> BuildkiteSources
    [] provider = "travis"    -> TravisSources
    [] OTHER                  -> NoSources

(* The explicit variables of the linter come first.                        *)
RepoName(env) ==
  First(env, <<"SEMGREP_REPO_NAME">> \o Sources(Provider(env)).repo_name, "git rev-parse --show-toplevel")

RepoUrl(env) ==
  First(env, <<"SEMGREP_REPO_URL">> \o Sources(Provider(env)).url,
        IF Provider(env) \in {"github", "travis"} THEN RepoName(env) ELSE "git remote get-url origin")

(* Providers that ask git when no variable is set.                         *)
AsksGit(env) == Provider(env) \in {"git", "github", "managed", "mcp"}

PrId(env) == First(env, <<"SEMGREP_PR_ID">> \o Sources(Provider(env)).pr_id, "none")

(* The event, named as GitHub names it; an environment holds the event's   *)
(* own name as "event:<name>".                                             *)
EventName(env) ==
  LET p == Provider(env)
  IN  CASE p = "github" -> First(env, <<"pull_request", "pull_request_target", "push">>, "unknown")
        [] p = "gitlab" -> IF "merge_request_event" \in env THEN "pull_request"
                           ELSE First(env, <<"push">>, "unknown")
        [] p = "managed" /\ "SEMGREP_MANAGED_SCAN_EVENT_NAME" \in env -> "SEMGREP_MANAGED_SCAN_EVENT_NAME"
        [] OTHER -> IF PrId(env) # "none" THEN "pull_request" ELSE "unknown"

IsPullRequestEvent(env) ==
  Provider(env) = "github" /\ EventName(env) \in {"pull_request", "pull_request_target"}

(* GithubMeta.commit_sha reads a pull request's head from the event file.  *)
CommitSha(env) ==
  CASE IsPullRequestEvent(env) -> "pull_request.head.sha"
    [] Provider(env) = "github" /\ EventName(env) = "push" -> "GITHUB_SHA"
    [] OTHER -> First(env, <<"SEMGREP_COMMIT">> \o Sources(Provider(env)).commit,
                      IF AsksGit(env) \/ Provider(env) = "gitlab" THEN "git rev-parse HEAD" ELSE "none")

Branch(env) ==
  IF Provider(env) = "github" /\ EventName(env) = "pull_request_target" THEN "GITHUB_HEAD_REF"
  ELSE First(env, <<"SEMGREP_BRANCH">> \o Sources(Provider(env)).branch,
             IF AsksGit(env) THEN "git rev-parse --abbrev-ref HEAD" ELSE "none")

(* merge_base_ref: given, searched for, or none, which means a full scan.  *)
MergeBaseSource(env, cliBaseline) ==
  CASE cliBaseline                                  -> "cli"
    [] ~cliBaseline /\ IsPullRequestEvent(env)      -> "github search"
    [] ~cliBaseline /\ Provider(env) = "gitlab" /\ "CI_MERGE_REQUEST_TARGET_BRANCH_NAME" \in env
                                                    -> "gitlab fetch"
    [] OTHER                                        -> "none"

(* Only GitMeta is given the subdirectory.                                 *)
RepoDisplayName(env, subdir) ==
  IF "SEMGREP_REPO_DISPLAY_NAME" \in env THEN <<"SEMGREP_REPO_DISPLAY_NAME">>
  ELSE IF subdir /\ Provider(env) = "git" THEN <<RepoName(env), "subdir">> ELSE <<RepoName(env)>>

(* to_project_metadata: what the app learns of the project.                *)
ToProjectMetadata(env, subdir) ==
  [repository |-> RepoName(env), display_name |-> RepoDisplayName(env, subdir), url |-> RepoUrl(env),
   branch |-> Branch(env), commit |-> CommitSha(env), pull_request_id |-> PrId(env),
   on |-> EventName(env)]
=============================================================================
