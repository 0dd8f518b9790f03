------------------------------ MODULE LinterCi ------------------------------
(***************************************************************************)
(* The `ci` command of the linter (commands/ci.py) and the app it reports  *)
(* to (app/scans.py, app/session.py): the environment (CiMeta), the merge  *)
(* base of a pull request, the configuration that the app prepares, the    *)
(* installation of the pro engine (commands/install.py), the scan, the     *)
(* upload of its findings, and the exit code that the wrapper and the      *)
(* fail-open handler make of it (commands/wrapper.py, error_handler.py).   *)
(*                                                                         *)
(* Every request may be lost before or after the app handled it and is     *)
(* then sent again by the session; the job may be killed and run again on  *)
(* the same machine.                                                       *)
(***************************************************************************)
EXTENDS RuleMatch, CiMeta

CONSTANTS
  Commands,     \* command lines with their environments
  Configs,      \* configurations the app may answer with
  Outcomes,     \* [code, known, found]: what run_scan may end with
  Histories,    \* the same, for a scan of the repository's history
  Requests,     \* bound: times a request is sent (urllib3.Retry)
  Posts,        \* SEMGREP_V2_POST_MAX_ATTEMPTS
  Polls,        \* polls within SEMGREP_V2_POLL_TIMEOUT_SECONDS
  Fetches,      \* MAX_FETCH_ATTEMPT_COUNT
  Completes,    \* calls of /complete before its 30 minutes are over
  MaxKills      \* bound: times the job is killed

INVALID_API_KEY == 13

(* A request is sent at least once, --engine names an engine, and no error *)
(* of run_scan has the exit code of findings.  Within one scan a finding   *)
(* has an id of its own, for RuleMatches.add numbers the copies of one     *)
(* piece of code; two scans number their findings apart, and only those of *)
(* the history carry historical_info.                                      *)
ASSUME CiAssumption ==
  /\ Requests \in Nat \ {0}
  /\ Posts \in Nat /\ Polls \in Nat /\ Fetches \in Nat /\ Completes \in Nat /\ MaxKills \in Nat
  /\ \A c \in Commands : c.engine \in {None, "oss", "intrafile", "interfile"}
  /\ \A o \in Outcomes \cup Histories :
       /\ o.code # FINDINGS
       /\ \A m \in o.found : m.id # None
       /\ \A m, n \in o.found : m.id = n.id => m = n
  /\ \A o \in Outcomes : \A m \in o.found : ~m.history
  /\ \A o \in Histories : \A m \in o.found : m.history

NoConfig == [
  rules |-> "none", products |-> {}, alwaysSuppress |-> FALSE, nosemDisabled |-> FALSE,
  deep |-> FALSE, historical |-> FALSE, triaged |-> {}, override |-> FALSE, blockIds |-> {},
  reason |-> FALSE]

VARIABLES
  cmd,        \* the command line
  head,       \* the commit of the checkout: "found" (as found), "base" (the tip
              \* of the base branch) or "pr"
  on,         \* the branch HEAD is on: cmd.branch, or "detached"
  stashed,    \* stashed_rev of the atexit handler
  base,       \* merge_base_ref: "unknown", "none" or "commit"
  fetches,    \* attempts of _find_branchoff_point
  config,     \* ScanHandler.scan_response
  posts, polls, sends,   \* attempts made
  suppress,   \* ErrorHandler.suppress_errors
  engine,     \* "oss", "intrafile" or "interfile"
  pro,        \* files of the pro engine: [bin, tmp, stamp]
  scanned,    \* everything that the scans returned
  found,      \* FilteredMatches
  blocking,   \* blocking findings
  complete,   \* the app's answer to /complete: "none", "pass" or "override"
  app,        \* what the app stored: [scans, findings, done, failed]; a scan is
              \* kept under the id the client gave it
  code,       \* exit code on its way up
  exit, kills, pc

local == <<cmd, head, on, stashed, base, fetches>>
counters == <<posts, polls, sends>>
results == <<scanned, found, blocking, complete>>
vars == <<local, config, counters, suppress, engine, pro, results, app, code, exit, kills, pc>>

(* What the app knows a finding by.                                        *)
Entry(m) == [id |-> m.id, history |-> m.history]
NoEntry == [id |-> None, history |-> FALSE]

NotUploaded == [findings |-> {NoEntry}, ignores |-> {NoEntry}]
NoScan == [scans |-> {}, findings |-> NotUploaded, done |-> FALSE, failed |-> FALSE]
NoFindings == [kept |-> {}, removed |-> {}]
Handler == cmd.token    \* scan_handler is not None
Empty == cmd.emptyRepo /\ Handler

(* A partial scan uploads nothing yet; with --secrets the rules must come  *)
(* from the app itself.                                                    *)
DryRun == cmd.dryRun \/ cmd.partial # "none"
Saved == IF cmd.secrets THEN "none" ELSE cmd.saved

StartOfJob ==
  /\ stashed = None /\ base = "unknown" /\ fetches = 0
  /\ config = NoConfig /\ posts = 0 /\ polls = 0 /\ sends = 0
  /\ suppress = cmd.suppress /\ engine = "oss"
  /\ scanned = {} /\ found = NoFindings /\ blocking = {} /\ complete = "none"
  /\ app = NoScan
  /\ code = NoCode /\ exit = NoCode /\ pc = "usage"

Init ==
  /\ cmd \in Commands
  /\ head = "found" /\ on = cmd.branch
  /\ pro \in {[bin |-> "none", tmp |-> "none", stamp |-> "none"],
              [bin |-> "old", tmp |-> "partial", stamp |-> "old"]}
  /\ StartOfJob /\ kills = 0

Codes ==
  {NoCode, OK, FINDINGS, FATAL, MISSING_CONFIG, INVALID_API_KEY} \cup {o.code : o \in Outcomes \cup Histories}

TypeOK ==
  /\ cmd \in Commands /\ head \in {"found", "base", "pr"} /\ on \in {cmd.branch, "detached"}
  /\ stashed \in {None, "found", "base", "pr"}
  /\ base \in {"unknown", "none", "commit"} /\ fetches \in 0..Fetches
  /\ posts \in 0..Posts /\ polls \in 0..(Polls + Completes) /\ sends \in 0..(Requests - 1)
  /\ config \in Configs \cup {NoConfig}
  /\ engine \in {"oss", "intrafile", "interfile"}
  /\ pro \in [bin : {"none", "old", "partial", "whole"}, tmp : {"none", "partial", "whole"},
              stamp : {"none", "old", "current"}]
  /\ code \in Codes /\ exit \in Codes
  /\ kills \in 0..MaxKills

Goto(l) == pc' = l
Leave(c) == code' = c /\ pc' = "leave"   \* sys.exit or an exception of the wrapper

-----------------------------------------------------------------------------
(* Requests                                                                *)

(* Mutant: one request too many.                                           *)
SendOnceMore(handled, answer, failure) ==
  \/ handled /\ answer /\ sends' = 0
  \/ /\ handled \/ UNCHANGED app
     /\ IF sends < Requests
        THEN sends' = sends + 1 /\ UNCHANGED <<code, pc>>
        ELSE sends' = 0 /\ failure

(* AppSession.request with its retry adapter: `handled` is what the app    *)
(* does when the request reaches it.                                       *)
Send(handled, answer, failure) ==
  \/ handled /\ answer /\ sends' = 0
  \/ /\ handled \/ UNCHANGED app
     /\ IF sends + 1 < Requests
        THEN sends' = sends + 1 /\ UNCHANGED <<code, pc>>
        ELSE sends' = 0 /\ failure

-----------------------------------------------------------------------------
(* Before the scan                                                         *)

(* The checks of options that exclude each other, --subdir included.       *)
CheckUsage ==
  /\ pc = "usage"
  /\ IF cmd.usage = "bad" THEN Leave(FATAL) ELSE Goto("token") /\ UNCHANGED code
  /\ UNCHANGED <<local, config, counters, suppress, engine, pro, results, app, exit, kills>>

(* Rules come from the app, for which a token is needed, or from --config. *)
CheckToken ==
  /\ pc = "token"
  /\ CASE ~cmd.token /\ ~cmd.config -> Leave(INVALID_API_KEY)
       [] cmd.token /\ cmd.config   -> Leave(FATAL)
       [] OTHER -> Goto(IF Empty THEN "start" ELSE "suppress") /\ UNCHANGED code
  /\ UNCHANGED <<local, config, counters, suppress, engine, pro, results, app, exit, kills>>

(* "For account admins to force suppressing errors."                       *)
ForceSuppress ==
  /\ pc = "suppress"
  /\ suppress' = (suppress \/ (Handler /\ config.alwaysSuppress))
  /\ Goto("fix head")
  /\ UNCHANGED <<local, config, counters, engine, pro, results, app, code, exit, kills>>

(* base_branch_hash fetches the base branch into the local branch of that  *)
(* name, and into HEAD if it is on that branch (--update-head-ok).         *)
FetchBase == IF on = "base" THEN {head, "base"} ELSE {head}

(* Mutant: the way back is not registered.                                 *)
FixHeadForGood ==
  /\ pc = "fix head"
  /\ head' = (IF IsPullRequestEvent(cmd.env) THEN "pr" ELSE head)
  /\ on' = (IF IsPullRequestEvent(cmd.env) THEN "detached" ELSE on)
  /\ Goto("merge base")
  /\ UNCHANGED <<cmd, stashed, base, fetches, config, counters, suppress, engine, pro, results, app,
                 code, exit, kills>>

(* fix_head_if_github_action: fetch the head and the base branch, check    *)
(* out the head by its hash, and promise to go back to the hash it was at; *)
(* every git command may fail.                                             *)
FixHead ==
  /\ pc = "fix head"
  /\ \/ ~IsPullRequestEvent(cmd.env) /\ Goto("merge base") /\ UNCHANGED <<head, on, stashed, code>>
     \/ /\ IsPullRequestEvent(cmd.env)
        /\ \/ Leave(FATAL) /\ head' \in FetchBase /\ UNCHANGED <<on, stashed>>
           \/ /\ head' = "pr" /\ on' = "detached" /\ stashed' \in FetchBase
              /\ Goto("merge base") /\ UNCHANGED code
  /\ UNCHANGED <<cmd, base, fetches, config, counters, suppress, engine, pro, results, app, exit, kills>>

(* merge_base_ref where no search is needed.                               *)
KnownMergeBase ==
  /\ pc = "merge base"
  /\ LET source == MergeBaseSource(cmd.env, cmd.baseline)
     IN  /\ source # "github search"
         /\ \/ base' = (IF source = "none" THEN "none" ELSE "commit") /\ Goto("start") /\ UNCHANGED code
            \/ source = "gitlab fetch" /\ Leave(FATAL) /\ UNCHANGED base
  /\ UNCHANGED <<cmd, head, on, stashed, fetches, config, counters, suppress, engine, pro, results,
                 app, exit, kills>>

(* _find_branchoff_point: ask GitHub first, then fetch ever deeper until   *)
(* both branches reach their common ancestor.                              *)
SearchMergeBase ==
  /\ pc = "merge base"
  /\ MergeBaseSource(cmd.env, cmd.baseline) = "github search"
  /\ \/ base' = "commit" /\ Goto("start") /\ UNCHANGED <<fetches, code>>
     \/ fetches < Fetches /\ fetches' = fetches + 1 /\ UNCHANGED <<base, code, pc>>
     \/ Leave(FATAL) /\ UNCHANGED <<base, fetches>>
  /\ UNCHANGED <<cmd, head, on, stashed, config, counters, suppress, engine, pro, results, app, exit,
                 kills>>

(* Where the command goes once the app's configuration is there.           *)
AfterStart == IF Empty THEN "results" ELSE "rules"

HandleScanResponse == config' \in Configs /\ Goto(AfterStart) /\ UNCHANGED code

(* A saved configuration is read instead of asking the app.                *)
LoadSavedConfig ==
  \/ Saved = "present" /\ HandleScanResponse
  \/ Saved = "missing" /\ Leave(FATAL) /\ UNCHANGED config

StartSaved ==
  /\ pc = "start"
  /\ \/ ~Handler /\ Goto("engine") /\ UNCHANGED <<config, code>>
     \/ Handler /\ LoadSavedConfig
  /\ UNCHANGED <<local, counters, suppress, engine, pro, results, app, exit, kills>>

(* Mutant: a new id for every attempt.                                     *)
RequestIdsPerPost ==
  IF DryRun THEN {} ELSE {[job |-> kills, id |-> posts, meta |-> ToProjectMetadata(cmd.env, cmd.subdir)]}

(* unique_id is made once per job; the app keeps nothing of a dry run.     *)
RequestIds ==
  IF DryRun THEN {} ELSE {[job |-> kills, id |-> 0, meta |-> ToProjectMetadata(cmd.env, cmd.subdir)]}

(* _raise_if_request_failed: the app answers with an error.                *)
RequestFailed ==
  \E status \in {401, 404, 422} : Leave(IF status = 401 THEN INVALID_API_KEY ELSE FATAL)

(* POST /scans: made again under the same id, the app keeps one scan.      *)
PostScan ==
  /\ pc = "start" /\ Handler /\ Saved = "none" /\ posts < Posts
  /\ \/ /\ Send(app' = [app EXCEPT !.scans = @ \cup RequestIds], Goto("poll") /\ UNCHANGED code, Leave(FATAL))
     \/ RequestFailed /\ sends' = 0 /\ UNCHANGED app
  /\ posts' = IF sends' = 0 THEN posts + 1 ELSE posts
  /\ polls' = 0
  /\ UNCHANGED <<local, config, suppress, engine, pro, results, exit, kills>>

(* _poll_for_config_v2, one GET of the configuration.                      *)
PollConfig ==
  /\ pc = "poll" /\ polls < Polls
  /\ \/ HandleScanResponse /\ UNCHANGED polls
     \/ polls' = polls + 1 /\ UNCHANGED <<config, code, pc>>
     \/ RequestFailed /\ UNCHANGED <<config, polls>>
  /\ UNCHANGED <<local, posts, sends, suppress, engine, pro, results, app, exit, kills>>

(* _ConfigPollTimeout: post again while attempts and time are left.        *)
PollTimeout ==
  /\ pc = "poll" /\ polls = Polls
  /\ \/ posts < Posts /\ Goto("start") /\ UNCHANGED code
     \/ Leave(FATAL)
  /\ UNCHANGED <<local, config, counters, suppress, engine, pro, results, app, exit, kills>>

(* No rules configured, or a partial configuration that selects some.      *)
CheckRules ==
  /\ pc = "rules"
  /\ CASE config.rules = "none" /\ config.products \subseteq {"sast", "secrets"} ->
            Leave(MISSING_CONFIG)
       [] ~(config.rules = "none" /\ config.products \subseteq {"sast", "secrets"})
          /\ cmd.partial = "missing" -> code' = MISSING_CONFIG /\ Goto("report failure")
       [] OTHER -> Goto("engine") /\ UNCHANGED code
  /\ UNCHANGED <<local, config, counters, suppress, engine, pro, results, app, exit, kills>>

RunSecrets == cmd.secrets \/ (cmd.engine # "oss" /\ "secrets" \in config.products)

SupplyChainOnly == cmd.supplyChain /\ ~cmd.code /\ ~RunSecrets

(* EngineType.decide_engine_type: a diff scan and a scan of dependencies   *)
(* alone are never interfile.                                              *)
Decided(deep, logged, diff) ==
  LET requested == CASE cmd.engine # None -> cmd.engine
                     [] cmd.engine = None /\ deep -> "interfile"
                     [] cmd.engine = None /\ ~deep /\ (RunSecrets \/ logged) -> "intrafile"
                     [] OTHER -> "oss"
  IN  IF requested = "interfile" /\ (diff \/ SupplyChainOnly) THEN "intrafile" ELSE requested

(* --secrets needs the pro engine, and --historical-secrets the secrets.   *)
SecretsRefused ==
  \/ cmd.secrets /\ cmd.engine = "oss"
  \/ cmd.historical /\ ~RunSecrets

Installed == pro.stamp = "current" /\ pro.bin # "none"

DecideEngine ==
  /\ pc = "engine"
  /\ \/ SecretsRefused /\ Leave(FATAL) /\ UNCHANGED engine
     \/ /\ ~SecretsRefused
        /\ engine' = Decided(config.deep, Handler, base = "commit")
        /\ Goto(IF engine' # "oss" /\ ~Installed THEN "download" ELSE "scan") /\ UNCHANGED code
  /\ UNCHANGED <<local, config, counters, suppress, pro, results, app, exit, kills>>

-----------------------------------------------------------------------------
(* run_install_semgrep_pro                                                 *)

Installing == UNCHANGED <<local, config, counters, suppress, engine, results, app, exit, kills>>

(* The download goes to a file of its own, made anew; it may break off.    *)
Download ==
  /\ pc = "download"
  /\ \/ ~Handler /\ Leave(INVALID_API_KEY) /\ UNCHANGED pro
     \/ /\ Handler
        /\ \/ pro' = [pro EXCEPT !.tmp = "whole"] /\ Goto("check version") /\ UNCHANGED code
           \/ pro' = [pro EXCEPT !.tmp = "partial"] /\ Goto("check version") /\ UNCHANGED code
           \/ pro' = [pro EXCEPT !.tmp = "partial"] /\ Leave(FATAL)
           \/ (\E c \in {FATAL, INVALID_API_KEY} : Leave(c)) /\ UNCHANGED pro
  /\ Installing

(* `-pro_version` must answer; otherwise the download is thrown away.      *)
CheckVersion ==
  /\ pc = "check version"
  /\ IF pro.tmp = "whole" THEN Goto("unlink") /\ UNCHANGED <<pro, code>>
     ELSE pro' = [pro EXCEPT !.tmp = "none"] /\ Leave(FATAL)
  /\ Installing

(* Mutant: the stamp is written first.                                     *)
UnlinkOldStamped ==
  /\ pc = "unlink"
  /\ pro' = [pro EXCEPT !.stamp = "current"] /\ Goto("rename") /\ UNCHANGED code /\ Installing

UnlinkOld ==
  /\ pc = "unlink"
  /\ pro' = [pro EXCEPT !.bin = "none"] /\ Goto("rename") /\ UNCHANGED code /\ Installing

Rename ==
  /\ pc = "rename"
  /\ pro' = [pro EXCEPT !.bin = pro.tmp, !.tmp = "none"] /\ Goto("stamp") /\ UNCHANGED code /\ Installing

Stamp ==
  /\ pc = "stamp"
  /\ pro' = [pro EXCEPT !.stamp = "current"] /\ Goto("scan") /\ UNCHANGED code /\ Installing

-----------------------------------------------------------------------------
(* The scan and its findings                                               *)

(* An explicit flag wins over the organisation's setting.                  *)
EnableNosem == CASE cmd.nosem = "default" -> ~config.nosemDisabled
                 [] OTHER -> cmd.nosem = "on"

(* A scan of the history for secrets, which diff scans do without.         *)
ScansHistory ==
  /\ cmd.historical \/ (RunSecrets /\ Handler /\ config.historical)
  /\ base # "commit"

Failed(o) == code' = o.code /\ Goto(IF o.known /\ Handler THEN "report failure" ELSE "leave")

(* run_scan over the checkout.                                             *)
RunScan ==
  /\ pc = "scan"
  /\ \/ /\ Handler /\ config.products = {} /\ code' = FATAL /\ Goto("report failure")
        /\ UNCHANGED <<scanned, found>>
     \/ /\ ~Handler \/ config.products # {}
        /\ \E o \in Outcomes :
             \/ o.code # OK /\ Failed(o) /\ UNCHANGED <<scanned, found>>
             \/ /\ o.code = OK
                /\ scanned' = o.found /\ found' = FilterIgnored(o.found, ~EnableNosem \/ cmd.sarif)
                /\ Goto(IF ScansHistory THEN "history" ELSE "classify") /\ UNCHANGED code
  /\ UNCHANGED <<local, config, counters, suppress, engine, pro, blocking, complete, app, exit, kills>>

(* Of the second scan only what was kept joins the findings of the first.  *)
Merged(past) ==
  [found EXCEPT !.kept = @ \cup FilterIgnored(past, ~EnableNosem \/ cmd.sarif).kept]

(* run_scan over the history: an error of its own (SemgrepError) is shown  *)
(* and the command goes on, any other ends it.                             *)
ScanHistory ==
  /\ pc = "history"
  /\ \E o \in Histories :
       \/ /\ o.code = OK
          /\ scanned' = scanned \cup o.found /\ found' = Merged(o.found)
          /\ Goto("classify") /\ UNCHANGED code
       \/ o.code # OK /\ o.known /\ Goto("classify") /\ UNCHANGED <<scanned, found, code>>
       \/ o.code # OK /\ ~o.known /\ Leave(o.code) /\ UNCHANGED <<scanned, found>>
  /\ UNCHANGED <<local, config, counters, suppress, engine, pro, blocking, complete, app, exit, kills>>

(* Findings shown and counted: not those of the previous scan's rules, not *)
(* those triaged in the app, not those of the r2c-internal-cai rules.      *)
Shown == {m \in found.kept : ~m.transient /\ ~m.cai /\ m.id \notin (IF Handler THEN config.triaged ELSE {})}

(* Mutant: a match kept for SARIF counts.                                  *)
SuppressedNever(m) == FALSE

Suppressed(m) == EnableNosem /\ m.ignored

Classify ==
  /\ pc = "classify"
  /\ blocking' = {m \in Shown : ~Suppressed(m) /\ IsBlocking(m)}
  /\ Goto(IF Handler THEN "results" ELSE "decide")
  /\ UNCHANGED <<local, config, counters, suppress, engine, pro, scanned, found, complete, app, code,
                 exit, kills>>

(* report_findings splits by is_ignored once more, for a suppressed match  *)
(* may have been kept for SARIF; a dry run only prints.                    *)
Report ==
  LET all == found.kept \cup found.removed
  IN  [findings |-> {Entry(m) : m \in {n \in all : ~EnableNosem \/ ~n.ignored}},
       ignores  |-> {Entry(m) : m \in {n \in all : EnableNosem /\ n.ignored}}]

PostResults ==
  /\ pc = "results"
  /\ IF DryRun
     THEN /\ (IF Empty THEN Leave(OK) ELSE Goto("decide") /\ UNCHANGED code)
          /\ UNCHANGED <<app, sends>>
     ELSE Send(app' = [app EXCEPT !.findings = Report], Goto("complete") /\ UNCHANGED code, Leave(FATAL))
  /\ polls' = 0
  /\ UNCHANGED <<local, config, posts, suppress, engine, pro, results, exit, kills>>

(* Mutant: the last attempt is not announced.                              *)
PostCompleteForever ==
  /\ pc = "complete"
  /\ \/ /\ Send(app' = [app EXCEPT !.done = TRUE],
                IF Empty THEN Leave(OK) ELSE Goto("decide") /\ UNCHANGED code, Leave(FATAL))
        /\ complete' = IF pc' = "decide" /\ config.override THEN "override" ELSE complete
        /\ UNCHANGED polls
     \/ polls' = 1 - polls /\ sends' = 0 /\ UNCHANGED <<complete, app, code, pc>>
  /\ UNCHANGED <<local, config, posts, suppress, engine, pro, scanned, found, blocking, exit, kills>>

(* /complete, again and again until the app has processed the findings or  *)
(* has been told that this was the last attempt.                           *)
PostComplete ==
  /\ pc = "complete"
  /\ \/ /\ Send(app' = [app EXCEPT !.done = TRUE],
                IF Empty THEN Leave(OK) ELSE Goto("decide") /\ UNCHANGED code, Leave(FATAL))
        /\ complete' = IF pc' = "decide" /\ config.override THEN "override" ELSE complete
        /\ UNCHANGED polls
     \/ /\ polls < Completes /\ polls' = polls + 1
        /\ sends' = 0 /\ UNCHANGED <<complete, app, code, pc>>
  /\ UNCHANGED <<local, config, posts, suppress, engine, pro, scanned, found, blocking, exit, kills>>

(* report_failure                                                          *)
ReportFailure ==
  /\ pc = "report failure"
  /\ IF DryRun THEN Leave(code) /\ UNCHANGED <<app, sends>>
     ELSE Send(app' = [app EXCEPT !.failed = TRUE], Leave(code), Leave(FATAL))
  /\ UNCHANGED <<local, config, posts, polls, suppress, engine, pro, results, exit, kills>>

-----------------------------------------------------------------------------
(* The end                                                                 *)

AuditMode == EventName(cmd.env) \in cmd.auditOn
PolicyBlock == complete = "override" /\ config.blockIds # {}
OtherBlock == complete = "override" /\ config.reason

DecideExit ==
  /\ pc = "decide"
  /\ Leave(IF ~AuditMode /\ (blocking # {} \/ PolicyBlock \/ OtherBlock) THEN FINDINGS ELSE OK)
  /\ UNCHANGED <<local, config, counters, suppress, engine, pro, results, app, exit, kills>>

(* ErrorHandler.send: an error is reported to the fail-open endpoint and   *)
(* forgotten.                                                              *)
FailOpen(c) == IF ~suppress \/ c \in {OK, FINDINGS} THEN c ELSE OK

(* handle_command_errors, then the atexit handler of fix_head, whose git   *)
(* may fail: the checkout then stays where it is.                          *)
Exit ==
  /\ pc = "leave"
  /\ exit' = FailOpen(code)
  /\ \/ stashed # None /\ head' = stashed /\ stashed' = None
     \/ UNCHANGED <<head, stashed>>
  /\ Goto("done")
  /\ UNCHANGED <<cmd, on, base, fetches, config, counters, suppress, engine, pro, results, app, code,
                 kills>>

(* The job is killed, and run again from the start.                        *)
Kill ==
  /\ pc \notin {"usage", "done"} /\ kills < MaxKills
  /\ kills' = kills + 1
  /\ stashed' = None /\ base' = "unknown" /\ fetches' = 0
  /\ config' = NoConfig /\ posts' = 0 /\ polls' = 0 /\ sends' = 0
  /\ suppress' = cmd.suppress /\ engine' = "oss"
  /\ scanned' = {} /\ found' = NoFindings /\ blocking' = {} /\ complete' = "none"
  /\ app' = NoScan /\ code' = NoCode /\ Goto("usage")
  /\ UNCHANGED <<cmd, head, on, pro, exit>>

Step ==
  \/ CheckUsage \/ CheckToken \/ ForceSuppress \/ FixHead \/ KnownMergeBase \/ SearchMergeBase
  \/ StartSaved \/ PostScan \/ PollConfig \/ PollTimeout \/ CheckRules \/ DecideEngine
  \/ Download \/ CheckVersion \/ UnlinkOld \/ Rename \/ Stamp
  \/ RunScan \/ ScanHistory \/ Classify \/ PostResults \/ PostComplete \/ ReportFailure
  \/ DecideExit \/ Exit

Next == Step \/ Kill

Spec == Init /\ [][Next]_vars
FairSpec == Spec /\ WF_vars(Step)

-----------------------------------------------------------------------------
(* Properties                                                              *)

(* Everything that a nosemgrep comment suppresses.                         *)
Silenced == {m \in scanned : EnableNosem /\ m.ignored}

(* Whatever requests are lost, repeated or given up: the app holds one     *)
(* scan per job, a scan is complete only with its findings and never both  *)
(* complete and failed, and a dry run leaves no trace.  Everything that    *)
(* either scan found reaches the app, as a finding or as ignored but never *)
(* as both, and as ignored only what a nosemgrep comment suppresses        *)
(* (start_scan_v2, report_findings).  One exception: what is suppressed in *)
(* the history never reaches it, for ci merges no removed matches, unless  *)
(* they were kept for SARIF.  What is both in the checkout and in the      *)
(* history reaches it twice, under one id.                                 *)
AppStaysConsistent ==
  /\ Cardinality({s \in app.scans : s.job = kills}) <= 1
  /\ app.done => app.findings # NotUploaded /\ ~app.failed
  /\ DryRun => app = NoScan
  /\ app.findings # NotUploaded =>
       /\ app.findings.findings = {Entry(m) : m \in scanned \ Silenced}
       /\ app.findings.ignores = {Entry(m) : m \in {n \in Silenced : cmd.sarif \/ ~n.history}}
       /\ app.findings.findings \cap app.findings.ignores = {}

(* The verdict, before errors are suppressed: FINDINGS if and only if a    *)
(* blocking finding that is neither suppressed nor triaged was found, in   *)
(* the checkout or in the history, or the app says so, outside audit mode. *)
VerdictMatchesFindings ==
  pc = "done" /\ code \in {OK, FINDINGS} /\ ~Empty =>
    (code = FINDINGS <=>
       /\ ~AuditMode
       /\ \/ \E m \in scanned \ Silenced :
               IsBlocking(m) /\ ~m.transient /\ ~m.cai /\ m.id \notin config.triaged
          \/ complete = "override" /\ (config.blockIds # {} \/ config.reason))

(* A pro engine that will be used passed its version check, even if a job  *)
(* was killed while it was installed.                                      *)
InstalledIsWhole == pro.stamp = "current" /\ pro.bin # "none" => pro.bin = "whole"

(* On a pull request the commit that is scanned is the one reported to the *)
(* app, and no branch is ever moved onto it.  A job that was not killed    *)
(* and whose way back did not fail leaves the checkout at the commit where *)
(* it was.  Two exceptions: a checkout that was on the base branch itself  *)
(* is left at the tip that was fetched into it, and the way back is by     *)
(* hash, so one that was on a branch may be left off it - but only by a    *)
(* pull request (fix_head_if_github_action, _shallow_fetch_branch).        *)
HeadFollowsPullRequest ==
  /\ pc \in {"scan", "history", "classify", "results"} /\ ~Empty
     /\ CommitSha(cmd.env) = "pull_request.head.sha" => head = "pr"
  /\ head = "pr" => on = "detached"
  /\ pc = "done" /\ kills = 0 /\ stashed = None =>
       head = "found" \/ (head = "base" /\ cmd.branch = "base")
  /\ on # cmd.branch => IsPullRequestEvent(cmd.env)

(* Polls, attempts and retries are all bounded: the command ends.          *)
CommandEnds == <>(pc = "done")
=============================================================================
