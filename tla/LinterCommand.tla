---------------------------- MODULE LinterCommand ----------------------------
(***************************************************************************)
(* The commands of the linter's Python command line around the scan        *)
(* proper: the entry point, which prefers the engine's own command line    *)
(* and may install the Pro engine; the user settings, which every command  *)
(* reads and writes back when it starts; `login`, `publish` and            *)
(* `scan` with its --version, --validate and --test; the version check     *)
(* and its cache; and the wrapper that makes an exit code of what a        *)
(* command returned or raised.  Commands of one user run at the same time  *)
(* and share the settings file and the cache; any of them may be killed.   *)
(*                                                                         *)
(* LinterScan and LinterCi have what `scan` and `ci` do; here they only    *)
(* have an outcome.                                                        *)
(***************************************************************************)
EXTENDS LinterTest

CONSTANTS
  Procs,        \* command processes
  Starts,       \* what there is at first: [job, home, settings, pro]
  FirstApp,     \* what the app answers to a version check, at first
  NextApp,      \*   and after a release
  Version,      \* __VERSION__
  Accepted,     \* tokens the app accepts
  MAX_RETRIES,  \* of a login
  MaxKills      \* bound: processes killed

None == "none"
NoCode == -1
OK == 0
FINDINGS == 1
FATAL == 2

VARIABLES
  job,          \* the command line of each process
  home,         \* "writable" or "readonly": the directories of the files
  settings,     \* the settings file
  cache,        \* the file of the version check
  app,          \* what the app answers to a version check
  pro,          \* the Pro engine beside the package: "absent", "stale", "current"
  pc,           \* where each process is
  back,         \* where it goes on after a save or a read of the cache
  own,          \* what each process holds
  test,         \* what a process that runs tests holds
  exit,         \* exit code of each process
  notified,     \* a notice of the metrics was shown
  muted,        \* one was logged while --quiet let nothing through
  kills

files == <<home, settings, cache, app, pro>>
control == <<pc, back, exit>>
vars == <<job, files, control, own, test, notified, muted, kills>>

(* The settings file: absent, torn, YAML that is no mapping, or settings.  *)
NoFile == [api_token |-> "no file", shown |-> FALSE]
Torn == [api_token |-> "torn", shown |-> FALSE]
NotMapping == [api_token |-> "not a mapping", shown |-> FALSE]
DefaultSettings == [api_token |-> None, shown |-> FALSE]

(* The cache: the time in its first line, its second line, and whether     *)
(* that is the JSON of one whole answer.                                   *)
NoCache == [stamp |-> None, banners |-> {}, msg |-> None, len |-> 0, json |-> FALSE]
NoAnswer == NoCache
TornBanner == [msg |-> "torn", show |-> 0, hide |-> 0, conditional |-> FALSE]

NoTest == [targets |-> << >>, output |-> << >>, copies |-> << >>, fixer |-> << >>]
Fresh == [mem |-> DefaultSettings, token |-> None, latest |-> NoAnswer, shown |-> {},
          installed |-> FALSE, polls |-> 0, candidate |-> None, wrote |-> {},
          outcome |-> [found |-> "none", code |-> OK], uploaded |-> {}]

cmd(p) == job[p]

(* What is in the settings file and in an answer of the app; no error has  *)
(* the code of findings.                                                   *)
ASSUME CommandAssumption ==
  /\ None \notin Accepted /\ Torn.api_token \notin Accepted
  /\ MAX_RETRIES \in Nat
  /\ \A a \in {FirstApp, NextApp} :
       a = [stamp |-> None, banners |-> a.banners, msg |-> a.msg, len |-> a.len, json |-> TRUE]
  /\ \A s \in Starts :
       /\ s.settings = [api_token |-> s.settings.api_token, shown |-> s.settings.shown]
       /\ s.settings.shown \in BOOLEAN /\ s.settings.api_token # Torn.api_token
       /\ s.pro \in {"absent", "stale", "current"}
       /\ \A p \in Procs :
            /\ s.job[p].name \in {"scan", "ci", "login", "publish"}
            /\ IsFiniteSet(DOMAIN s.job[p].tree)
            /\ \A o \in s.job[p].outcomes :
                 o = [found |-> o.found, code |-> o.code] /\ o.code \in (0 .. 13) \ {FINDINGS}

Init ==
  /\ \E s \in Starts : /\ job = s.job /\ home = s.home
                        /\ settings = s.settings /\ pro = s.pro
  /\ cache \in {NoCache, [FirstApp EXCEPT !.stamp = "old"]}
  /\ app = FirstApp
  /\ pc = [p \in Procs |-> "main"]
  /\ back = [p \in Procs |-> None]
  /\ own = [p \in Procs |-> Fresh]
  /\ test = [p \in Procs |-> NoTest]
  /\ exit = [p \in Procs |-> NoCode]
  /\ notified = settings.shown /\ muted = FALSE
  /\ kills = 0

FirstSettings == {s.settings : s \in Starts}
Tokens == {None} \cup Accepted \cup {job[p].app_token : p \in Procs}
                 \cup {job[p].request : p \in Procs} \cup {s.api_token : s \in FirstSettings}

(* Every process installs the Pro engine at most once.                     *)
TypeOK ==
  /\ settings \in FirstSettings \cup [api_token : Tokens, shown : BOOLEAN]
  /\ pro \in {"absent", "stale", "current"}
  /\ \A p \in Procs :
       /\ exit[p] \in {NoCode} \cup 0 .. 13
       /\ (exit[p] = NoCode) = (pc[p] # "done")
       /\ own[p].mem \in [api_token : Tokens, shown : BOOLEAN]
       /\ own[p].polls \in 0 .. MAX_RETRIES
       /\ own[p].candidate \in Tokens
       /\ DOMAIN test[p].copies \subseteq UNION {test[p].targets[c] : c \in DOMAIN test[p].targets}

At(p, l) == pc[p] = l
Goto(p, l) == pc' = [pc EXCEPT ![p] = l] /\ UNCHANGED <<back, exit>>
Call(p, l, r) == /\ pc' = [pc EXCEPT ![p] = l]
                 /\ back' = [back EXCEPT ![p] = r]
                 /\ UNCHANGED exit
Return(p) == Goto(p, back[p])

(* handle_command_errors: metrics.send never raises.                       *)
Leave(p, code) == /\ pc' = [pc EXCEPT ![p] = "done"]
                  /\ exit' = [exit EXCEPT ![p] = code]
                  /\ UNCHANGED back

(* ErrorHandler.send: a `ci` that suppresses errors exits with 0 on them.  *)
FailOpen(p, code) ==
  IF cmd(p).name = "ci" /\ cmd(p).suppress_errors /\ code \notin {OK, FINDINGS} THEN OK ELSE code

Hold(p, field, value) == own' = [own EXCEPT ![p][field] = value]

-----------------------------------------------------------------------------
(* The entry point                                                         *)

(* main: --legacy runs the Python command line, otherwise the engine is    *)
(* asked first.                                                            *)
Main(p) ==
  /\ At(p, "main")
  /\ IF cmd(p).entry = "legacy" THEN Call(p, "start", "authenticate") ELSE Goto(p, "find core")
  /\ UNCHANGED <<job, files, own, test, notified, muted, kills>>

(* find_semgrep_core_path: the Pro engine has to be of this version.       *)
CoreFound(p) == cmd(p).entry = "pro" => pro = "current"

(* exec_osemgrep: without the Pro engine `ci` goes on in Python and other  *)
(* commands first ask whether the user is logged in.                       *)
ExecOsemgrep(p) ==
  /\ At(p, "find core")
  /\ CASE CoreFound(p) -> Goto(p, "core")
       [] ~CoreFound(p) /\ cmd(p).name = "ci" -> Call(p, "start", "authenticate")
       [] OTHER -> Call(p, "start", "auto install")
  /\ UNCHANGED <<job, files, own, test, notified, muted, kills>>

(* The engine's command line runs the command itself, or execs the Python  *)
(* one.                                                                    *)
Core(p) ==
  /\ At(p, "core")
  /\ \/ cmd(p).ported /\ \E c \in {OK, FATAL} : Leave(p, c)
     \/ ~cmd(p).ported /\ Call(p, "start", "authenticate")
  /\ UNCHANGED <<job, files, own, test, notified, muted, kills>>

(* get_token, is_logged_in_weak.                                           *)
Token(p) == IF cmd(p).app_token # None THEN cmd(p).app_token ELSE own[p].mem.api_token
LoggedInWeak(p) == Token(p) # None

(* The user has to be logged in; a retry does not install again.           *)
AutoInstall(p) ==
  /\ At(p, "auto install")
  /\ IF ~LoggedInWeak(p) \/ own[p].installed
     THEN Leave(p, FATAL)
     ELSE Call(p, "start", "install")
  /\ UNCHANGED <<job, files, own, test, notified, muted, kills>>

(* install-semgrep-pro (LinterCi has its steps) may fail, or succeed and   *)
(* yet leave the Pro engine out of reach; then the command is retried.     *)
Install(p) ==
  /\ At(p, "install")
  /\ \/ Leave(p, FATAL) /\ UNCHANGED <<own, pro>>
     \/ /\ pro' \in {"current", pro}
        /\ Hold(p, "installed", TRUE)
        /\ Goto(p, "find core")
  /\ UNCHANGED <<job, home, settings, cache, app, test, notified, muted, kills>>

-----------------------------------------------------------------------------
(* The settings                                                            *)

(* get_default_contents: a torn file is YAML no parser accepts, and ends   *)
(* the process before the wrapper.                                         *)
ReadSettings(p) ==
  /\ At(p, "start")
  /\ IF settings = Torn THEN Leave(p, FINDINGS) /\ UNCHANGED own
     ELSE /\ Hold(p, "mem", IF settings \in {NoFile, NotMapping} THEN DefaultSettings ELSE settings)
          /\ Goto(p, "save")
  /\ UNCHANGED <<job, files, test, notified, muted, kills>>

(* Mutant: the file is written in place, as the version cache is.          *)
SaveInPlace(p) ==
  /\ At(p, "save")
  /\ IF home # "writable" THEN Return(p) /\ UNCHANGED settings
     ELSE Goto(p, "replace") /\ settings' = Torn
  /\ UNCHANGED <<job, home, cache, app, pro, own, test, notified, muted, kills>>

(* Settings.save, up to the file it renames; PermissionError is ignored.   *)
Save(p) ==
  /\ At(p, "save")
  /\ IF home # "writable" THEN Return(p) ELSE Goto(p, "replace")
  /\ UNCHANGED <<job, files, own, test, notified, muted, kills>>

Replace(p) ==
  /\ At(p, "replace")
  /\ settings' = own[p].mem
  /\ Hold(p, "wrote", own[p].wrote \cup {own[p].mem.api_token})
  /\ Return(p)
  /\ UNCHANGED <<job, home, cache, app, pro, test, notified, muted, kills>>

(* cli: AppSession.authenticate, then the subcommand.                      *)
Authenticate(p) ==
  /\ At(p, "authenticate")
  /\ Hold(p, "token", Token(p))
  /\ Goto(p, cmd(p).name)
  /\ UNCHANGED <<job, files, test, notified, muted, kills>>

-----------------------------------------------------------------------------
(* login                                                                   *)

Login(p) ==
  /\ At(p, "login")
  /\ LET saved == own[p].mem.api_token
         env == cmd(p).app_token
     IN  IF ~cmd(p).force /\ saved \in {None, env} /\ env # None
         THEN Hold(p, "candidate", env) /\ Goto(p, "save token")
         ELSE /\ CASE cmd(p).force -> Goto(p, "poll")
                   [] ~cmd(p).force /\ saved # None -> Leave(p, OK)
                   [] OTHER -> IF cmd(p).tty THEN Goto(p, "poll") ELSE Leave(p, FATAL)
              /\ UNCHANGED own
  /\ UNCHANGED <<job, files, test, notified, muted, kills>>

(* Mutant: the loop ends only with an answer.                              *)
PollForever(p) ==
  /\ At(p, "poll")
  /\ \/ Leave(p, FATAL) /\ UNCHANGED own
     \/ Hold(p, "polls", own[p].polls + 1) /\ Goto(p, "poll")
     \/ Hold(p, "candidate", cmd(p).request) /\ Goto(p, "save token")
  /\ UNCHANGED <<job, files, test, notified, muted, kills>>

(* One request of the loop: it raises, or the answer has the token or is   *)
(* 404 or an error; the loop ends after MAX_RETRIES.                       *)
Poll(p) ==
  /\ At(p, "poll")
  /\ \/ Leave(p, FATAL) /\ UNCHANGED own
     \/ /\ own[p].polls < MAX_RETRIES
        /\ \/ Hold(p, "polls", own[p].polls + 1) /\ Goto(p, "poll")
           \/ Hold(p, "candidate", cmd(p).request) /\ Goto(p, "save token")
  /\ UNCHANGED <<job, files, test, notified, muted, kills>>

(* Mutant: the token is set, and saved by whichever command saves next.    *)
SaveTokenLater(p) ==
  /\ At(p, "save token")
  /\ \/ Leave(p, FATAL) /\ UNCHANGED own
     \/ /\ own[p].candidate \in Accepted
        /\ own' = [own EXCEPT ![p].mem.api_token = own[p].candidate]
        /\ Goto(p, "saved")
  /\ UNCHANGED <<job, files, test, notified, muted, kills>>

(* save_token: the app has to know a deployment of the token.              *)
SaveToken(p) ==
  /\ At(p, "save token")
  /\ \/ Leave(p, FATAL) /\ UNCHANGED own
     \/ /\ own[p].candidate \in Accepted
        /\ own' = [own EXCEPT ![p].mem.api_token = own[p].candidate]
        /\ Call(p, "save", "saved")
  /\ UNCHANGED <<job, files, test, notified, muted, kills>>

Saved(p) ==
  /\ At(p, "saved")
  /\ Leave(p, OK)
  /\ UNCHANGED <<job, files, own, test, notified, muted, kills>>

-----------------------------------------------------------------------------
(* publish                                                                 *)

Configs(p) == LET found == GetConfigFilenames(cmd(p).tree, cmd(p).config)
              IN  IF found = {} THEN {cmd(p).config} ELSE found

(* _upload_rule: one rule, valid, in a file that is there.                 *)
Publishable(p, c) == /\ c \in DOMAIN cmd(p).tree
                     /\ cmd(p).tree[c].yaml = "valid"
                     /\ Cardinality(cmd(p).tree[c].rules) = 1

(* The app may refuse any upload, and a request may raise.                 *)
Publish(p) ==
  /\ At(p, "publish")
  /\ IF \/ own[p].token = None
        \/ cmd(p).public /\ (Cardinality(Configs(p)) # 1 \/ ~cmd(p).registry_id)
     THEN Leave(p, FATAL) /\ UNCHANGED own
     ELSE \E sent \in SUBSET {c \in Configs(p) : Publishable(p, c)} :
            /\ Hold(p, "uploaded", sent)
            /\ Leave(p, IF sent = Configs(p) THEN OK ELSE FATAL)
  /\ UNCHANGED <<job, files, test, notified, muted, kills>>

-----------------------------------------------------------------------------
(* scan                                                                    *)

(* Metrics.configure and is_enabled, before any configuration is resolved: *)
(* whether the registry is used is not known yet.                          *)
MetricsEnabled(p) ==
  LET state == CASE cmd(p).x_mcp -> "off"
                 [] ~cmd(p).x_mcp /\ cmd(p).metrics = None -> "auto"
                 [] OTHER -> cmd(p).metrics
  IN  state = "on" \/ (state = "auto" /\ own[p].token # None)

Phase(p) == IF cmd(p).mode = "scan" THEN "run scan" ELSE cmd(p).mode

(* What a completed scan exits with: `ci` in audit mode, and a scan        *)
(* without --error, do not block on findings.                              *)
Blocks(p, o) == o.found # None /\ cmd(p).error_on_findings
ExitCode(p) == IF cmd(p).name = "ci" /\ Blocks(p, own[p].outcome) THEN FINDINGS ELSE OK

CheckVersion(p) == IF cmd(p).version_check THEN Call(p, "read cache", "banners") ELSE Leave(p, OK)

(* --version, --dump-engine-path and the options that abort.  The log may  *)
(* be in a directory that is not writable: terminal.configure then raises. *)
Scan(p) ==
  /\ At(p, "scan")
  /\ CASE cmd(p).mode = "version" -> CheckVersion(p)
       [] cmd(p).mode = "engine path" -> Leave(p, OK)
       [] cmd(p).mode \in {"scan", "validate", "test"} /\ ~cmd(p).unusable ->
            Goto(p, "notify") \/ (home # "writable" /\ Leave(p, FATAL))
       [] OTHER -> Leave(p, FATAL)
  /\ UNCHANGED <<job, files, own, test, notified, muted, kills>>

(* possibly_notify_user: under --quiet the warning reaches no handler.     *)
Notify(p) ==
  /\ At(p, "notify")
  /\ IF MetricsEnabled(p) /\ ~own[p].mem.shown
     THEN /\ notified' = (notified \/ ~cmd(p).quiet)
          /\ muted' = (muted \/ cmd(p).quiet)
          /\ Goto(p, "claim")
     ELSE Goto(p, Phase(p)) /\ UNCHANGED <<notified, muted>>
  /\ UNCHANGED <<job, files, own, test, kills>>

(* Then the settings say that it was shown.                                *)
Claim(p) ==
  /\ At(p, "claim")
  /\ own' = [own EXCEPT ![p].mem.shown = TRUE]
  /\ Call(p, "save", Phase(p))
  /\ UNCHANGED <<job, files, test, notified, muted, kills>>

(* run_scan and OutputHandler.output; cmd.outcomes is what LinterScan may  *)
(* make of it.                                                             *)
RunScan(p) ==
  /\ At(p, "run scan")
  /\ \E o \in cmd(p).outcomes :
       /\ Hold(p, "outcome", o)
       /\ CASE Blocks(p, o) -> Leave(p, FINDINGS)
            [] ~Blocks(p, o) /\ o.code # OK -> Leave(p, o.code)
            [] OTHER -> CheckVersion(p)
  /\ UNCHANGED <<job, files, test, notified, muted, kills>>

(* --validate: the errors of the configuration and of semgrep-core, with   *)
(* the code of the last.                                                   *)
Validate(p) ==
  /\ At(p, "validate")
  /\ \E o \in cmd(p).outcomes :
       /\ Hold(p, "outcome", [found |-> None, code |-> o.code])
       /\ IF o.code # OK THEN Leave(p, o.code) ELSE CheckVersion(p)
  /\ UNCHANGED <<job, files, test, notified, muted, kills>>

(* `ci`: an error ends it, with its code; a completed scan goes on to the  *)
(* version check with the code it will exit with.                          *)
Ci(p) ==
  /\ At(p, "ci")
  /\ \/ home # "writable" /\ Leave(p, FailOpen(p, FATAL)) /\ UNCHANGED own
     \/ \E o \in cmd(p).outcomes :
          /\ Hold(p, "outcome", o)
          /\ CASE o.code # OK -> Leave(p, FailOpen(p, o.code))
               [] o.code = OK /\ cmd(p).version_check -> Call(p, "read cache", "banners")
               [] OTHER -> Leave(p, IF Blocks(p, o) THEN FINDINGS ELSE OK)
  /\ UNCHANGED <<job, files, test, notified, muted, kills>>

-----------------------------------------------------------------------------
(* The version check (app/version.py)                                      *)

(* Mutant: the second line is taken for the JSON of an answer.             *)
ReadCacheUnchecked(p) ==
  /\ At(p, "read cache")
  /\ LET cached == IF cache.stamp = "fresh" THEN cache ELSE NoAnswer
     IN  /\ Hold(p, "latest", cached)
         /\ CASE cached # NoAnswer -> Goto(p, "open cache")
              [] cached = NoAnswer /\ back[p] # "no findings" -> Goto(p, "fetch")
              [] OTHER -> Return(p)
  /\ UNCHANGED <<job, files, test, notified, muted, kills>>

(* _get_latest_version: the cache of the last day, else the app, which the *)
(* message for no findings does not ask.                                   *)
ReadCache(p) ==
  /\ At(p, "read cache")
  /\ LET cached == IF cache.stamp = "fresh" /\ cache.json THEN cache ELSE NoAnswer
     IN  /\ Hold(p, "latest", cached)
         /\ CASE cached # NoAnswer -> Goto(p, "open cache")
              [] cached = NoAnswer /\ back[p] # "no findings" -> Goto(p, "fetch")
              [] OTHER -> Return(p)
  /\ UNCHANGED <<job, files, test, notified, muted, kills>>

(* _fetch_latest_version: any failure is no answer.                        *)
Fetch(p) ==
  /\ At(p, "fetch")
  /\ \/ Hold(p, "latest", app) /\ Goto(p, "open cache")
     \/ Return(p) /\ UNCHANGED own
  /\ UNCHANGED <<job, files, test, notified, muted, kills>>

(* The cache is written in place, also when it was just read: open         *)
(* truncates it.  Only log_findings survives a cache it may not write.     *)
OpenCache(p) ==
  /\ At(p, "open cache")
  /\ CASE home = "writable" -> Goto(p, "write cache") /\ cache' = NoCache
       [] home # "writable" /\ back[p] = "banners" -> Leave(p, FailOpen(p, FATAL)) /\ UNCHANGED cache
       [] OTHER -> Leave(p, OK) /\ UNCHANGED cache
  /\ UNCHANGED <<job, home, settings, app, pro, own, test, notified, muted, kills>>

(* The file is written from its start when it is closed; what another      *)
(* process wrote since and is longer stays behind it.                      *)
WriteCache(p) ==
  /\ At(p, "write cache")
  /\ LET new == [own[p].latest EXCEPT !.stamp = "fresh"]
     IN  cache' = IF new.len >= cache.len THEN new
                  ELSE [cache EXCEPT !.banners = {TornBanner}, !.msg = "torn", !.json = FALSE]
  /\ Return(p)
  /\ UNCHANGED <<job, home, settings, app, pro, own, test, notified, muted, kills>>

(* _get_version_filtered_banners; 0 is a bound that is not there, -1 one   *)
(* that is no version.                                                     *)
FilteredBanners(answer) ==
  {b \in answer.banners : /\ b.show # -1 /\ b.hide # -1
                          /\ b.show = 0 \/ Version >= b.show
                          /\ b.hide = 0 \/ Version < b.hide}

Shows(p, messages) == Hold(p, "shown", own[p].shown \cup messages)

(* _show_banners, then, in a scan, log_findings.                           *)
ShowBanners(p) ==
  /\ At(p, "banners")
  /\ Shows(p, {b.msg : b \in {f \in FilteredBanners(own[p].latest) : ~f.conditional}})
  /\ LET logs == cmd(p).name = "scan" /\ cmd(p).mode # "version"
     IN  CASE logs /\ own[p].outcome.found = None -> Call(p, "read cache", "no findings")
           [] logs /\ own[p].outcome.found = "many" -> Call(p, "read cache", "too many findings")
           [] OTHER -> Leave(p, ExitCode(p))
  /\ UNCHANGED <<job, files, test, notified, muted, kills>>

(* get_no_findings_msg and get_too_many_findings_msg.                      *)
LogFindings(p) ==
  /\ pc[p] \in {"no findings", "too many findings"}
  /\ LET latest == own[p].latest
     IN  Shows(p, IF latest = NoAnswer THEN {}
                  ELSE IF pc[p] = "no findings" THEN {latest.msg}
                  ELSE {b.msg : b \in {f \in FilteredBanners(latest) : f.conditional}})
  /\ Leave(p, OK)
  /\ UNCHANGED <<job, files, test, notified, muted, kills>>

-----------------------------------------------------------------------------
(* scan --test                                                             *)

FixPairs(p) == GetConfigFixtestFilenames(cmd(p).tree, cmd(p).target, test[p].targets)

(* test_main and the first pool of generate_test_results: the workers only *)
(* read, and the scan of any configuration may fail.                       *)
TestConfigs(p) ==
  /\ At(p, "test")
  /\ LET tree == cmd(p).tree
         targets == GetConfigTestFilenames(tree, cmd(p).config, cmd(p).target)
     IN  IF \/ cmd(p).outputs
            \/ cmd(p).roots # 1
            \/ ~cmd(p).config_given /\ cmd(p).target \in DOMAIN tree
            \/ TargetsRaise(tree, cmd(p).config, cmd(p).target)
            \/ FixtestsRaise(tree, cmd(p).target, targets)
         THEN Leave(p, FATAL) /\ UNCHANGED test
         ELSE /\ \E failed \in SUBSET DOMAIN targets :
                   test' = [test EXCEPT ![p] =
                     [@ EXCEPT !.targets = targets,
                               !.output = [c \in {d \in DOMAIN targets : targets[d] # {}} |->
                                  InvokeSemgrepMulti(tree, c, targets[c], cmd(p).errors, c \in failed)]]]
              /\ Goto(p, "compare")
  /\ UNCHANGED <<job, files, own, notified, muted, kills>>

Tested(p) == {c \in DOMAIN test[p].output : ~test[p].output[c].error}

TemporaryCopies(tree, targets) == [t \in targets |-> tree[t].text]

(* A target two configurations fix has one copy, which both of them edit;  *)
(* the copy that was made for the first is left in the temporary directory. *)
TestCompare(p) ==
  /\ At(p, "compare")
  /\ LET tree == cmd(p).tree
         pairs == FixPairs(p)
         workers == UNION {{<<c, pair[1]>> : pair \in pairs[c]} : c \in DOMAIN pairs}
     IN  CASE \E c \in Tested(p) : CheckRuleIdMismatch(tree, test[p].output[c].found) ->
                Leave(p, EXIT_FAILURE) /\ UNCHANGED test
           [] ConfigContainsFixKeyRaises(tree, pairs) -> Leave(p, FATAL) /\ UNCHANGED test
           [] OTHER ->
                /\ test' = [test EXCEPT ![p] =
                     [@ EXCEPT !.copies = TemporaryCopies(tree, {w[2] : w \in workers}),
                               !.fixer = [w \in workers |->
                                            [at |-> IF tree[w[1]].yaml = "valid" THEN "scan" ELSE "failed",
                                             lines |-> {}, text |-> << >>]]]]
                /\ Goto(p, "fix")
  /\ UNCHANGED <<job, files, own, notified, muted, kills>>

Fixer(p, w) == test[p].fixer[w]
FixStep(p) == UNCHANGED <<job, files, control, own, notified, muted, kills>>

(* The second pool: a worker scans the copy, and semgrep-core reads it     *)
(* again and writes it with the fixes.  Nobody looks at the error of a     *)
(* scan that fails.                                                        *)
FixScan(p, w) ==
  /\ At(p, "fix") /\ Fixer(p, w).at = "scan"
  /\ \/ test' = [test EXCEPT ![p].fixer[w] =
            [@ EXCEPT !.at = "read", !.lines = LinesToFix(test[p].copies[w[2]], Fixing(cmd(p).tree[w[1]]))]]
     \/ test' = [test EXCEPT ![p].fixer[w] = [@ EXCEPT !.at = "failed"]]
  /\ FixStep(p)

FixRead(p, w) ==
  /\ At(p, "fix") /\ Fixer(p, w).at = "read"
  /\ test' = [test EXCEPT ![p].fixer[w] = [@ EXCEPT !.at = "write", !.text = test[p].copies[w[2]]]]
  /\ FixStep(p)

FixWrite(p, w) ==
  /\ At(p, "fix") /\ Fixer(p, w).at = "write"
  /\ test' = [test EXCEPT ![p] =
       [@ EXCEPT !.copies[w[2]] = ApplyFixes(Fixer(p, w).text, Fixer(p, w).lines),
                 !.fixer[w].at = "done"]]
  /\ FixStep(p)

(* The exit code, once the fixed copies were compared; of two fix tests    *)
(* for one target either may be the one it is compared with.               *)
EndTests(p) ==
  /\ At(p, "fix")
  /\ \A w \in DOMAIN test[p].fixer : Fixer(p, w).at \in {"done", "failed"}
  /\ LET tree == cmd(p).tree
         pairs == UNION {FixPairs(p)[c] : c \in DOMAIN FixPairs(p)}
         copies == test[p].copies
         strictError == cmd(p).strict /\ Tested(p) # DOMAIN test[p].output
         anyFailures == \E c \in Tested(p) : AnyFailures(tree, test[p].output[c])
     IN  \E fixtest \in [DOMAIN copies -> {pair[2] : pair \in pairs}] :
           /\ \A t \in DOMAIN copies : <<t, fixtest[t]>> \in pairs
           /\ LET anyFixtestFailures == \E t \in DOMAIN copies : copies[t] # tree[fixtest[t]].text
              IN  Leave(p, IF strictError \/ anyFailures \/ anyFixtestFailures THEN 1 ELSE OK)
  /\ UNCHANGED <<job, files, own, test, notified, muted, kills>>

-----------------------------------------------------------------------------
(* The world                                                               *)

(* A process dies with its pool, as on SIGKILL.                            *)
Kill(p) ==
  /\ kills < MaxKills
  /\ pc[p] \notin {"done", "killed"}
  /\ pc' = [pc EXCEPT ![p] = "killed"]
  /\ kills' = kills + 1
  /\ UNCHANGED <<job, files, back, own, test, exit, notified, muted>>

(* More than a day after the cache was written.                            *)
DayPasses ==
  /\ cache.stamp = "fresh"
  /\ cache' = [cache EXCEPT !.stamp = "old"]
  /\ UNCHANGED <<job, home, settings, app, pro, control, own, test, notified, muted, kills>>

AppReleases ==
  /\ app = FirstApp /\ app' = NextApp
  /\ UNCHANGED <<job, home, settings, cache, pro, control, own, test, notified, muted, kills>>

Next ==
  \/ \E p \in Procs :
       \/ Main(p) \/ ExecOsemgrep(p) \/ Core(p) \/ AutoInstall(p) \/ Install(p)
       \/ ReadSettings(p) \/ Save(p) \/ Replace(p) \/ Authenticate(p)
       \/ Login(p) \/ Poll(p) \/ SaveToken(p) \/ Saved(p) \/ Publish(p) \/ Ci(p)
       \/ Scan(p) \/ Notify(p) \/ Claim(p) \/ RunScan(p) \/ Validate(p)
       \/ ReadCache(p) \/ Fetch(p) \/ OpenCache(p) \/ WriteCache(p)
       \/ ShowBanners(p) \/ LogFindings(p)
       \/ TestConfigs(p) \/ TestCompare(p) \/ EndTests(p)
       \/ \E w \in DOMAIN test[p].fixer : FixScan(p, w) \/ FixRead(p, w) \/ FixWrite(p, w)
       \/ Kill(p)
  \/ DayPasses \/ AppReleases

Spec == Init /\ [][Next]_vars

-----------------------------------------------------------------------------
(* Properties                                                              *)

(* Whoever is killed, and whichever commands save at the same time, the    *)
(* settings file holds the whole settings of one command; its token is one *)
(* the app accepted or the one it had at first; and when it says that the  *)
(* notice of the metrics was shown, then one was shown, or was logged by a *)
(* command whose --quiet let no warning through: that one is recorded as   *)
(* shown although nobody saw it (settings.py, notifications.py:37-48).     *)
SettingsAreSound ==
  /\ settings # Torn
  /\ settings.api_token \in Accepted \cup {s.api_token : s \in FirstSettings} \cup {None}
  /\ settings.shown => notified \/ muted

(* Although commands write the cache of the version check over each other, *)
(* die half way, and read it at any time, a message that is shown came     *)
(* whole from the app (version.py).                                        *)
ShownIsWhole ==
  \A p \in Procs :
    own[p].shown \subseteq UNION {{a.msg} \cup {b.msg : b \in a.banners} : a \in {FirstApp, NextApp}}

Done(p, name, mode, code) ==
  pc[p] = "done" /\ exit[p] = code /\ cmd(p).name = name /\ cmd(p).mode = mode

AsAnnotated(p, c) ==
  LET tree == cmd(p).tree
      Skipped(t) == Annotated(tree[t].text, {"todoruleid", "todook"})
  IN  \A t \in DOMAIN test[p].output[c].found :
        test[p].output[c].found[t] \ Skipped(t) = Annotated(tree[t].text, {"ruleid"}) \ Skipped(t)

(* What is to be fixed in a target, and with what it is compared.          *)
FixesOf(p, t) == UNION {{<<c, pair[2]>> : pair \in {x \in FixPairs(p)[c] : x[1] = t}} : c \in DOMAIN FixPairs(p)}
Ambiguous(p, t) == \E a, b \in FixesOf(p, t) : a # b

AsFixed(p, t) ==
  LET tree == cmd(p).tree
      Fixed(c) == [i \in DOMAIN tree[t].text |->
                     IF tree[t].text[i].kind = "code" /\ tree[t].text[i].ids \cap Fixing(tree[c]) # {}
                     THEN [kind |-> "fixed", ids |-> {}] ELSE tree[t].text[i]]
  IN  \A f \in FixesOf(p, t) :
        tree[f[2]].text = IF Fixer(p, <<f[1], t>>).at = "done" THEN Fixed(f[1]) ELSE tree[t].text

TestPassed(p) ==
  /\ \A c \in Tested(p) : AsAnnotated(p, c)
  /\ \A t \in DOMAIN test[p].copies : Ambiguous(p, t) \/ AsFixed(p, t)
  /\ cmd(p).strict => Tested(p) = DOMAIN test[p].output

(* What the exit code of a finished command promises (test.py, login.py,   *)
(* publish.py, ci.py, wrapper.py).                                         *)
(*  - A test exits with 0 only if every rule reported the lines annotated  *)
(* with it and no others, and every target came out as its fix test; and   *)
(* with 1 only if one did not, or semgrep-core had errors.  Excepted are:  *)
(* lines marked todo; configurations that could not be scanned with, which *)
(* only --strict minds; a target whose scan for the fix failed, which is   *)
(* compared unfixed (test.py:608); and one that two configurations fix or  *)
(* that has two fix tests, of which nothing is promised.                   *)
(*  - A scan exits with 0 only if it had no error, nor findings that       *)
(* --error minds, and with 1 only on those.                                *)
(*  - `ci` exits with 1 only on findings that block; and with 0 only if    *)
(* there are none and no error, except that when errors are suppressed any *)
(* error makes it 0, that of the version check, after the findings, too.   *)
(*  - `login` exits with 0 only if a token is there already or was saved,  *)
(* or the settings are not writable: it says it saved it there as well.    *)
(*  - `publish` exits with 0 only if every file was uploaded.              *)
ExitCodeTells ==
  \A p \in {q \in Procs : ~cmd(q).ported} :
    LET outcome == own[p].outcome
    IN  /\ Done(p, "scan", "test", OK) => TestPassed(p)
        /\ Done(p, "scan", "test", FINDINGS) =>
             \/ ~TestPassed(p) \/ \E c \in Tested(p) : test[p].output[c].soft
             \/ \E t \in DOMAIN test[p].copies : Ambiguous(p, t)
        /\ Done(p, "scan", "scan", OK) => outcome.code = OK /\ ~Blocks(p, outcome)
        /\ Done(p, "scan", "scan", FINDINGS) => Blocks(p, outcome)
        /\ Done(p, "ci", "scan", OK) =>
             \/ outcome.code = OK /\ ~Blocks(p, outcome)
             \/ cmd(p).suppress_errors /\ (outcome.code # OK \/ home # "writable")
        /\ Done(p, "ci", "scan", FINDINGS) => outcome.code = OK /\ Blocks(p, outcome)
        /\ Done(p, "login", "scan", OK) =>
             IF own[p].candidate = None THEN own[p].mem.api_token # None
             ELSE home = "writable" => own[p].candidate \in own[p].wrote
        /\ Done(p, "publish", "scan", OK) => own[p].uploaded = Configs(p)
=============================================================================
