----------------------------- MODULE LinterMcp ------------------------------
(***************************************************************************)
(* The linter's MCP server and editor hooks (linter/cli/src/semgrep/mcp).  *)
(*                                                                         *)
(* The server (server.py, semgrep.py, semgrep_context.py) is one asyncio   *)
(* process: a tool call runs until it awaits the client's roots, the       *)
(* answer of the `semgrep mcp` daemon, or the user's verdict on a finding; *)
(* running the command line blocks every other call.  The client may       *)
(* cancel a call wherever it awaits.  All calls share the daemon's pipes.  *)
(*                                                                         *)
(* Each hook (hooks/*.py) is a process of its own that the editor starts   *)
(* and may kill; they share the file of edited paths and the cache of the  *)
(* secure defaults in the temporary directory.                             *)
(*                                                                         *)
(* A file is [path, kind, name, text]: kind tells how its path reads, name *)
(* is its base name, and text stands for its contents.                     *)
(***************************************************************************)
EXTENDS Integers, Sequences, FiniteSets, SequencesExt

CONSTANTS
  Calls,       \* tool calls
  Hooks,       \* hook processes
  Scenarios,   \* [env, calls, hooks]: the environment, and what the calls
               \* and the hooks in the two domains are
  FileEditLimit

ASSUME LimitAssumption == FileEditLimit \in Nat

VARIABLES
  env,         \* environment variables and what the machine offers
  jobs,        \* what each call and each hook is asked to do
  tools,       \* tools the server offers
  daemon,      \* [up, stdin, stdout]: the daemon and the lines in its pipes
  reader,      \* the call that waits in readline
  cwd,         \* the server's working directory
  temps,       \* temporary directories: owner -> (name -> text)
  calls,       \* [pc, result] of each call
  cache,       \* edited-files.json: Absent, Torn or Whole
  defaults,    \* the secure-defaults cache: [text, fresh]
  hooks,       \* [pc, list, alone, out] of each hook
  ledger       \* only observes: edits a hook recorded, not cleared yet

serverVars == <<tools, daemon, reader, cwd, calls>>
hookVars == <<cache, defaults, hooks, ledger>>
vars == <<env, jobs, serverVars, temps, hookVars>>

None == "none"
NoCall == 0

(* A scenario's calls and hooks are among those of the model, and an edit  *)
(* is that of a file.                                                      *)
ASSUME ScenarioAssumption ==
  /\ NoCall \notin Calls
  /\ \A s \in Scenarios :
       /\ DOMAIN s.calls \subseteq Calls /\ DOMAIN s.hooks \subseteq Hooks
       /\ \A h \in DOMAIN s.hooks :
            s.hooks[h].kind = "edit" => DOMAIN s.hooks[h].file = {"path", "kind", "name", "text"}

Absent == [state |-> "absent", list |-> << >>]
Torn == [state |-> "torn", list |-> << >>]
Whole(list) == [state |-> "whole", list |-> list]

Result(kind, of) == [kind |-> kind, of |-> of]
Error == Result("error", {})

Init ==
  /\ \E s \in Scenarios : env = s.env /\ jobs = [calls |-> s.calls, hooks |-> s.hooks]
  /\ tools = {} /\ reader = NoCall /\ cwd = "home"
  /\ daemon = [up |-> FALSE, stdin |-> << >>, stdout |-> << >>]
  /\ temps = << >>
  /\ calls = [c \in Calls |-> [pc |-> "idle", result |-> Result("pending", {})]]
  /\ cache = Absent /\ defaults = [text |-> None, fresh |-> FALSE]
  /\ hooks = [h \in Hooks |-> [pc |-> "idle", list |-> << >>, alone |-> TRUE, out |-> None]]
  /\ ledger = {}

-----------------------------------------------------------------------------
(* Temporary files                                                         *)

(* The directory once the files are written: a later file of the same name *)
(* replaces an earlier one, a file without a name is skipped.              *)
Contents(files) ==
  LET Named == {i \in DOMAIN files : files[i].name # ""}
      Newest(n) == CHOOSE i \in Named : files[i].name = n /\ \A j \in Named : files[j].name = n => j <= i
  IN  [n \in {files[i].name : i \in Named} |-> files[Newest(n)].text]

Texts(files) == {files[i].text : i \in {j \in DOMAIN files : files[j].name # ""}}

(* safe_join refuses an absolute path and one that leaves the directory.   *)
SafeJoin(f) == f.kind \notin {"absolute", "escaping"} \/ f.name = ""

(* validate_local_files: absolute paths that can be read, which a path     *)
(* without a base name cannot; only the base names are kept.               *)
ValidLocal(files) ==
  files # << >> /\ \A i \in DOMAIN files : files[i].kind = "absolute" /\ files[i].name # ""
BaseNames(files) == [i \in DOMAIN files |-> [files[i] EXCEPT !.kind = "relative"]]

ValidRemote(files) == files # << >>

CallDir(c) == <<"call", c>>
HookDir(h) == <<"hook", h>>
Join(d, owner, texts) == [o \in DOMAIN d \cup {owner} |-> IF o = owner THEN texts ELSE d[o]]
Leave(d, owner) == [o \in DOMAIN d \ {owner} |-> d[o]]

(* get_semgrep_scan_args: `auto` rules may not be used without metrics.    *)
ScanArgsRefused(config) == config \in {None, "auto"} /\ env.metricsOff

-----------------------------------------------------------------------------
(* The server                                                              *)

AllTools == {"semgrep_rule_schema", "get_supported_languages", "semgrep_findings",
             "semgrep_scan_with_custom_rule", "semgrep_scan", "semgrep_scan_remote",
             "get_abstract_syntax_tree", "semgrep_scan_supply_chain", "semgrep_whoami"}

(* register, then deregister_tools.                                        *)
OfferedTools(e) ==
  AllTools \ (e.disabled
              \cup (IF e.hosted THEN {"semgrep_scan", "semgrep_scan_supply_chain"}
                    ELSE {"semgrep_scan_remote"})
              \cup (IF e.transport = "stdio" THEN {"semgrep_whoami"} ELSE {}))

(* mk_context: whether the daemon runs.                                    *)
WantsDaemon(e) ==
  /\ e.proEngine /\ e.token
  /\ \/ e.useRpc = "unset" /\ ~e.hosted
     \/ e.useRpc = "true"

(* server_lifespan and run_mcp_server.                                     *)
Start ==
  /\ tools = {} /\ DOMAIN jobs.calls # {}
  /\ tools' = OfferedTools(env)
  /\ daemon' = [daemon EXCEPT !.up = WantsDaemon(env)]
  /\ UNCHANGED <<env, jobs, reader, cwd, temps, calls, hookVars>>

HasDaemon == WantsDaemon(env)   \* context.process is never cleared

Tool(c) == jobs.calls[c].tool
Files(c) == jobs.calls[c].files
Go(c, pc) == calls' = [calls EXCEPT ![c].pc = pc]
End(c, result) == calls' = [calls EXCEPT ![c] = [pc |-> "done", result |-> result]]

(* with_tool_span and the tool itself await the workspace directory.       *)
Call(c) ==
  /\ calls[c].pc = "idle" /\ Tool(c) \in tools
  /\ Go(c, "workspace")
  /\ UNCHANGED <<env, jobs, tools, daemon, reader, cwd, temps, hookVars>>

ScanTools == {"semgrep_scan", "semgrep_scan_remote", "semgrep_scan_with_custom_rule"}

Valid(c) == IF Tool(c) = "semgrep_scan" THEN ValidLocal(Files(c)) ELSE ValidRemote(Files(c))
CodeFiles(c) == IF Tool(c) = "semgrep_scan" THEN BaseNames(Files(c)) ELSE Files(c)

ByRpc(c) == HasDaemon /\ Tool(c) # "semgrep_scan_with_custom_rule"

(* The tool refuses its files.                                             *)
Reject(c) ==
  /\ calls[c].pc = "workspace" /\ Tool(c) \in ScanTools /\ ~Valid(c)
  /\ End(c, Error)
  /\ UNCHANGED <<env, jobs, tools, daemon, reader, cwd, temps, hookVars>>

(* The directory is made and filled and the command line run over it, all  *)
(* in one blocking stretch; the directory stays while the user is asked    *)
(* about the findings.                                                     *)
RunCli(c, files, config) ==
  LET scanned == Range(Contents(files))
  IN  /\ IF (\E i \in DOMAIN files : ~SafeJoin(files[i])) \/ ScanArgsRefused(config)
         THEN End(c, Error) /\ UNCHANGED temps
         ELSE \/ End(c, Error) /\ UNCHANGED temps
              \/ ~env.elicitation /\ End(c, Result("ok", scanned)) /\ UNCHANGED temps
              \/ /\ env.elicitation
                 /\ calls' = [calls EXCEPT ![c] = [pc |-> "elicit", result |-> Result("ok", scanned)]]
                 /\ temps' = Join(temps, CallDir(c), Contents(files))
      /\ UNCHANGED <<env, jobs, tools, daemon, reader, cwd, hookVars>>

(* semgrep_scan_cli                                                        *)
ScanCli(c) ==
  /\ calls[c].pc = "workspace" /\ Tool(c) \in ScanTools \ {"semgrep_scan_with_custom_rule"}
  /\ Valid(c) /\ ~ByRpc(c)
  /\ RunCli(c, CodeFiles(c), None)

(* semgrep_scan_with_custom_rule: the rule is written beside the code that *)
(* is scanned, over a file of its name.                                    *)
RuleFile == [path |-> "rule.yaml", kind |-> "relative", name |-> "rule.yaml", text |-> "the rule"]

ScanWithCustomRule(c) ==
  /\ calls[c].pc = "workspace" /\ Tool(c) = "semgrep_scan_with_custom_rule" /\ Valid(c)
  /\ RunCli(c, Append(CodeFiles(c), RuleFile), "rule.yaml")

(* run_semgrep_via_rpc: send_request refuses a hosted server, communicate  *)
(* writes the line and then reads one.  A dead daemon breaks the pipe.     *)
SendRequest(c) ==
  /\ calls[c].pc = "workspace" /\ Tool(c) \in ScanTools /\ Valid(c) /\ ByRpc(c)
  /\ IF env.hosted \/ ~daemon.up
     THEN End(c, Error) /\ UNCHANGED daemon
     ELSE /\ daemon' = [daemon EXCEPT !.stdin = Append(@, c)]
          /\ Go(c, "read")
  /\ UNCHANGED <<env, jobs, tools, reader, cwd, temps, hookVars>>

(* What the call makes of a line: the findings of the files it was for.    *)
Answered(c, of) ==
  calls' = [calls EXCEPT ![c] = [pc |-> IF env.elicitation THEN "elicit" ELSE "done",
                                 result |-> Result("ok", Texts(CodeFiles(of)))]]

(* Mutant: a line for another call is thrown away.                         *)
ReadLineOfOwn(c) ==
  /\ calls[c].pc = "read"
  /\ \/ /\ daemon.stdout # << >>
        /\ IF Head(daemon.stdout) = c THEN Answered(c, c) ELSE UNCHANGED calls
        /\ daemon' = [daemon EXCEPT !.stdout = Tail(@)] /\ UNCHANGED reader
     \/ daemon.stdout = << >> /\ ~daemon.up /\ End(c, Error) /\ UNCHANGED <<daemon, reader>>
     \/ /\ daemon.stdout = << >> /\ daemon.up /\ UNCHANGED daemon
        /\ IF reader = NoCall THEN reader' = c /\ Go(c, "waiting") ELSE End(c, Error) /\ UNCHANGED reader
  /\ UNCHANGED <<env, jobs, tools, cwd, temps, hookVars>>

(* StreamReader.readline: a line that is there is taken at once, a second  *)
(* coroutine may not wait, and the end of the stream is no answer.         *)
ReadLine(c) ==
  /\ calls[c].pc = "read"
  /\ \/ /\ daemon.stdout # << >>
        /\ Answered(c, Head(daemon.stdout))
        /\ daemon' = [daemon EXCEPT !.stdout = Tail(@)]
        /\ UNCHANGED reader
     \/ daemon.stdout = << >> /\ ~daemon.up /\ End(c, Error) /\ UNCHANGED <<daemon, reader>>
     \/ /\ daemon.stdout = << >> /\ daemon.up /\ reader = NoCall
        /\ reader' = c /\ Go(c, "waiting") /\ UNCHANGED daemon
     \/ /\ daemon.stdout = << >> /\ daemon.up /\ reader # NoCall
        /\ End(c, Error) /\ UNCHANGED <<daemon, reader>>
  /\ UNCHANGED <<env, jobs, tools, cwd, temps, hookVars>>

(* New data, or the end of the stream, wakes the reader, which tries again.*)
Woken == [c \in Calls |-> IF calls[c].pc = "waiting" THEN [calls[c] EXCEPT !.pc = "read"] ELSE calls[c]]

DaemonAnswers ==
  /\ daemon.up /\ daemon.stdin # << >>
  /\ daemon' = [daemon EXCEPT !.stdin = Tail(@), !.stdout = Append(@, Head(daemon.stdin))]
  /\ reader' = NoCall /\ calls' = Woken
  /\ UNCHANGED <<env, jobs, tools, cwd, temps, hookVars>>

DaemonDies ==
  /\ daemon.up /\ env.daemonMayDie
  /\ daemon' = [daemon EXCEPT !.up = FALSE, !.stdin = << >>]
  /\ reader' = NoCall /\ calls' = Woken
  /\ UNCHANGED <<env, jobs, tools, cwd, temps, hookVars>>

(* finding_elicitation ends, and the finally clause removes the directory. *)
Elicited(c) ==
  /\ calls[c].pc = "elicit"
  /\ \/ Go(c, "done") \/ End(c, Error)
  /\ temps' = Leave(temps, CallDir(c))
  /\ UNCHANGED <<env, jobs, tools, daemon, reader, cwd, hookVars>>

(* Mutant: only an Exception cleans up, and a cancellation is not one.     *)
CancelLeaves(c) ==
  /\ calls[c].pc \in {"workspace", "read", "waiting", "elicit"}
  /\ End(c, Result("cancelled", {}))
  /\ reader' = IF reader = c THEN NoCall ELSE reader
  /\ UNCHANGED <<env, jobs, tools, daemon, cwd, temps, hookVars>>

(* The client cancels the call; the finally clauses run.                   *)
Cancel(c) ==
  /\ calls[c].pc \in {"workspace", "read", "waiting", "elicit"}
  /\ End(c, Result("cancelled", {}))
  /\ reader' = IF reader = c THEN NoCall ELSE reader
  /\ temps' = Leave(temps, CallDir(c))
  /\ UNCHANGED <<env, jobs, tools, daemon, cwd, hookVars>>

(* semgrep_findings: an OAuth user, or a token with the webapi role, a     *)
(* deployment and a repository, and then the API must answer.              *)
MayAskFindings(c) ==
  /\ env.oauth \/ (env.token /\ env.webapi)
  /\ env.deployment /\ Files(c) # << >>

(* get_abstract_syntax_tree makes and removes its directory in one         *)
(* blocking stretch.                                                       *)
GetAbstractSyntaxTree(c) ==
  /\ calls[c].pc = "workspace" /\ Tool(c) = "get_abstract_syntax_tree"
  /\ End(c, Result("ok", {})) \/ End(c, Error)
  /\ UNCHANGED <<env, jobs, tools, daemon, reader, cwd, temps, hookVars>>

(* The tools that see no code; each is one blocking stretch.               *)
Query(c) ==
  /\ calls[c].pc = "workspace"
  /\ Tool(c) \in AllTools \ (ScanTools \cup {"semgrep_scan_supply_chain", "get_abstract_syntax_tree"})
  /\ \/ /\ Tool(c) = "semgrep_findings" => MayAskFindings(c)
        /\ Tool(c) = "semgrep_whoami" => env.oauth
        /\ End(c, Result("ok", {}))
     \/ End(c, Error)
  /\ UNCHANGED <<env, jobs, tools, daemon, reader, cwd, temps, hookVars>>

(* semgrep_scan_supply_chain and semgrep_scan_sca: the directory is left   *)
(* changed when the command cannot be run.                                 *)
ScanSupplyChain(c) ==
  /\ calls[c].pc = "workspace" /\ Tool(c) = "semgrep_scan_supply_chain"
  /\ \/ ~HasDaemon /\ End(c, Error) /\ UNCHANGED cwd
     \/ HasDaemon /\ (End(c, Result("ok", {})) \/ End(c, Error)) /\ UNCHANGED cwd
     \/ HasDaemon /\ cwd' = "workspace" /\ End(c, Error)
  /\ UNCHANGED <<env, jobs, tools, daemon, reader, temps, hookVars>>

-----------------------------------------------------------------------------
(* The hooks                                                               *)

Job(h) == jobs.hooks[h]
Live == {h \in DOMAIN jobs.hooks : hooks[h].pc \notin {"idle", "done", "killed"}}
EditHooks == {h \in DOMAIN jobs.hooks : Job(h).kind \in {"edit", "stop"}}

(* The hooks on their way that use the file of edits at the same time.     *)
Rivals(h) == IF h \in EditHooks THEN (Live \cap EditHooks) \ {h} ELSE {}

HookStep(h, next) ==
  hooks' = [g \in Hooks |->
    CASE g = h                       -> [next EXCEPT !.alone = @ /\ Rivals(h) = {}]
      [] g # h /\ g \in Rivals(h)    -> [hooks[g] EXCEPT !.alone = FALSE]
      [] g # h /\ g \notin Rivals(h) -> hooks[g]]

HookGo(h, pc) == HookStep(h, [hooks[h] EXCEPT !.pc = pc])
HookEnd(h, out) == HookStep(h, [hooks[h] EXCEPT !.pc = "done", !.out = out])

Unsupported(h) ==
  \/ Job(h).kind \in {"edit", "stop"} /\ Job(h).agent # "cursor"
  \/ Job(h).kind = "post" /\ Job(h).agent = "cursor"
  \/ Job(h).kind = "defaults" /\ Job(h).agent # "claude"

(* The checks with which the hooks begin: the agent, the settings and the  *)
(* command of the supply-chain hook, and the token.                        *)
NeedsToken(h) == Job(h).kind \in {"stop", "post", "supply"}
NotForUs(h) == Job(h).kind = "supply" /\ (env.supplyDisabled \/ Job(h).command # "install")

HookStarts(h) ==
  /\ hooks[h].pc = "idle"
  /\ CASE Unsupported(h) -> HookEnd(h, "refused")
       [] NotForUs(h)     -> HookEnd(h, "silent")
       [] ~Unsupported(h) /\ ~NotForUs(h) /\ NeedsToken(h) /\ ~env.token -> HookEnd(h, "refused")
       [] OTHER           -> HookGo(h, "start")
  /\ UNCHANGED <<env, jobs, serverVars, temps, cache, defaults, ledger>>

(* load_edited_file_paths: a file that is cut short does not parse.        *)
Loaded == cache.list

(* Mutant: an edit replaces the list.                                      *)
RecordEditAfresh(h) ==
  /\ hooks[h].pc = "start" /\ Job(h).kind = "edit"
  /\ HookStep(h, [hooks[h] EXCEPT !.pc = "write", !.list = <<Job(h).file>>])
  /\ UNCHANGED <<env, jobs, serverVars, temps, cache, defaults, ledger>>

(* Mutant: a path that is there is written once more.                      *)
RecordEditTwice(h) ==
  /\ hooks[h].pc = "start" /\ Job(h).kind = "edit" /\ Len(Loaded) < FileEditLimit
  /\ HookStep(h, [hooks[h] EXCEPT !.pc = "write", !.list = Append(Loaded, Job(h).file)])
  /\ UNCHANGED <<env, jobs, serverVars, temps, cache, defaults, ledger>>

(* append_edited_file_path: read the list; a full list, or one that has    *)
(* the path, is left alone.                                                *)
RecordEdit(h) ==
  /\ hooks[h].pc = "start" /\ Job(h).kind = "edit"
  /\ LET f == Job(h).file
     IN  \/ cache = Torn /\ HookEnd(h, "failed") /\ UNCHANGED ledger
         \/ /\ cache # Torn /\ Len(Loaded) >= FileEditLimit
            /\ HookEnd(h, "recorded") /\ UNCHANGED ledger
         \/ /\ cache # Torn /\ Len(Loaded) < FileEditLimit /\ f \in ToSet(Loaded)
            /\ HookEnd(h, "recorded")
            /\ ledger' = IF hooks[h].alone /\ Rivals(h) = {} THEN ledger \cup {f} ELSE ledger
         \/ /\ cache # Torn /\ Len(Loaded) < FileEditLimit /\ f \notin ToSet(Loaded)
            /\ HookStep(h, [hooks[h] EXCEPT !.pc = "write", !.list = Append(Loaded, f)])
            /\ UNCHANGED ledger
  /\ UNCHANGED <<env, jobs, serverVars, temps, cache, defaults>>

(* open(.., "w") empties the file, json.dump fills it.                     *)
TruncateCache(h) ==
  /\ hooks[h].pc = "write"
  /\ cache' = Torn /\ HookGo(h, "dump")
  /\ UNCHANGED <<env, jobs, serverVars, temps, defaults, ledger>>

DumpCache(h) ==
  /\ hooks[h].pc = "dump"
  /\ cache' = Whole(hooks[h].list)
  /\ HookEnd(h, "recorded")
  /\ ledger' = IF hooks[h].alone /\ Rivals(h) = {} THEN ledger \cup {Job(h).file} ELSE ledger
  /\ UNCHANGED <<env, jobs, serverVars, temps, defaults>>

(* run_cli_scan of stop.py: read the list and the files; any failure goes  *)
(* on to the finally clause.                                               *)
StopReads(h) ==
  /\ hooks[h].pc = "start" /\ Job(h).kind = "stop"
  /\ \/ /\ cache # Torn /\ ValidLocal(Loaded)
        /\ HookStep(h, [hooks[h] EXCEPT !.pc = "scan", !.list = Loaded])
        /\ temps' = Join(temps, HookDir(h), Contents(BaseNames(Loaded)))
     \/ HookStep(h, [hooks[h] EXCEPT !.pc = "clean", !.out = "failed"]) /\ UNCHANGED temps
  /\ UNCHANGED <<env, jobs, serverVars, cache, defaults, ledger>>

StopScans(h) ==
  /\ hooks[h].pc = "scan"
  /\ \E out \in {"scanned", "failed"} : HookStep(h, [hooks[h] EXCEPT !.pc = "clean", !.out = out])
  /\ UNCHANGED <<env, jobs, serverVars, temps, cache, defaults, ledger>>

(* The finally clause: the directory goes, then the list.                  *)
StopRemoves(h) ==
  /\ hooks[h].pc = "clean"
  /\ temps' = Leave(temps, HookDir(h)) /\ HookGo(h, "clear")
  /\ UNCHANGED <<env, jobs, serverVars, cache, defaults, ledger>>

StopClears(h) ==
  /\ hooks[h].pc = "clear"
  /\ cache' = Absent /\ ledger' = {}
  /\ HookEnd(h, hooks[h].out)
  /\ UNCHANGED <<env, jobs, serverVars, temps, defaults>>

(* post_tool.py runs the command line and blocks on what it finds.         *)
ScanHook(h) ==
  /\ hooks[h].pc = "start" /\ Job(h).kind = "post"
  /\ \E out \in {"blocked", "silent", "failed"} : HookEnd(h, out)
  /\ UNCHANGED <<env, jobs, serverVars, temps, cache, defaults, ledger>>

(* supply_chain.py: every finding blocks that is not known to be in a      *)
(* dependency that the code does not reach.                                *)
Decision(report) == IF \E f \in report : f # "unreachable" THEN "blocked" ELSE "silent"

SupplyChainHook(h) ==
  /\ hooks[h].pc = "start" /\ Job(h).kind = "supply"
  /\ \/ HookEnd(h, "failed")
     \/ \E report \in SUBSET {"reachable", "unreachable", "no sca_info"} : HookEnd(h, Decision(report))
  /\ UNCHANGED <<env, jobs, serverVars, temps, cache, defaults, ledger>>

(* inject_secure_defaults.py: the cache if it is fresh, else the README,   *)
(* which is cached in two steps, else the built-in text.                   *)
InjectDefaults(h) ==
  /\ hooks[h].pc = "start" /\ Job(h).kind = "defaults"
  /\ \/ ~Job(h).short /\ defaults.fresh /\ HookEnd(h, defaults.text) /\ UNCHANGED defaults
     \/ ~Job(h).short /\ ~defaults.fresh /\ HookGo(h, "cache")
        /\ defaults' = [text |-> IF defaults.text = None THEN "" ELSE defaults.text, fresh |-> TRUE]
     \/ (Job(h).short \/ ~defaults.fresh) /\ HookEnd(h, "fallback") /\ UNCHANGED defaults
  /\ UNCHANGED <<env, jobs, serverVars, temps, cache, ledger>>

CacheDefaults(h) ==
  /\ hooks[h].pc = "cache"
  /\ defaults' = [text |-> "readme", fresh |-> TRUE]
  /\ HookEnd(h, "readme")
  /\ UNCHANGED <<env, jobs, serverVars, temps, cache, ledger>>

DefaultsExpire ==
  /\ defaults.fresh /\ \E h \in DOMAIN jobs.hooks : Job(h).kind = "defaults" /\ hooks[h].pc = "idle"
  /\ defaults' = [defaults EXCEPT !.fresh = FALSE]
  /\ UNCHANGED <<env, jobs, serverVars, temps, cache, hooks, ledger>>

(* The editor kills a hook that takes too long: what it has written stays. *)
Kill(h) ==
  /\ h \in Live /\ env.hooksMayBeKilled
  /\ HookStep(h, [hooks[h] EXCEPT !.pc = "killed"])
  /\ ledger' = IF hooks[h].pc = "dump" THEN {} ELSE ledger
  /\ UNCHANGED <<env, jobs, serverVars, temps, cache, defaults>>

-----------------------------------------------------------------------------

CallStep(c) ==
  \/ Call(c) \/ Reject(c) \/ ScanCli(c) \/ SendRequest(c) \/ ReadLine(c)
  \/ ScanWithCustomRule(c) \/ Elicited(c) \/ GetAbstractSyntaxTree(c) \/ Query(c) \/ ScanSupplyChain(c)

HookRuns(h) ==
  \/ HookStarts(h) \/ RecordEdit(h) \/ TruncateCache(h) \/ DumpCache(h)
  \/ StopReads(h) \/ StopScans(h) \/ StopRemoves(h) \/ StopClears(h)
  \/ ScanHook(h) \/ SupplyChainHook(h) \/ InjectDefaults(h) \/ CacheDefaults(h)

Next ==
  \/ Start \/ DaemonAnswers \/ DaemonDies \/ DefaultsExpire
  \/ \E c \in DOMAIN jobs.calls : CallStep(c) \/ Cancel(c)
  \/ \E h \in DOMAIN jobs.hooks : HookRuns(h) \/ Kill(h)

(* The event loop runs what is ready, and the daemon answers each line.    *)
Spec ==
  /\ Init /\ [][Next]_vars
  /\ WF_vars(DaemonAnswers)
  /\ \A c \in Calls : WF_vars(c \in DOMAIN jobs.calls /\ CallStep(c))

-----------------------------------------------------------------------------
(* Properties                                                              *)

TypeOK ==
  /\ tools \subseteq AllTools
  /\ reader \in Calls \cup {NoCall}
  /\ \A c \in Calls : calls[c].pc = "waiting" <=> reader = c
  /\ \A c \in Calls : calls[c].pc # "idle" => c \in DOMAIN jobs.calls
  /\ cwd \in {"home", "workspace"}
  /\ DOMAIN temps \subseteq {CallDir(c) : c \in Calls} \cup {HookDir(h) : h \in Hooks}
  /\ Len(cache.list) <= FileEditLimit /\ IsInjective(cache.list)
  /\ \A h \in Hooks : hooks[h].pc # "idle" => h \in DOMAIN jobs.hooks

(* A temporary copy of the user's files exists only while the call or hook *)
(* that made it is at work, however that ended; a killed hook, which runs  *)
(* no finally clause, is the exception.                                    *)
TempIsOwned ==
  \A o \in DOMAIN temps :
    \/ \E c \in Calls : o = CallDir(c) /\ calls[c].pc = "elicit"
    \/ \E h \in Hooks : o = HookDir(h) /\ hooks[h].pc \in {"scan", "clean", "killed"}

(* A stop hook that finished its scan has scanned the text of every file   *)
(* whose edit a hook had recorded while no other used the list, unless a   *)
(* hook was killed while it wrote the list: whatever hooks run beside it.  *)
(* Of the files with one base name only one is scanned, so these are set   *)
(* aside.                                                                  *)
EditsAreScanned ==
  \A h \in DOMAIN jobs.hooks :
    Job(h).kind = "stop" /\ hooks[h].pc = "clean" /\ hooks[h].out = "scanned" =>
      \A f \in ledger :
        \/ f.text \in Range(temps[HookDir(h)])
        \/ \E g \in ToSet(hooks[h].list) : g # f /\ g.name = f.name

(* Every tool call that is not abandoned by its user comes to an end: two  *)
(* calls never wait for each other on the daemon's pipe, and none waits    *)
(* for an answer that another one has taken.                               *)
CallsEnd ==
  \A c \in Calls : calls[c].pc \in {"workspace", "read", "waiting"} ~> calls[c].pc \in {"elicit", "done"}
=============================================================================
