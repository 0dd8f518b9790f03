---------------------------- MODULE MCLinterMcp -----------------------------
(* Sessions of a server and of an editor with hooks.                       *)
EXTENDS LinterMcp, TLC

Local(path, name) == [path |-> path, kind |-> "absolute", name |-> name, text |-> path]
Sent(path, kind) == [path |-> path, kind |-> kind, name |-> path, text |-> path]

F == Local("/p/a.py", "a.py")
G == Local("/p/b.py", "b.py")
H == Local("/q/a.py", "a.py")
R == Sent("r.py", "relative")
W == Sent("../w.py", "escaping")

Env == [hosted |-> FALSE, transport |-> "stdio", proEngine |-> TRUE, token |-> TRUE,
        useRpc |-> "unset", disabled |-> {}, metricsOff |-> FALSE, elicitation |-> TRUE,
        oauth |-> FALSE, webapi |-> TRUE, deployment |-> TRUE, supplyDisabled |-> FALSE,
        daemonMayDie |-> FALSE, hooksMayBeKilled |-> TRUE]

Hosted == [Env EXCEPT !.hosted = TRUE, !.transport = "http", !.oauth = TRUE, !.token = FALSE]
ByCli == [Env EXCEPT !.useRpc = "false"]

Ask(tool, files) == [tool |-> tool, files |-> files]
Scan(files) == Ask("semgrep_scan", files)
Custom(files) == Ask("semgrep_scan_with_custom_rule", files)

EditOf(f) == [kind |-> "edit", agent |-> "cursor", file |-> f]
Stop == [kind |-> "stop", agent |-> "cursor"]
Post(agent) == [kind |-> "post", agent |-> agent]
Supply(command) == [kind |-> "supply", agent |-> "claude", command |-> command]
Inject(agent, short) == [kind |-> "defaults", agent |-> agent, short |-> short]

Server(e, c) == [env |-> e, calls |-> c, hooks |-> << >>]
Editor(e, h) == [env |-> e, calls |-> << >>, hooks |-> h]

MCScenarios == {
  Server(Env, <<Scan(<<F>>), Scan(<<G>>), Scan(<<F, G>>)>>),
  Server([Env EXCEPT !.daemonMayDie = TRUE, !.elicitation = FALSE], <<Scan(<<F>>), Scan(<<G>>)>>),
  Server(ByCli, <<Scan(<<F, H>>), Custom(<<R, W>>), Custom(<<R>>)>>),
  Server([ByCli EXCEPT !.metricsOff = TRUE, !.elicitation = FALSE], <<Scan(<<F>>), Scan(<<R>>), Custom(<<R>>)>>),
  Server([Env EXCEPT !.disabled = {"get_supported_languages"}],
         <<Ask("semgrep_scan_supply_chain", << >>), Ask("semgrep_findings", <<"repo">>),
           Ask("get_supported_languages", << >>)>>),
  Server([ByCli EXCEPT !.webapi = FALSE],
         <<Ask("semgrep_scan_supply_chain", << >>), Ask("semgrep_findings", <<"repo">>),
           Ask("get_abstract_syntax_tree", << >>)>>),
  Server(Hosted, <<Ask("semgrep_scan_remote", <<R>>), Ask("semgrep_whoami", << >>), Scan(<<F>>)>>),
  Server([Hosted EXCEPT !.token = TRUE, !.useRpc = "true"], <<Ask("semgrep_scan_remote", <<R>>)>>),
  Editor(Env, <<EditOf(F), EditOf(F), EditOf(G), Stop>>),
  Editor(Env, <<EditOf(F), EditOf(G), EditOf(H), Stop>>),
  Editor(Env, <<Inject("claude", FALSE), Inject("claude", FALSE), Inject("cursor", FALSE), Inject("claude", TRUE)>>),
  Editor(Env, <<Post("windsurf"), Post("cursor"), Supply("install"), Supply("build")>>),
  Editor([Env EXCEPT !.token = FALSE], <<Stop, Post("claude"), [Stop EXCEPT !.agent = "claude"]>>),
  [env |-> Env, calls |-> <<Scan(<<F>>)>>, hooks |-> <<EditOf(F), Stop>>] }
=============================================================================
