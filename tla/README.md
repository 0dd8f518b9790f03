# TLA+ verification of Rust Studio

The repository holds two systems whose difficulty is not any one algorithm.

*Rust Studio* is a Tauri application: a React front end in one JavaScript
thread, and a Rust back end whose commands are Tokio tasks. What is hard in it
happens between them: commands that overtake each other at every `await`,
background tasks that share a process with them, external programs
(rust-analyzer, cargo) that answer late, in any order or never, and events
that carry no identity.

*The linter* under `linter/cli` is a Python command line around an engine that
is a process of its own. What is hard in it is that many things fail
partially: rules, files, git commands, requests to the app, processes that are
killed half way; that several processes of one user, and several tool calls of
one editor, share files and pipes; and that one exit code has to tell the
truth about all of it.

These modules model both. Paths below are relative to the repository; those of
the linter are relative to `linter/cli/src/semgrep`, and those of the back end
to `src-tauri/src`, where no other directory is named.

## Inventory

| Component | State | Operations | Interacts through | What is hard | What makes it correct |
|---|---|---|---|---|---|
| **LspHost** `src-tauri/src/lsp/lsp_host.rs` | id counter, pending map, oneshots, writer channel (256), server channel (512), status, cancellation token, three tasks, the child | `spawn`, `request`, `notify`, `shutdown`; writer, reader and reaper tasks; `dispatch_message` | channels and the child's pipes; clones of the handle in every command | callers race; answers reordered, late or missing; colliding ids; a full channel; a dead or stuck child | each caller gets its own answer or an error, none is lost, handshake first, shutdown ends everything |
| **LSP session** `commands/lsp_commands.rs`, `src/hooks/useLsp.ts` | `LspState.host`, `.cancel`, the hook's globals `isLspStarting`, `currentWorkspaceRoot`, status shown | `lsp_start`, `lsp_stop`, effect, cleanup | Tauri invoke, shared mutexes, events | starts and stops of successive workspaces interleave at every await | one start at a time, no orphaned server, a manager for every server, the user learns the outcome |
| **DiagnosticManager** `lsp/diagnostic_manager.rs` | one task per server | receive, report progress, stop | server channel, token, events | outlives or underlives its server | runs as long as its server |
| **Document sync** `lsp/cache_engine.rs`, `lsp_open/sync_document`, `openDoc`, `syncDoc`, callers in `EditorLayout.tsx` | versions, open set, cache, rust-analyzer's copy | open, edit, open-error, cleanup | commands not awaited before the next is sent | overtaking, opens racing edits, sessions changing under way | the newest text wins everywhere |
| **Cargo builds** `cargo/process_manager.rs`, `commands/cargo_commands.rs`, `src/hooks/useCargoDiagnostics.ts` | manager mutex, `active_process`, tokens, children, `isBuilding` | run, cancel, exit, finished event | one mutex, events without identity | cancel versus run; late events; failures without events | one cargo, cancel works, the spinner tells the truth |
| Cargo diagnostics mapping, suggestions `cargo/diagnostic_mapper.rs`, `fix_application.rs` | none | parse, apply | called by cargo builds | order of edits | offsets stay valid |
| Definition resolver `lsp/definition_resolver.rs` | registry path | score, select | called by feature commands | none concurrent | picks the best location |
| Document, EditStack, registry `document/`, `buffer/edit_stack.rs` | bounded undo and redo stacks, versions, a map | apply, undo, redo, open | shared map | long legal sequences, limits, check-then-insert | undo inverts, versions grow |
| Rope buffer `buffer/rope_buffer.rs` | a rope | insert, delete, slice | called by commands | positions at boundaries | text is what was edited |
| File access `fs/` | the disk | read, save through a temporary file | concurrent saves | shared temporary name, crash between write and rename | a save is all or nothing |
| Editor layout `src/components/layout/EditorLayout.tsx` | tabs, contents, dirty flags | open, edit, save, close, reload | invokes the above | state read before an await | dirty means unsaved |
| Terminal `commands/terminal_commands.rs` | session map, reader threads | spawn, write, resize, kill | events by id | same id respawned, exits of the old one | an exit is of the session shown |
| Debugger `debugger/` | active session, reader loop | start, send, stop | events without id | old loop's termination after a new start | termination is of the session shown |
| Syntax, viewport | parser, windows | highlight, slice | mutex | arithmetic at boundaries | windows stay inside the text |
| Search, clippy, timeline, git, GitHub, CodeWiki, backup, settings, test generation, linter bridge | files and external tools | one-shot commands | none shared | I/O failure | returns what the tool says |
| Front-end editor and panels | rendering state | input handling | the hooks above | rendering | - |
| **Linter: scan** `run_scan.py`, `git.py`, `rule_match.py`, `output.py` | checkout, worktree, findings, errors | load rules, scan, check out the baseline, scan again, clean up, filter, fix, output | git, the engine, the user's files | failures of a part, renames, clean-up on every path | new findings are exact, the checkout comes back, the exit code tells |
| **Linter: rules** `config_resolver.py`, `rule_lang.py`, `rule.py` | configurations, threads | fetch, parse, validate, rename, select | registry, disk | threads finish in any order | every rule is run or reported |
| **Linter: targets** `target_manager.py`, `core_targets_plan.py` | none | list, ignore, select, plan | git, disk | filters that must agree | a rule sees the files it selects |
| **Linter: supply chain** `resolve_subprojects.py`, `dependency_aware_rule.py`, `semdep/` | subprojects, dependencies | discover, skip, resolve, match | parsers, builds, the app | two notions of "closest", version order | no relevant project is skipped, ranges are precise |
| **Linter: engine** `core_runner.py`, `rpc.py` | shards, pipe, session, temporary files | start, read, end, call | semgrep-core | killed or silent engine | complete or failed, files removed |
| **Linter: ci** `commands/ci.py`, `app/scans.py`, `commands/install.py` | the app's scan, checkout, Pro engine | start, poll, scan, upload, complete, install | HTTP with retries | lost answers, killed jobs | app consistent, verdict right, engine whole |
| **Linter: MCP and hooks** `mcp/` | daemon pipe, temporary copies, list of edits | tool calls, cancel, hooks | pipe, files | calls share a pipe, hooks share a list | temporary files owned, edits scanned, calls end |
| **Linter: commands** `settings.py`, `app/version.py`, `commands/`, `test.py` | settings file, version cache | start, save, login, publish, check version, test rules | files | concurrent and killed commands | settings sound, exit codes tell |
| Linter: formatters, metrics payload, telemetry, generated interfaces | - | write, report | - | - | - |
| semgrep-core (OCaml), CodeLLDB under `debugger/` | external processes | - | - | - | - |

`PROJECT.json` lists, under `hazards`, each thing that can go wrong at its
line and the property that watches it.

## Modules

| Module | Models |
|---|---|
| `LspHost` | one `LspHost`: every step of `request`, `notify`, `shutdown`, `send_initialize` between two awaits, and each background task |
| `RemoteCall` | the abstract promise of `request` |
| `LspHostProofs` | the proofs about `LspHost` |
| `MCLspHost` | client names and symmetry for TLC |
| `LspSession` | effect runs of `useLsp`, their `lsp_start` and `lsp_stop`, `LspState`, the managers |
| `MCLspSession` | folder names for TLC |
| `DocSync` | one document from the editor to rust-analyzer's copy |
| `SessionProofs` | the proofs about `LspSession` and about `DocSync` |
| `CargoBuild` | clicks, cargo commands, the manager and its children |
| `CargoBuildProofs` | the proofs about `CargoBuild` |
| `RuleMatch` | keys of findings, the comparison with the baseline, nosemgrep, fixes, which findings block a merge, errors and their exit code (operators) |
| `LinterScan` | one scan, from the configuration to the exit code |
| `LinterScanProofs` | the proofs about `LinterScan`, with lemmas about `RuleMatch` |
| `RuleConfig` | where rules come from, how they are parsed, validated and selected (operators) |
| `TargetFiles` | which files are looked at, by which rules (operators) |
| `PackageVersions` | PEP 440 versions and specifiers (operators) |
| `Dependencies` | what lockfile parsers return; versions of other ecosystems (operators) |
| `SupplyChain` | subprojects, their resolution, findings about dependencies (operators) |
| `CoreRun` | RPC calls, shards, what one run of the engine returns (operators) |
| `LinterCore` | the pipeline behind a scan: configuration, targets, subprojects, engine, adjustment |
| `LinterCoreProofs` | the proofs about `LinterCore`, with lemmas about `RuleConfig`, `SupplyChain`, `CoreRun` and `TargetFiles`, and the order of `PackageVersions` |
| `CiMeta` | the source of each field of the project's metadata (operators) |
| `LinterCi` | the `ci` command, the app, the installed Pro engine |
| `LinterCiProofs` | the proofs about `LinterCi` |
| `LinterMcp` | the MCP server's tool calls and the editor's hooks |
| `LinterMcpProofs` | the proofs about `LinterMcp` |
| `LinterTest` | the verdict of rule tests (operators) |
| `LinterCommand` | processes of the command line that share settings and cache |
| `LinterCommandProofs` | the proofs about `LinterCommand`, with the verdict of `LinterTest` |
| `MCLinter*` | the scenarios of each for TLC |

The layers meet at two places. `LspSession` takes a server's `spawn` and
`shutdown` as two steps each, with an await between; that they return, and what
they leave, is what `LspHost` shows. `DocSync` takes the presence of a host as
a variable that the session changes, and `notify` as one step: `LspHost`
delivers the frames of its writer channel in order.

The linter's state machines each take the next one's result as an input.
`LinterCommand` has a scan end in an *outcome*; `LinterScan` shows how an
outcome comes about, given what the engine finds and which parts fail;
`LinterCore` shows what the engine is asked and what is made of its answers.
`LinterCi` calls the same scan between its requests, and shares `RuleMatch`
with `LinterScan`. The operator modules extend each other in the order of the
pipeline: `RuleMatch`, `RuleConfig`, `TargetFiles`, `SupplyChain` (with
`Dependencies` and `PackageVersions`), `CoreRun`, `LinterCore`.

### LspHost

Each caller has a program counter. `TakeId`, `Register`, `Enqueue` and then
`Receive` or `TimeOut` are the five places at which `request` can be overtaken:
after `fetch_add`, after the insertion into `pending`, at `send().await`, and
in `timeout(120 s, rx)`. The Initializer is the call of `send_initialize`,
which has the handle alone until `spawn` returns; Clients clone the handle out
of `LspState`; the Stopper takes it and runs `shutdown`. `WriteFrame`,
`ReadFrame` and `Reap` with `WriterExit` and `ReaderExit` are the background
tasks. rust-analyzer is external: it answers a request it has read at most
once, in any order, with a result or an error, sends frames of its own under
any id it likes, and may die at any moment. Its frames are well formed.
Payloads, capabilities and error texts are left out; an answer is a result or
an error, because `dispatch_message` makes the latter `Null`, of which
`send_initialize` takes less notice than it might (see below). `heard` observes
what part of the handshake rust-analyzer has read.

### LspSession

JavaScript is atomic between awaits, so `Switch` runs the old cleanup and the
new effect in one step. Effect run `e`, its start, its server, its token and
its manager share the number `e`. Rust commands step at every await; each step
takes and returns its `parking_lot` mutex. A `lsp://status` event is shown at
once to the live run (a run whose listeners are still being registered may miss
it). Registering a listener may fail, which ends the run's `start` before its
`try` and leaves the run *deaf*. A failed start may leave its process behind,
which the code allows.

### DocSync

Text `n` is the buffer after the `n`th edit. A command is a message that
first meets the cache (`ToCache`) and then `notify` (`ToServer`), with any other
command free to come between. `OpenFile` reads the file again, as
`handleOpenFileInActiveGroup` does, even when the editor holds a newer text.

### CargoBuild

Op `i` is a click. The Tokio mutex around the manager is a FIFO queue whose
head holds it. As in the code a run holds it until cargo has ended, so the
cancelled branch of `select!` is present and never ready.

### LinterScan

A repository is two commits and a checkout, each a function from files to the
lines that rules match, and a line is a rule, the code it is about (`ctx`), and
whether it is suppressed or has a fix. `LoadRules`, `OpenBaseline`, `ScanHead`
and `Decide` are `run_scan` up to `baseline_run`; `ChooseStrategy` to
`RemoveWorktree` are `BaselineHandler.baseline_context`, once as a `git reset`
of the user's own checkout and once as a worktree; any git command may fail,
those that only ask included, and the user may edit files meanwhile (`Edit`):
`lost` keeps which of these edits a reset was about to destroy. A rule that the
engine cannot parse ends the scan if nobody had validated it before, and a join
rule may have a condition that is none. The findings of one run arrive
in any order, because the index that tells copies of one piece of code apart
depends on it. The engine is external: it finds every line of a rule except
where it reports a failure. Of the errors that are shown, the set and the last
one are kept, since the exit code is that of the last.

### LinterCore

`ReadConfig`, `ParseFile` and `EndConfig` are the threads of
`parse_config_files`; `DumpPartitions` ends the command that only asks how rules
would be split; `GetRules` to `FilterRules` select rules, discover targets,
find, skip and resolve subprojects; `StartCore` to `EndRun` are one run of the
engine, which scans its files in any order, writes its progress and its log to
two pipes of bounded size that Python must read both, reports the rules that it
cannot parse, may die at any moment, and may be of a release whose answer
Python cannot read; `AdjustRule` and `Finish` turn matches into findings about
dependencies. A call of the RPC session may be answered, refused, preceded by
noise, broken off or never answered, and what stays unread in the pipe is the
next call's to find. `Fail` ends the process from wherever it is, and removes
what its context managers remove. A version carries, besides the parts the
code compares, its place in the order of PEP 440, which only the property
looks at.

### LinterCi

A request is `Send`: it may take effect or not, and its answer may be lost
either way, in which case the session sends it again. The app is external; it
knows a scan by the id that `RequestIds` chooses. Whether a finding blocks is
computed from its rule, the exposure of a dependency and the validation of a
secret, as `is_blocking` does; `blocked_by_app` is set after the verdict. A
second scan may look for secrets in the history (`ScanHistory`), of which
`Merged` takes over what was kept; `scanned` keeps all that either found. A
finding has an id of its own within one scan, because its index is part of the
id, but the two scans number theirs separately. Of the checkout the model has
the commit (`head`) and the branch it is on (`on`), which git commands of
`FixHead` and the way back in `Exit` change or fail to. The job may be killed
at any step and run again with the same checkout and the same engine files.

### LinterMcp

A tool call is at one of its awaits: the roots of the workspace, the daemon's
pipe, the user's verdict. Running the command line blocks the event loop, so
it is one step. A client may cancel a call at any await. A hook is a process
with a step for each read and write of a shared file. `ledger` only observes
which edits were recorded by a hook that had the list to itself from its read
to its write. The rule of `semgrep_scan_with_custom_rule` is
written beside the code that is scanned, so it is one more file of the
directory.

### LinterCommand and LinterTest

A process steps from the entry point through the settings to its command.
Reading a file, creating its replacement, and renaming are steps of their own,
so that commands come between; the version cache is opened (and thereby
emptied) and written in two. The notice of the metrics is a step before the one
that records it (`Notify`, `Claim`): `notified` and `muted` observe whether it
was shown, or logged under `--quiet` for nobody. `Ci` is `commands/ci.py` as the
other files see it: any outcome that `LinterCi` allows, the version check, and
the code of `ErrorHandler.send`. A scan for tests, and one for a fix, may fail.
`LinterTest` has the pure part of `--test`: which
targets belong to which configuration, expected and reported lines, fix tests.

## What the runs check

| Run | Bounds | Shows |
|---|---|---|
| `lsp_host_safety` | 2 clients + initializer + stopper, 4 ids, channels and pipe of 1, server ids {2} | `AnswerIsOwn`, `NoLostAnswer`, `HandshakeFirst` |
| `lsp_host_live` | 1 client, 3 ids | `RequestReturns`, `ShutdownEnds`, and the refinement `ImplementsRemoteCall` |
| `lsp_session` | 2 folders, 3 switches | `StartsAreSerial`, `NoOrphanServer`, `StartIsShown` |
| `lsp_session_manager` | the same | refutes `ServerHasManager` |
| `doc_sync` | 3 edits, 2 opens, 2 sessions | `CacheIsNewest`, `OpenedOnce` |
| `cargo_build` | 3 clicks | `OneCargo`, `NoLateEvent`, `ClickSettles` |
| `cargo_cancel` | 2 clicks | refutes `CancelTakesEffect` |
| `linter_scan` | 7 repositories of 1 or 2 files, 8 command lines, 5 sets of failures, 2 edits | `NewFindingsExact`, `TreeRestored`, `ExitTells` |
| `linter_core` | 20 scans of 3 subprojects, and one for each pair of 11 version bounds over 16 versions; shards of 3 at most, pipes of 2 | `CompleteOrFailed`, `CodeSeesItsProject`, `RangesArePrecise` |
| `linter_ci` | 14 command lines and environments, 5 configurations, 8 outcomes of the scan and 3 of that of the history, 2 attempts of each kind, 1 kill | `AppStaysConsistent`, `VerdictMatchesFindings`, `InstalledIsWhole`, `HeadFollowsPullRequest`, `CommandEnds` |
| `linter_mcp` | 14 sessions of up to 3 calls or 4 hooks, a list of 2 edits | `TempIsOwned`, `EditsAreScanned`, `CallsEnd` |
| `linter_command` | 12 pairs of commands with 4 settings files, 20 tests, 1 kill | `SettingsAreSound`, `ShownIsWhole`, `ExitCodeTells` |

Each of these passes or fails as `PROJECT.json` says; `TypeOK` is checked in
each passing run.

The bounds are small but reach the cases that matter. Two clients, the
initializer and the stopper are four callers over one connection; a channel of
capacity 1 is full after one frame, so every wait for room and every dropped
frame occurs; server id 2 is the id of the first request after the handshake,
so it collides. The last id is reserved for the Stopper, so that the bound on
ids never stands in for a blocked shutdown. Three switches give a start, a
stop overtaking it, and a second start; three clicks give a run, a run waiting,
and a cancellation behind both. In the linter two copies of one piece of code
are the fewest whose index matters, one file renamed and changed the fewest
that the baseline can mistake, two edits the fewest of which a reset destroys
one and keeps the other, two commands the fewest that race, and one kill
in the middle followed by a full run is what recovery has to face; limits
(posts, polls, edits, shards, pipe) are two or three so that both the step
below and the step at the limit occur. The scenarios are listed, not
enumerated: each names the case it is for. The version bounds are all pairs,
so every order of epoch, pre, post, dev and local parts that the key
distinguishes meets every range. Deadlock is checked in `linter_core`
only, whose pipeline must not stop half way (it would, if only one of the
engine's two pipes were read before the other was at its end); elsewhere, with bounded ids,
switches, edits and clicks, and a user who need not act, each system may
really come to rest; what must not stop is stated as a liveness property.

### Fairness

Tokio and the browser run every task that is ready and fire every timer, so
callers, commands, callbacks and background tasks are weakly fair. A sender
waiting for room in Tokio's bounded channel is served in its turn, hence
strong fairness for `Enqueue`, `Acknowledge` and `SendExit`. Nothing obliges
the user. rust-analyzer need not answer; `FairSpec` of `LspHost` assumes only
that it goes on reading its stdin while it lives. In `CargoBuild`, `EndingSpec` adds that every cargo ends, which the
passing run needs; `cargo_cancel` uses `FairSpec`, without it, because to
cancel a build that would not end is what cancelling is for. In `LspSession`
`spawn` and `shutdown` return: that is `RequestReturns` of `LspHost`.

`LinterCi` assumes only that the job goes on (`WF_vars(Step)`); the network and
the app may fail every request, and `CommandEnds` holds because every loop
counts. `LinterMcp` assumes that the event loop runs each call that can go on
and that a daemon that lives answers the line it has read; a dead daemon closes
the pipe, which readers see. Users need not answer, so a call that waits for a
verdict counts as ended in `CallsEnd`. The other linter modules state no
liveness and need no fairness.

### Disagreements found

Two are refuted by a run:

* **A server without a manager** (`lsp_session_manager`): `lsp_stop` cancels
  the token of a start that is still spawning; the server is stored all the
  same and its diagnostics go nowhere.
* **Cancel does not cancel** (`cargo_cancel`): the command waits for the mutex
  that the build holds.

The others were met while modelling. The modules do what the code does. Where
one of these cases touches what a property says, the property is stated so as
to set exactly that case aside, and its comment names the exception; the others
lie beside what the properties speak of.

In the back end and the front end:

* `request` may wait for ever: `send().await` on the writer channel is outside
  the 120 s timer (`lsp/lsp_host.rs:128`), although its doc says it "Returns an
  error on timeout or server failure". A rust-analyzer that stops reading its
  stdin blocks the shutdown the same way.
* When rust-analyzer refuses `initialize` with an error, or answers it with
  null, `request` returns `Null`, and `send_initialize` returns `Ok` without
  having sent `initialized` (`lsp/lsp_host.rs:263`): the host is used all the
  same. `HandshakeFirst` excepts this one case.
* A listener that cannot be registered rejects outside the `try` of `start`
  (`src/hooks/useLsp.ts:109`, `:120`): `isLspStarting` stays raised, bars every
  later start, and the status bar goes on saying starting. `StartIsShown`
  excepts it.
* Versions begin at 1 again after a cleanup. A sync of the session before that
  comes late overwrites the text of the new one, whose syncs the cache then
  ignores until they have counted as far (`lsp/cache_engine.rs:97`).
  `CacheIsNewest` therefore speaks of commands of one session. Within one, a
  `didOpen` that reaches the cache after a later sync puts it back to the text
  of the open.
* The error of an open made before a cleanup makes the hook forget one made
  after it (`src/hooks/useLsp.ts:165`), so that the document is opened twice;
  `OpenedOnce` speaks of the first session only.
* Switching folders while another folder's server starts makes the effect of
  `useLsp` return early, for good (`src/hooks/useLsp.ts:93`); its comment only
  means "duplicate startups for the same workspace".
* `didChange` goes out in the order commands happen to reach `notify`, without
  the version check that protects the cache (`commands/lsp_commands.rs:183`),
  so rust-analyzer can keep an old text.
* The finished event of one cargo run clears `isBuilding` during the next
  (`src/hooks/useCargoDiagnostics.ts:122`).

In the linter's scan and engine:

* Join rules are joined without their baseline; in a diff scan an old match is
  reported as new (`run_scan.py:519`). A finding of a renamed file whose
  baseline scan failed is reported as new, for the failure is recorded under
  the old name.
* A diff scan of a dirty checkout from a subdirectory fails: that directory of
  the worktree is entered before the worktree is checked out (`git.py:558`).
* An edit made after the checkout was found clean (`git.py:528`) and before the
  second `git reset --hard` (`git.py:539`) is destroyed. `TreeRestored` says
  that these edits, and no others, are lost.
* The errors of a join rule's own scan are dropped: to rebuild them `ERROR_MAP`
  is looked up with a value that is not there, and what that raises is logged
  (`join_rule.py:530`).
* With SARIF, fixes of suppressed findings are applied too.
* The exit code is that of the last structured error only (`output.py:490`).
* Of rules that differ only in their metadata the first is kept "from left to
  right" (`config_resolver.py:748`), but configurations stand in the order in
  which threads finished (`config_resolver.py:536`). An ordinary rule is
  dropped when a rule about dependencies has its id.
* The index that tells copies of one piece of code apart follows the order in
  which results arrive (`core_output.py`).
* An RPC answer left unread after noise on the pipe is taken for the answer to
  the next call (`rpc.py:524`).
* `build_dependencies_by_lockfile` overwrites the entry of a file that two
  subprojects share.
* Go pre-releases are compared the wrong way round (`semdep/golang_version.py:280`),
  and a range of two numbers raises and ends the scan.
* A pre-release of a dependency is in no range that does not start at a
  pre-release (`specifiers.py:752`), so such an installed version is not
  reported.

In `ci`, the MCP server and the hooks:

* Errors of a command that fails before the app's configuration is fetched are
  not suppressed, although the administrator asked for it (`commands/ci.py:569`).
* A merge base provided by the app is not seen by the choice of the engine.
* Of the scan of the history only `.kept` is merged (`commands/ci.py:1052`):
  what a comment suppresses there never reaches the app as ignored, which
  `AppStaysConsistent` excepts. A secret that is both in the checkout and in the
  history is sent twice under one id.
* The way back from the head of a pull request is by hash
  (`commands/ci.py:134`): a checkout that was on a branch is left off it. It may
  fail, and nobody is told; and if the checkout was on the base branch, the
  fetch with `--update-head-ok` has moved it (`meta.py:380`), so that it is left
  at the new tip. `HeadFollowsPullRequest` names all three.
* Two Pro installations at once write one temporary file (`commands/install.py`).
* After a cancelled call the daemon's answer stays in the pipe and is read by
  the next call (`mcp/semgrep_context.py:81`); a daemon that died is never
  replaced.
* Two files with one base name overwrite each other in the temporary directory
  (`mcp/server.py:241`), a custom rule overwrites code called `rule.yaml`
  (`mcp/server.py:812`), and of two hooks that read the list before either
  writes it one loses its edit (`mcp/hooks/stop.py:74`); `EditsAreScanned`
  speaks of the edits in `ledger`, which these are not.

In the other commands:

* A command that started before a `login` saves its older copy of the settings
  and erases the token (`settings.py:117`); in a home that cannot be written
  `login` prints that it saved, and exits with 0, with nothing saved
  (`commands/login.py:63`, `settings.py:135`), which `ExitCodeTells` excepts.
* With `--quiet` the notice of the metrics reaches no handler (`terminal.py:75`,
  `commands/scan.py:926`), and is recorded as shown (`notifications.py:48`), so
  the user never sees it. `SettingsAreSound` allows for it.
* The exit code 1 of a `ci` with blocking findings becomes 2, or 0 if errors are
  suppressed, when the cache of the version check cannot be written
  (`commands/ci.py:1357`); `ExitCodeTells` excepts the 0.
* Every read of the version cache renews its time, so daily use never
  refreshes it; in a home that cannot be written the version check raises, and
  a clean scan exits with 2 (`app/version.py:167`).
* `--test`: a mismatch of rule ids exits with 2 where the docstring says 1
  (`test.py:139`); two configurations that fix one target share its copy;
  configurations that could not be scanned with are left out of the verdict
  unless `--strict` is given (`test.py:513`); the error of a scan for a fix is
  thrown away and its target compared unfixed (`test.py:608`); and
  `--config` with a file and a target directory raises `IndexError`.
* The wrapper's docstring keeps exit code 1 for findings
  (`commands/wrapper.py:31`); `--test` uses it for failed tests.

## What is proved

Every safety property of the nine state machines that a run finds true is
proved, with one exception (`RangesArePrecise`, below), for every value of the
constants that the assumption of its module admits; TLC evaluates that
assumption on every run. Each proof has the same shape: an inductive
invariant `IInv` with the property among its parts or its consequences, a lemma
for what a group of actions does to one part, and a theorem that reads the
property off.

### The host and the builds

`LspHostProofs` proves, for any finite or infinite set of clients, any number
of ids and any capacities, from `HostAssumption` alone (the initializer and the
stopper are not clients, capacities are positive, there are at least two ids):

| Theorem | States |
|---|---|
| `TypeCorrect` | `Spec => []TypeOK`, with the capacity of each channel |
| `AnswersAreOwn` | a caller returns only what was answered to its own request |
| `IdsAreDistinct` | no two callers work under one id |
| `AnswersAreNotLost` | an unanswered caller is in the pending map |
| `ResponsesAreKept` | no response reaches the DiagnosticManager |
| `HandshakeIsFirst` | nothing else is sent before the handshake, and nothing of it after anything else |
| `Refinement` | `Spec => ImplementsRemoteCall` |

None of these invariants is inductive alone. `IInv` adds what they lean on:

* `Numbering`: every id in a channel, with rust-analyzer, or with a caller has
  been given out. Without it a fresh id could already be somewhere.
* `Replies`: a response in the pipe, or in a oneshot, is the answer
  rust-analyzer gave under that id. This carries `AnswerIsOwn` through
  reordering and lateness.
* `Registered`: an id whose answer is still to come (wanted by a caller, in the
  writer channel, or read by rust-analyzer), or is in the pipe, is in the
  pending map, and each id has at most one response in the pipe. Because the
  timer does *not* remove entries, a late response still finds its entry: this
  is why `ResponsesStayInHost` holds, and why a timer that cleans up would
  break it.
* `Spawn`: until the handshake is over the Initializer is the only caller.
* `Ordered` and `Greeted`: who has the handle has it after rust-analyzer read
  and answered `initialize`, and, unless it refused, with `initialized` ahead of
  all that can still be sent. `HandshakeIsFirst` reads what a frame has ahead of
  it in the channel or with rust-analyzer off these.

`RegisteredStep` and its siblings prove one conjunct group each, with a step per
action; `InvStep` joins them. The refinement maps a call to *open* from its id
to its return, its reply to what was answered under its id; `CallsStep` matches
each action with `Ask`, `Decide`, `Return`, `Fail` or a stutter.

`CargoBuildProofs` proves, for any number of clicks (`CargoAssumption`: at
least one) and a cargo that may fail, hang or end at any time:

| Theorem | States |
|---|---|
| `TypeCorrect` | `Spec => []TypeOK`, and no op is twice in the queue of the lock |
| `CargoIsAlone` | two cargo processes never run at once |
| `ActiveProcess` | `active_process` is the process that runs |
| `EventsAreTimely` | no event is emitted after its command returned |

Its `IInv` says why. `Queueing`: the queue of the lock holds exactly the ops
between arrival and release, once each. `Serial`: whoever is past `Run` is at
the head of that queue, is the active process, and is not cancelled, for a
canceller would have to be at the head too. `Attended`: a cargo runs, and has
unread output, only while its command waits for it. `Traceless` and `InStep`
say that an op which has not come to its run left nothing behind, and at which
points of the hook a command may be. `Join` and `Release` are the facts about
queues; `Alone`, `Only` and `HolderStays` apply them; `QueueStep` and
`PartsStep` have one step per action. TLC finds `IInv` invariant with three
clicks.

### Sessions and documents

`SessionProofs` holds for any set of folders and any
number of switches (`SessionAssumption`: no folder is the absence of one), and
for any number of edits, clicks and sessions (`DocAssumption`).

| Theorem | States |
|---|---|
| `SessionTypeCorrect` | types; a command that shuts a host down holds one |
| `StartsNeverOverlap` | `StartsAreSerial` |
| `ServersAreNeverLost` | `NoOrphanServer` |
| `DocTypeCorrect` | types; one version per edit or click at most |
| `CacheNeverFallsBack` | `CacheIsNewest` |
| `OneOpenAtATime` | `OpenedOnce` |

That no server is lost rests on the flag of the hook, on the other side of the
`invoke`: `StartsAreSerial` and `StartFollowsJs` tie each `lsp_start` to the run
that holds `isLspStarting`; therefore (`SlotIsEmpty`) nobody stores a host
between the moment one start took the old host and the moment it stores its
own; and `Owned` names, for each server, who will shut it down. For the cache
the point is that commands on their way carry versions that were given out
(`VersionsGivenOut`), that nothing in `applied` is ahead of the cache (`CacheLeads`), and that of two
commands of one session the one with the higher version has the later text
(`TextsFollowVersions`); `FirstSession` says where the one `didOpen` can be.

### A scan

`LinterScanProofs` holds for all repositories, command lines and failures that
satisfy `ScanAssumption`: trees are finite, their files are sequences of lines,
the errors that a failure stands for are those of the engine, and the engine
does not run the join rule.

| Theorem | States |
|---|---|
| `ScanTypeCorrect` | types; findings have distinct keys |
| `CheckoutComesBack` | `TreeRestored` |
| `DiffScanIsExact` | `NewFindingsExact` |
| `ExitIsTheOutcome` | `ExitTells` |

`DiffScanIsExact` is the deepest. Findings arrive in any order and copies of one
piece of code are numbered in that order, so a number alone means nothing.
`Full` says that the numbers found for a piece of code are 0 up to its
occurrences less one, whatever the order (`AddAllKeys`, `NumbersHaveNoGap`);
hence, if the baseline has `b` copies and the head more, exactly the numbers
from `b` up are new (`Remainder`). It needs `Status`, that git knows the old
name of every renamed file and that an added file is not in the base, and
`HeadFound`, which keeps the head's part while the baseline is scanned. `Repo`
is the table of what checkout, branch, worktree and directory are at each
point, and `Wanted` what of the edits the checkout should have at the end, from
which `TreeRestored` follows, since an edit is either kept by every step or made
while a reset is due; `Errors` says which exceptions can be
on their way up.

### The pipeline behind a scan

`LinterCoreProofs` holds for any repository, configurations, options, sizes of
pipes and shards, and failures that satisfy `CoreAssumption` (a disk is finite,
the number of jobs is a natural number, a configuration is of a kind that
`ConfigLoader` tells apart, its files have ids of their own, and a rule has the
fields that `Rule.__init__` gives it, and a size) and `ShardAssumption` (the
limits of `_shard_rules` are natural numbers, two of them positive).

| Theorem | States |
|---|---|
| `ScanInvariant` | `Spec => []IInv` |
| `CoreTypeCorrect` | types; no temporary file outside a run of the engine, the session closed at every end, pipes within their size, nothing both skipped and to be resolved |
| `ProjectsAreSeen` | `CodeSeesItsProject` |
| `ScansAreComplete` | `CompleteOrFailed` |
| `VersionsAreOrdered` | comparison is a total order of the keys of versions |
| `StagesAreOrdered` | pre- and development releases, post-releases, local versions and zeros at the end stand where PEP 440 puts them |
| `RangesAreIntervals` | a release between two releases of a range is in the range |

`ScansAreComplete` follows a rule from its file to its findings. `Loading` and
`Parsing` say that until an error that ends the scan has been met, every rule
of the configurations read so far, and of the files that some thread has
parsed, is in the list, in whatever order the threads finish. `HasRules` keeps
one of each rule that differs in more than its metadata, which is what
`Deduplicate` leaves. `Engine` says that the plan
of the run is that of those rules, and `Looked` that each file the engine is
done with has its matches or its timeout on record; `Ends` that a scan that
ended well let the engine finish, and reports no error that would have stopped
it. `ProjectsAreSeen` rests on `Projects`: what is skipped is what was found
less `Relevant`, or nothing, and no entry of the list to be resolved is the
same subproject as a skipped one.

The lemmas are about the operators the pipeline is built from: an order lists
every element of a finite set exactly once (`Listed`, `PickedAll`); a matcher
makes finitely many subprojects of any finite set of files, and hence so does
the whole list of matchers (`MatcherMakes`, `SubprojectsFound`); every rule is
in some shard, whatever the sizes (`AllAssigned`: the assignment is a recursive
function on naturals, and `Induction`, from the well-foundedness of `<`, shows
that it is one); deduplication loses no rule (`Deduplicated`); the plan has a
task for every file that a rule selects (`Planned`).

The order of versions is that of tuples of tuples, twice the same step:
`LexOrders` says that comparing sequences at their first difference orders them
whenever their elements are ordered. `KeyParts` names the six parts of a key
and `PlaceDecides` compares two keys at one of them, which gives
`StagesAreOrdered`. `RangesAreIntervals` adds `BaseBetween`, that what lies
between two versions with one epoch and release has that epoch and release,
because `>` leaves out the post-releases of its own version
(`specifiers.py:530`). It leaves out `>` with a pre-release, for which it is
false: `>1.0a1` holds of 1.0 and of 1.1 but not of 1.0.post1.

### The ci command

`LinterCiProofs` holds for any command lines, configurations, outcomes and
bounds that satisfy `CiAssumption`: a request is sent at least once, `--engine`
names an engine, no error has the exit code of findings, and the findings of
one scan have ids of their own (those of the other scan may have the same).

| Theorem | States |
|---|---|
| `CiTypeCorrect` | types |
| `EngineIsChecked` | `InstalledIsWhole` |
| `AppIsNeverMisled` | `AppStaysConsistent` |
| `VerdictIsThatOfFindings` | `VerdictMatchesFindings` |
| `HeadIsThatOfPullRequest` | `HeadFollowsPullRequest` |

Each has its part of `IInv`: `Installs` (what is about to be renamed was checked
and the old engine is gone, at whatever step a job is killed), `Upload` (where
in the command the app can have been told what), `Findings` and `Verdict` (what
of both scans was kept or removed, what of it blocks, and that no code chosen
earlier looks like theirs), and `HeadIsKnown` (which commit and branch the
checkout and the way back are at; only a checkout that was on the base branch
is ever at its tip, and none that is at the head of the pull request is on a
branch).

### The MCP server and the hooks

`LinterMcpProofs` holds for any calls and hooks, any limit of the list and any
scenarios (`ScenarioAssumption`: a scenario's calls and hooks are among those
of the model, and an edit is that of a file).

| Theorem | States |
|---|---|
| `McpTypeCorrect` | types, the limit of the list, no path twice in it, one reader of the pipe |
| `CopiesGoWithTheirMakers` | `TempIsOwned` |
| `NoEditEscapes` | `EditsAreScanned` |

`LedgerIsKept` carries the last one: every list in the hands of a hook that has
been, or will be, taken for the file's contains the ledger, and so does the file
while nobody writes it. `ListsAreSound` keeps such a list within the limit and
without repetition when an edit moves to its end, and `CopiesAreThere` says
that what a stop hook scans is what its list names.

### The commands

`LinterCommandProofs` holds for any processes, any settings to start with, and
any trees of tests (`CommandAssumption`: the app accepts no empty or torn token
and answers in JSON, trees are finite, and no error has the exit code of
findings).

| Theorem | States |
|---|---|
| `CommandTypeCorrect` | types; an exit code exactly when a command is done |
| `SettingsStaySound` | `SettingsAreSound` |
| `MessagesAreWhole` | `ShownIsWhole` |
| `CodesTellTheTruth` | `ExitCodeTells` |

`Sound` makes the settings inductive by asking of every copy in memory what is
asked of the file, for any copy may be saved last, and of a command between the
notice and its record what the record will say. `Answered` does the same for
the version cache: what parses is whole, and what a command holds came from
something that parsed. `Flow`, `LoggingIn` and `Succeeded` relate a command's
place to what it has done. `TestRun` is about the threads of one `--test`: a
target of one configuration has one worker, and `Worked` says what its copy
holds at each of the worker's steps, one whose scan failed included, so that
the other threads do not matter; `Told` is what `ExitCodeTells` says of one
command, and `FixedPassed` and `AnnotatedFailed` what the comparison at the end
finds.

TLC finds every `IInv` above invariant on the instance of its run.
`IdsAreDistinct` and `ResponsesAreKept` of `LspHost`, `ActiveProcess`, and the
theorems about versions are not repeated in a run: they cover every instance.

### Only model-checked

* Every liveness property: `RequestReturns`, `ShutdownEnds`, `StartIsShown`,
  `ClickSettles`, `CommandEnds`, `CallsEnd`. They need fairness, hence
  `ENABLED`, and induction over the progress that is left.
* `RangesArePrecise` of `LinterCore`. It compares what is reported with the
  place `core` in the order of PEP 440 that a scenario gives each version. To
  assume of all scenarios that `core` agrees with the comparison of keys would
  be to assume the property. What it rests on is proved instead, for all
  versions: `VersionsAreOrdered`, `StagesAreOrdered`, `RangesAreIntervals`.
* The two properties that runs refute.

No module declares a `RECURSIVE` operator, so that proofs about all of them
remain possible.

## What is not modelled, and why

*Back end and front end.* Frame encoding and JSON; the text of diagnostics,
hovers and completions; malformed frames from rust-analyzer;
`lsp_close_document`, whose hook has no caller; edits with a range, which
`syncDoc` never sends; the analysis-pending map, which nothing acts on. The
sequential components of the inventory (rope, resolver, mapping, syntax) have
unit tests and no interleavings. The one-shot commands share no state. Saving,
terminals, the embedded debugger and the edit stack are planned below. A server
message dropped because the channel of 512 is full is an outcome of `Dispatch`,
but no doc promises its delivery; a start whose `initialize` fails may leave
its child to the reaper, which `NoOrphanServer` excepts.

*Linter.* The engine itself and the language parsers (OCaml, external);
`semgrep_interfaces`, generated readers and writers of records, which are a
quarter of the Python sources; the vendored parser combinators; formatters, the
progress bars, the metrics payload, telemetry and profiling, which no decision
reads; the grammars of lockfiles (a file is the set of its entries); YAML and
JSON schema validation (a rule says which check it fails); glob syntax below
whole path segments; OAuth, prompts and resources of the MCP server; the
`debugger` directory.

## Plan

Built: the modules above, and the proofs of every safety property but
`RangesArePrecise`. Next, in this order:

1. `SaveFlow`: save, edit and reload in `EditorLayout` over `fs/reader.rs`;
   the dirty flag, the shared temporary file, a crash between write and rename.
2. `Terminal` and `DebugSession`: sessions, reader loops and events without a
   generation; `EditStack` against an abstract history.
