----------------------------- MODULE LinterScan -----------------------------
(***************************************************************************)
(* One `scan` of the linter's Python command line (commands/scan.py and    *)
(* run_scan.py), from its rules to its exit code: the scan of the current  *)
(* checkout, the optional scan of the baseline commit inside               *)
(* BaselineHandler.baseline_context (git.py), the filters of RuleMatch,    *)
(* the fixes, and OutputHandler.output.  Meanwhile the user may edit the   *)
(* checkout, and any git command may fail.                                 *)
(*                                                                         *)
(* A tree maps the files it has to their lines; a line is                  *)
(* [rule, ctx, ignored, fix].  A search rule finds its lines one by one;   *)
(* the join rule (join_rule.py) finds a line of its right half when a line *)
(* of its left half has the same ctx.  The checkout is on a branch whose   *)
(* tip is `head`; `base` is the merge base with the baseline commit.       *)
(***************************************************************************)
EXTENDS RuleMatch

CONSTANTS
  Scenarios,   \* trees [base, head, start] a scan may begin with
  Options,     \* command lines
  Failures,    \* sequences of errors a run of semgrep-core may report
  JoinRule, JoinLeft, JoinRight,   \* the join rule and its two inline rules
  EditLine,    \* what the user adds to a file
  MaxEdits     \* bound: edits of the user during one scan

VARIABLES
  opts,        \* the command line
  commits,     \* [base, head]: trees of the two commits
  start,       \* the user's checkout when the scan began
  work,        \* the user's checkout
  branch,      \* the commit its HEAD is at
  worktree,    \* the linked worktree of the baseline scan
  cwd,         \* the directory the scan runs in
  edits,       \* files the user edited during the scan
  lost,        \* those that were edited while the checkout was being reset
  status,      \* BaselineHandler.status
  matches,     \* rule_matches_by_rule
  baseErrors,  \* baseline_semgrep_errors
  structured,  \* OutputHandler.semgrep_structured_errors
  filtered,    \* FilteredMatches
  fixed,       \* edits that autofix applied
  raised,      \* code of the exception on its way up, if any
  restored,    \* whether the clean-up of baseline_context succeeded
  exit,        \* exit code
  pc

repoVars == <<commits, start, work, branch, worktree, cwd, edits, lost>>
matchVars == <<status, matches, baseErrors>>
outVars == <<structured, filtered, fixed, raised, exit>>
vars == <<opts, repoVars, matchVars, outVars, restored, pc>>

Files(tree) == DOMAIN tree
LinesIn(tree) == UNION {{tree[p][i] : i \in DOMAIN tree[p]} : p \in Files(tree)}

Lines == {EditLine} \cup UNION {LinesIn(s.base) \cup LinesIn(s.head) \cup LinesIn(s.start) : s \in Scenarios}
IsTree(tree) == IsFiniteSet(Files(tree)) /\ tree \in [Files(tree) -> Seq(Lines)]

(* A SemgrepError is raised by Python, semgrep-core reports other kinds;   *)
(* and semgrep-core does not run the join rule.                            *)
CoreErrors ==
  {e \in UNION {ToSet(f) : f \in Failures} :
     DOMAIN e = {"kind", "level", "rule", "path", "code"} /\ e.kind # "SemgrepError"}

ASSUME ScanAssumption ==
  /\ \A s \in Scenarios : IsTree(s.base) /\ IsTree(s.head) /\ IsTree(s.start)
  /\ \A f \in Failures : f \in Seq(CoreErrors)
  /\ \A l \in Lines : l.rule # JoinRule

Phases == {"config", "handler", "scan", "decide", "strategy", "reset", "add worktree",
           "chdir", "checkout", "baseline", "restore", "remove worktree", "filter",
           "fix", "output", "done"}

TypeOK ==
  /\ opts \in Options
  /\ branch \in {"head", "base"}
  /\ worktree \in {"none", "added", "ready"}
  /\ cwd \in {"checkout", "worktree"}
  /\ edits \subseteq Files(work) \cup Files(start) \cup Files(commits.base)
  /\ lost \subseteq edits
  /\ \A m, n \in matches : CiUniqueKey(m) = CiUniqueKey(n) => m = n
  /\ exit \in {NoCode, OK, FINDINGS, FATAL, TARGET_PARSE_FAILURE, MISSING_CONFIG}
  /\ raised \in {NoCode, FATAL, MISSING_CONFIG}
  /\ pc \in Phases

Init ==
  /\ opts \in Options
  /\ \E s \in Scenarios : /\ commits = [base |-> s.base, head |-> s.head]
                          /\ start = s.start /\ work = s.start
  /\ branch = "head" /\ worktree = "none" /\ cwd = "checkout"
  /\ edits = {} /\ lost = {}
  /\ status = [added |-> {}, modified |-> {}, renamed |-> << >>]
  /\ matches = {} /\ baseErrors = << >>
  /\ structured = NoErrors
  /\ filtered = [kept |-> {}, removed |-> {}]
  /\ fixed = {}
  /\ raised = NoCode /\ restored = "yes" /\ exit = NoCode
  /\ pc = "config"

Goto(l) == pc' = l
Raise(code, l) == raised' = code /\ pc' = l

-----------------------------------------------------------------------------
(* Git                                                                     *)

(* git diff pairs a removed file with an added one that resembles it.      *)
Renamings(old, new) ==
  LET Alike(n, o) == \E i \in DOMAIN new[n], j \in DOMAIN old[o] : new[n][i] = old[o][j]
      Gone == Files(old) \ Files(new)
      Fresh == Files(new) \ Files(old)
  IN  {r \in UNION {[D -> Gone] : D \in SUBSET Fresh} :
         /\ \A n \in DOMAIN r : Alike(n, r[n])
         /\ \A m, n \in DOMAIN r : r[m] = r[n] => m = n}

(* _get_git_status: the index against the merge base; a renamed file       *)
(* counts as added under its new name and removed under its old one.       *)
GitStatus(old, new, renaming) ==
  [added    |-> Files(new) \ Files(old),
   modified |-> {p \in Files(old) \cap Files(new) : old[p] # new[p]},
   renamed  |-> renaming]

(* The checkout after `git reset --hard`.                                  *)
IsRepoClean == work = commits[branch]

-----------------------------------------------------------------------------
(* Rules                                                                   *)

Match(rule, p, i, line) ==
  [rule |-> rule, path |-> p, line |-> i, ctx |-> line.ctx, ignored |-> line.ignored,
   fix |-> line.fix, index |-> 0]

LinesOf(tree, targets) ==
  UNION {{<<p, i>> : i \in DOMAIN tree[p]} : p \in targets \cap Files(tree)}

(* What semgrep-core finds for the search rules; a rule that failed on a   *)
(* file, or a file that failed, has no findings there.                     *)
CoreMatches(tree, targets, rules, errors) ==
  {Match(tree[l[1]][l[2]].rule, l[1], l[2], tree[l[1]][l[2]]) :
     l \in {k \in LinesOf(tree, targets) :
              /\ tree[k[1]][k[2]].rule \in rules
              /\ k[1] \notin FileWidePaths(errors)
              /\ <<k[1], tree[k[1]][k[2]].rule>> \notin RuleScopedPaths(errors)}}

(* create_model_map, load_results_into_db: a table for each half of the    *)
(* join rule, with the findings of the scan of its own that run_join_rule  *)
(* makes over the scanning roots, nosemgrep honoured.                      *)
Collection(tree, roots, half) ==
  {l \in LinesOf(tree, roots) : tree[l[1]][l[2]].rule = half /\ ~tree[l[1]][l[2]].ignored}

(* match_on_conditions: the right-hand side of each pair whose             *)
(* metavariables are equal.                                                *)
MatchOnConditions(tree, lefts, rights) ==
  {r \in rights : \E l \in lefts : tree[l[1]][l[2]].ctx = tree[r[1]][r[2]].ctx}

(* json_to_rule_match: it drops the fix.                                   *)
JsonToRuleMatch(tree, l) ==
  [Match(JoinRule, l[1], l[2], tree[l[1]][l[2]]) EXCEPT !.fix = FALSE]

(* run_join_rule.                                                          *)
JoinMatches(tree, roots) ==
  {JsonToRuleMatch(tree, r) :
     r \in MatchOnConditions(tree, Collection(tree, roots, JoinLeft), Collection(tree, roots, JoinRight))}

(* Rules that semgrep-core could not parse: it does not run them.          *)
Unparsed(errors) == {e.rule : e \in {f \in ToSet(errors) : f.kind = "RuleParseError"}}

(* run_rules: what it may return.  Search rules go through semgrep-core,   *)
(* whose results come in any order, then the join rule, which finds        *)
(* nothing when one of its conditions is not valid.                        *)
RunRules(tree, targets, roots, rules, errors) ==
  LET found == CoreMatches(tree, targets, rules \ ({JoinRule} \cup Unparsed(errors)), errors)
      joined == IF JoinRule \in rules /\ opts.join = "valid" THEN JoinMatches(tree, roots) ELSE {}
  IN  {AddAll(a) \cup AddAll(j) : a \in SetToSeqs(found), j \in SetToSeqs(joined)}

(* The errors that run_join_rule returns and run_rules reports at once.    *)
(* Those of its own scan never come back: ERROR_MAP is looked up with the  *)
(* value of a field the error does not have.                               *)
JoinErrors ==
  IF opts.join = "valid" THEN << >>
  ELSE <<[Raised(FATAL) EXCEPT !.kind = "InvalidConditionError"]>>

SearchRules ==
  {l.rule : l \in LinesIn(commits.base) \cup LinesIn(commits.head) \cup LinesIn(start)}
  \ {JoinLeft, JoinRight}

-----------------------------------------------------------------------------
(* The phases of a scan                                                    *)

(* Config.from_config_list, sanity_check_resolved_config.                  *)
LoadRules ==
  /\ pc = "config"
  /\ IF opts.config = "invalid"
     THEN /\ structured' = HandleErrors(structured, <<Raised(MISSING_CONFIG)>>)
          /\ Raise(MISSING_CONFIG, "output")
     ELSE Goto("handler") /\ UNCHANGED <<structured, raised>>
  /\ UNCHANGED <<opts, repoVars, matchVars, filtered, fixed, exit, restored>>

(* baseline_handler_opt: the commit must exist and git diff must work.     *)
OpenBaseline ==
  /\ pc = "handler"
  /\ \/ /\ \E r \in Renamings(commits.base, commits.head) :
             status' = IF opts.baseline THEN GitStatus(commits.base, commits.head, r) ELSE status
        /\ Goto("scan") /\ UNCHANGED raised
     \/ opts.baseline /\ Raise(FATAL, "output") /\ UNCHANGED status
  /\ UNCHANGED <<opts, repoVars, matches, baseErrors, structured, filtered, fixed, exit, restored>>

(* TargetManager narrows the targets of a diff scan to the changed files;  *)
(* the join rule is given the scanning roots themselves.                   *)
HeadTargets == IF opts.baseline THEN status.added \cup status.modified ELSE Files(work)

(* run_rules on the checkout, which reports the errors of the join rule;   *)
(* _raise_skipped_rule_validation_errors, for rules nobody has validated;  *)
(* and handle_semgrep_errors.  run_rules itself may raise, with the code   *)
(* of semgrep-core or of the join rule's own scan.                         *)
ScanHead ==
  /\ pc = "scan"
  /\ \/ \E failures \in Failures :
          LET errors == [i \in DOMAIN failures |-> CoreErrorToSemgrepError(failures[i])]
              joined == HandleErrors(structured, JoinErrors)
          IN  /\ matches' \in RunRules(work, HeadTargets, Files(work), SearchRules \cup {JoinRule}, errors)
              /\ IF opts.validation = "none" /\ Unparsed(errors) # {}
                 THEN Raise(MISSING_CONFIG, "output") /\ structured' = joined
                 ELSE /\ structured' = HandleErrors(joined, errors)
                      /\ Goto("decide") /\ UNCHANGED raised
     \/ /\ \E code \in {FATAL, MISSING_CONFIG} : Raise(code, "output")
        /\ UNCHANGED <<matches, structured>>
  /\ UNCHANGED <<opts, repoVars, status, baseErrors, filtered, fixed, exit, restored>>

(* baseline_run: the files worth scanning at the baseline.                 *)
BaselineTargets ==
  ({m.path : m \in matches} \cup {status.renamed[n] : n \in DOMAIN status.renamed})
  \ status.added

(* Skip the baseline when it cannot change anything, else enter            *)
(* baseline_context and look whether the checkout is clean.                *)
Decide ==
  /\ pc = "decide"
  /\ Goto(IF opts.baseline /\ matches # {} /\ BaselineTargets # {} THEN "strategy" ELSE "filter")
  /\ UNCHANGED <<opts, repoVars, matchVars, outVars, restored>>

(* print_git_log and the first commands of baseline_context, each of which *)
(* may fail before anything was changed.                                   *)
ChooseStrategy ==
  /\ pc = "strategy"
  /\ \/ Goto(IF IsRepoClean THEN "reset" ELSE "add worktree") /\ UNCHANGED raised
     \/ Raise(FATAL, "output")
  /\ UNCHANGED <<opts, repoVars, matchVars, structured, filtered, fixed, exit, restored>>

(* Mutant: the reset stands before the try.                                *)
ResetOutsideTry ==
  /\ pc = "reset"
  /\ work' = commits.base /\ branch' = "base"
  /\ \/ Goto("baseline") /\ UNCHANGED raised
     \/ Raise(FATAL, "output")
  /\ UNCHANGED <<opts, commits, start, worktree, cwd, edits, lost, matchVars, structured, filtered,
                 fixed, exit, restored>>

(* `git reset --hard merge_base`; a command that fails may have taken      *)
(* effect before it was cut off.                                           *)
ResetToBase ==
  /\ pc = "reset"
  /\ \/ /\ work' = commits.base /\ branch' = "base"
        /\ \/ Goto("baseline") /\ UNCHANGED raised
           \/ Raise(FATAL, "restore")
     \/ Raise(FATAL, "restore") /\ UNCHANGED <<work, branch>>
  /\ UNCHANGED <<opts, commits, start, worktree, cwd, edits, lost, matchVars, structured, filtered,
                 fixed, exit, restored>>

(* `git worktree add --no-checkout` makes an empty directory.              *)
AddWorktree ==
  /\ pc = "add worktree"
  /\ \/ worktree' = "added" /\ Goto("chdir") /\ UNCHANGED raised
     \/ Raise(FATAL, "remove worktree") /\ UNCHANGED worktree
  /\ UNCHANGED <<opts, commits, start, work, branch, cwd, edits, lost, matchVars, structured, filtered,
                 fixed, exit, restored>>

(* os.chdir to the same place inside the worktree, which is still empty.   *)
ChangeDirectory ==
  /\ pc = "chdir"
  /\ IF opts.subdir
     THEN Raise(FATAL, "remove worktree") /\ UNCHANGED cwd
     ELSE cwd' = "worktree" /\ Goto("checkout") /\ UNCHANGED raised
  /\ UNCHANGED <<opts, commits, start, work, branch, worktree, edits, lost, matchVars, structured,
                 filtered, fixed, exit, restored>>

CheckOut ==
  /\ pc = "checkout"
  /\ \/ worktree' = "ready" /\ Goto("baseline") /\ UNCHANGED raised
     \/ Raise(FATAL, "remove worktree") /\ UNCHANGED worktree
  /\ UNCHANGED <<opts, commits, start, work, branch, cwd, edits, lost, matchVars, structured, filtered,
                 fixed, exit, restored>>

CleanUp == IF cwd = "worktree" THEN "remove worktree" ELSE "restore"

(* run_rules on what the scan now sees, with only the rules that had a     *)
(* match and only the targets that exist; then remove_matches_in_baseline. *)
(* A rule that had a match can be parsed, and its conditions are valid.    *)
ScanBaseline ==
  /\ pc = "baseline"
  /\ LET tree == IF cwd = "worktree" THEN commits.base ELSE work
         roots == BaselineTargets \cap Files(tree)
         rules == {m.rule : m \in matches}
     IN  \/ /\ \E failures \in {f \in Failures : Unparsed(f) = {}} :
                 LET errors == [i \in DOMAIN failures |-> CoreErrorToSemgrepError(failures[i])]
                 IN  /\ baseErrors' = errors
                     /\ structured' = HandleErrors(structured, errors)
                     /\ \E found \in RunRules(tree, roots, roots, rules, errors) :
                          matches' = RemoveMatchesInBaseline(matches, found, status.renamed, errors)
            /\ UNCHANGED raised
         \/ raised' = FATAL /\ UNCHANGED <<matches, baseErrors, structured>>
  /\ Goto(CleanUp)
  /\ UNCHANGED <<opts, repoVars, status, filtered, fixed, exit, restored>>

AfterBaseline(code) == IF code = NoCode THEN "filter" ELSE "output"

(* The finally clauses.  _remove_worktree_with_check only logs a failure;  *)
(* the temporary directory goes in any case.                               *)
RestoreHead ==
  /\ pc = "restore"
  /\ \/ /\ work' = commits.head /\ branch' = "head" /\ Goto(AfterBaseline(raised))
        /\ UNCHANGED <<raised, restored>>
     \/ restored' = "no" /\ Raise(FATAL, "output") /\ UNCHANGED <<work, branch>>
  /\ UNCHANGED <<opts, commits, start, worktree, cwd, edits, lost, matchVars, structured,
                 filtered, fixed, exit>>

RemoveWorktree ==
  /\ pc = "remove worktree"
  /\ cwd' = "checkout"
  /\ \/ worktree' = "none" /\ UNCHANGED restored
     \/ restored' = "no" /\ UNCHANGED worktree
  /\ Goto(AfterBaseline(raised))
  /\ UNCHANGED <<opts, commits, start, work, branch, edits, lost, matchVars, outVars>>

(* A formatter such as SARIF asks for the suppressed findings.             *)
KeepIgnored == opts.disableNosem \/ opts.sarif

FilterNosem ==
  /\ pc = "filter"
  /\ filtered' = FilterIgnored(matches, KeepIgnored)
  /\ Goto("fix")
  /\ UNCHANGED <<opts, repoVars, matchVars, structured, fixed, raised, exit, restored>>

(* apply_fixes on what was kept; a dry run leaves the files alone.         *)
ApplyFixes ==
  /\ pc = "fix"
  /\ fixed' = IF opts.autofix = "apply" THEN FixesOf(filtered.kept) ELSE {}
  /\ Goto("output")
  /\ UNCHANGED <<opts, repoVars, matchVars, structured, filtered, raised, exit, restored>>

(* OutputHandler.output, and scan()'s handler of a SemgrepError, which     *)
(* reports it and ends with its code.                                      *)
Output ==
  /\ pc = "output"
  /\ LET errors == IF raised = NoCode THEN structured
                   ELSE HandleErrors(structured, <<Raised(raised)>>)
         shown == {m \in filtered.kept : opts.disableNosem \/ ~m.ignored}
     IN  /\ structured' = errors
         /\ exit' = ExitCode(IF raised = NoCode THEN shown ELSE {}, errors,
                             opts.errorOnFindings, opts.strict)
  /\ Goto("done")
  /\ UNCHANGED <<opts, repoVars, matchVars, filtered, fixed, raised, restored>>

(* The scan resets the checkout to the base, or will, or has done so.      *)
Resetting == pc \in {"reset", "restore"} \/ (pc = "baseline" /\ cwd = "checkout")

(* The user adds a line to a file of the checkout while the scan runs.     *)
Edit(p) ==
  /\ pc \notin {"config", "handler", "done"} /\ Cardinality(edits) < MaxEdits
  /\ p \in Files(work) \ edits
  /\ work' = [work EXCEPT ![p] = Append(@, EditLine)]
  /\ edits' = edits \cup {p}
  /\ lost' = IF Resetting THEN lost \cup {p} ELSE lost
  /\ UNCHANGED <<opts, commits, start, branch, worktree, cwd, matchVars, outVars, restored, pc>>

Next ==
  \/ LoadRules \/ OpenBaseline \/ ScanHead \/ Decide \/ ChooseStrategy
  \/ ResetToBase \/ AddWorktree \/ ChangeDirectory \/ CheckOut \/ ScanBaseline
  \/ RestoreHead \/ RemoveWorktree \/ FilterNosem \/ ApplyFixes \/ Output
  \/ \E p \in Files(work) : Edit(p)

Spec == Init /\ [][Next]_vars

-----------------------------------------------------------------------------
(* Properties                                                              *)

OldName(p) == IF p \in DOMAIN status.renamed THEN status.renamed[p] ELSE p

Occurrences(tree, p, rule, ctx) ==
  IF p \notin Files(tree) THEN 0
  ELSE Cardinality({i \in DOMAIN tree[p] : tree[p][i].rule = rule /\ tree[p][i].ctx = ctx})

Reported(p, rule, ctx) ==
  Cardinality({m \in matches : m.path = p /\ m.rule = rule /\ m.ctx = ctx})

New(p, rule, ctx) ==
  Occurrences(start, p, rule, ctx) - Occurrences(commits.base, OldName(p), rule, ctx)

OnlyNew ==
  \A m \in matches :
    \/ m.rule = JoinRule
    \/ OldName(m.path) # m.path /\ baseErrors # << >>
    \/ Reported(m.path, m.rule, m.ctx) <= New(m.path, m.rule, m.ctx)

AllNew ==
  structured.all = {} =>
    \A p \in HeadTargets \cap Files(start) : \A i \in DOMAIN start[p] :
      LET l == start[p][i]
      IN  l.rule \in SearchRules => Reported(p, l.rule, l.ctx) >= New(p, l.rule, l.ctx)

(* A diff scan reports, for a search rule, a file and a piece of code,     *)
(* exactly the occurrences that the checkout has over the merge base,      *)
(* under the file's old name: never more when part of a scan failed, and   *)
(* none missed without a failure.  The exceptions are a scan during which  *)
(* the user edited the checkout, and a renamed file whose baseline scan    *)
(* failed: the failure is recorded under the old name (baseline_run,       *)
(* remove_matches_in_baseline).                                            *)
NewFindingsExact ==
  pc = "done" /\ raised = NoCode /\ edits = {} /\ opts.baseline => OnlyNew /\ AllNew

(* The user's checkout as the scan found it, with what was added to files. *)
StartWith(files) ==
  [p \in Files(start) |-> IF p \in files THEN Append(start[p], EditLine) ELSE start[p]]

(* However the scan of the baseline ends, the user gets back the branch,   *)
(* directory and checkout the scan began with, and in it every edit made   *)
(* meanwhile.  There are two exceptions.  A git command of the clean-up    *)
(* itself may fail.  And `git reset --hard` destroys an edit made after    *)
(* _is_repo_clean found the checkout clean and before the second reset has *)
(* restored it (baseline_context): these edits, and no others, are lost.   *)
TreeRestored ==
  pc = "done" /\ restored = "yes" =>
    /\ branch = "head" /\ cwd = "checkout" /\ worktree = "none"
    /\ work = StartWith(edits \ lost)

(* The exit code tells what happened: FINDINGS only for a finding that was *)
(* shown, the code of the exception for a command that failed, and no      *)
(* success with --error while there is a finding.                          *)
ExitTells ==
  pc = "done" =>
    /\ raised # NoCode => exit = raised
    /\ exit = FINDINGS => \E m \in filtered.kept : ~m.ignored \/ opts.disableNosem
    /\ raised = NoCode /\ opts.errorOnFindings /\ (\E m \in matches : ~m.ignored) =>
         exit = FINDINGS
=============================================================================
