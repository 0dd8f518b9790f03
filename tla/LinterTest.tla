----------------------------- MODULE LinterTest -----------------------------
(***************************************************************************)
(* What `scan --test` (semgrep/test.py) makes of the rules and the test    *)
(* files it is given: which test files belong to which configuration,      *)
(* what their annotations expect, and when a rule passes.  The processes   *)
(* that run the tests are in LinterCommand.                                *)
(*                                                                         *)
(* A path is a sequence of names [stem, suf], suf the suffixes of the name *)
(* (foo.test.yaml is [stem |-> "foo", suf |-> <<".test", ".yaml">>]; a     *)
(* hidden name has the stem "").  A tree maps the paths of files to        *)
(* [rules, yaml, text]: the rules of a configuration, each [id, fix];      *)
(* whether it is "valid", "invalid" YAML of rules, or "broken" YAML; and   *)
(* the lines of a test file, [kind, ids], kind an annotation or "code",    *)
(* ids the rules annotated or the rules that match the line.               *)
(***************************************************************************)
EXTENDS Integers, Sequences, FiniteSets, SequencesExt

Annotations == {"ruleid", "todoruleid", "ok", "todook"}
EXIT_FAILURE == 2

-----------------------------------------------------------------------------
(* Files                                                                   *)

SuffixesOf(path) == Last(path).suf

IsConfigFixtestSuffix(path) == \E i \in DOMAIN SuffixesOf(path) : SuffixesOf(path)[i] = ".fixed"

IsConfigTestSuffix(path) ==
  IsSuffix(<<".test", ".yaml">>, SuffixesOf(path)) /\ ~IsConfigFixtestSuffix(path)

IsConfigSuffix(path) ==
  /\ IsSuffix(<<".yaml">>, SuffixesOf(path))
  /\ ~IsConfigTestSuffix(path) /\ ~IsConfigFixtestSuffix(path)

(* final_suffix_matches indexes the suffixes of both: a target without any *)
(* raises IndexError.                                                      *)
FinalSuffixMatches(target, fixtest) ==
  \/ IsConfigTestSuffix(target) /\ IsConfigTestSuffix(fixtest)
  \/ Last(SuffixesOf(target)) = Last(SuffixesOf(fixtest))

RelativeTo(path, root) == SubSeq(path, Len(root) + 1, Len(path))
Under(tree, root) == {p \in DOMAIN tree : IsPrefix(root, p) /\ p # root}
Parent(path) == Front(path)

(* relatively_eq: the target is at the configuration's place under its own *)
(* root, up to the suffixes; or in a directory of that name.               *)
RelativelyEq(target, config) ==
  /\ config # << >>
  /\ Len(target) >= Len(config)
  /\ LET s == Len(config) IN /\ SubSeq(target, 1, s - 1) = SubSeq(config, 1, s - 1)
                             /\ target[s].stem = config[s].stem

GetConfigFilenames(tree, root) ==
  IF root \in DOMAIN tree THEN {root}
  ELSE {c \in Under(tree, root) :
          /\ IsConfigSuffix(c)
          /\ Last(c).stem # ""
          /\ Len(c) > 1 => c[Len(c) - 1].stem # ""}

(* Where get_config_test_filenames looks: beside a target that is a file.  *)
TargetRoot(tree, root) == IF root \in DOMAIN tree THEN Parent(root) ELSE root

(* A configuration that is the root itself has no parts to compare.        *)
TargetsRaise(tree, config, target) ==
  config \in DOMAIN tree /\ target \notin DOMAIN tree /\ Under(tree, target) # {}

IsTarget(path) ==
  (IsConfigTestSuffix(path) \/ ~IsConfigSuffix(path)) /\ ~IsConfigFixtestSuffix(path)

GetConfigTestFilenames(tree, config, target) ==
  LET configs == GetConfigFilenames(tree, config)
      isFile == target \in DOMAIN tree
  IN  IF isFile /\ config \in DOMAIN tree THEN [c \in {config} |-> {target}]
      ELSE [c \in configs |->
              {t \in Under(tree, TargetRoot(tree, target)) :
                 /\ IsTarget(t)
                 /\ isFile \/ RelativelyEq(RelativeTo(t, target), RelativeTo(c, config))}]

Fixtests(tree, target) == {f \in Under(tree, TargetRoot(tree, target)) : IsConfigFixtestSuffix(f)}

FixtestsRaise(tree, target, targets) ==
  \E c \in DOMAIN targets : \E t \in targets[c] :
    SuffixesOf(t) = << >> /\ Fixtests(tree, target) # {}

GetConfigFixtestFilenames(tree, target, targets) ==
  LET root == TargetRoot(tree, target)
  IN  [c \in DOMAIN targets |->
         {pair \in targets[c] \X Fixtests(tree, target) :
            /\ FinalSuffixMatches(pair[1], pair[2])
            /\ RelativelyEq(RelativeTo(pair[1], root), RelativeTo(pair[2], root))}]

-----------------------------------------------------------------------------
(* Annotations and findings: sets of <<rule, line>>                        *)

(* An annotation is about the line below it.                               *)
Annotated(text, kinds) ==
  UNION {{<<r, i + 1>> : r \in text[i].ids} :
           i \in {j \in DOMAIN text : text[j].kind \in kinds}}

LinesReported(text, rules) ==
  UNION {{<<r, i>> : r \in text[i].ids \cap rules} :
           i \in {j \in DOMAIN text : text[j].kind = "code"}}

RuleIds(config) == {r.id : r \in config.rules}

(* invoke_semgrep_multi: an exception, of invalid rules or of the scan,    *)
(* becomes the error of its configuration; errors is what semgrep-core     *)
(* could not analyse.                                                      *)
InvokeSemgrepMulti(tree, config, targets, errors, fails) ==
  LET error == fails \/ tree[config].yaml # "valid"
  IN  [error |-> error,
       found |-> [t \in targets |-> IF error THEN {}
                                    ELSE LinesReported(tree[t].text, RuleIds(tree[config]) \ errors)],
       soft  |-> errors # {}]

(* check_rule_id_mismatch: once anything was reported, a file must report  *)
(* exactly the rules its annotations name.                                 *)
CheckRuleIdMismatch(tree, found) ==
  /\ \E t \in DOMAIN found : found[t] # {}
  /\ \E t \in DOMAIN found :
       LET named == {a[1] : a \in Annotated(tree[t].text, {"ruleid", "todoruleid", "ok"})}
       IN  named # {} /\ named # {a[1] : a \in found[t]}

Todo(text) == Annotated(text, {"todoruleid", "todook"})
ExpectedLines(text) == Annotated(text, {"ruleid", "todoruleid"}) \ Todo(text)
ReportedLines(text, found) == found \ Todo(text)

(* What a file's annotations expect of a rule, and what it reported.       *)
Lines(tree, found, t, rule) ==
  <<rule, t, ExpectedLines(tree[t].text), ReportedLines(tree[t].text, found[t])>>

(* Mutant: files with expectations only, as in the loop over the           *)
(* annotations that precedes it.                                           *)
GetExpectedAndReportedLinesOfAnnotated(tree, found) ==
  UNION {{Lines(tree, found, t, a[1]) : a \in Annotated(tree[t].text, {"ruleid", "todoruleid"})} :
           t \in DOMAIN found}

(* get_expected_and_reported_lines: by rule and file, what the annotations *)
(* expect and what was reported, without the lines marked todo.            *)
GetExpectedAndReportedLines(tree, found) ==
  UNION {{Lines(tree, found, t, a[1]) :
            a \in Annotated(tree[t].text, {"ruleid", "todoruleid"}) \cup found[t]} :
           t \in DOMAIN found}

LinesOfRule(lines, rule) == {a[2] : a \in {b \in lines : b[1] = rule}}

CheckidPassed(matches, rule) ==
  \A m \in matches : m[1] = rule => LinesOfRule(m[3], rule) = LinesOfRule(m[4], rule)

(* The checks of one configuration; soft errors fail those there are.      *)
AnyFailures(tree, output) ==
  LET matches == GetExpectedAndReportedLines(tree, output.found)
  IN  \E m \in matches : ~CheckidPassed(matches, m[1]) \/ output.soft

-----------------------------------------------------------------------------
(* Fixes                                                                   *)

Fixing(config) == {r.id : r \in {x \in config.rules : x.fix}}

(* A fix replaces the lines its rule matches.                              *)
ApplyFixes(text, lines) ==
  [i \in DOMAIN text |-> IF i \in lines THEN [kind |-> "fixed", ids |-> {}] ELSE text[i]]

LinesToFix(text, rules) == {a[2] : a \in LinesReported(text, rules)}

(* config_contains_fix_key reads the YAML of a configuration without fix   *)
(* tests, whether or not it could be scanned with.                         *)
ConfigContainsFixKeyRaises(tree, fixtests) ==
  \E c \in DOMAIN fixtests : fixtests[c] = {} /\ tree[c].yaml = "broken"
=============================================================================
