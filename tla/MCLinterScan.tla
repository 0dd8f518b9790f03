---------------------------- MODULE MCLinterScan ----------------------------
(* Scans of small repositories: what the two commits and the checkout hold *)
(* and the command lines they are scanned with.                            *)
EXTENDS LinterScan, TLC

L(rule, ctx) == [rule |-> rule, ctx |-> ctx, ignored |-> FALSE, fix |-> FALSE]
Nosem(l) == [l EXCEPT !.ignored = TRUE]
Fix(l) == [l EXCEPT !.fix = TRUE]

A == "a.py"
B == "b.py"
X == L("R", "x")
Y == L("R", "y")
S == L("S", "x")
J == L("JL", "k")
K == L("JR", "k")

MCEditLine == L("S", "e")

Clean(base, head) == [base |-> base, head |-> head, start |-> head]

MCScenarios == {
  Clean(A :> <<X>>, A :> <<X, X>>),                     \* a second copy
  Clean(A :> <<X, S>>, B :> <<X, Y, S>>),               \* renamed, one new
  Clean(A :> <<X>>, A :> <<X, Nosem(X), Fix(Y)>>),      \* suppressed copy
  Clean(A :> <<X>> @@ B :> <<Y>>, A :> <<X>>),          \* a file removed
  Clean(A :> <<X>>, A :> <<X>> @@ B :> <<Fix(X), X>>),  \* a file added
  Clean(A :> <<J>> @@ B :> <<K>>, A :> <<J>> @@ B :> <<Y, K>>), \* joined before
  [base |-> A :> <<X>>, head |-> A :> <<X, Y>>, start |-> A :> <<X, Y, S>>] }

Default == [baseline |-> TRUE, subdir |-> FALSE, config |-> "valid", validation |-> "full",
            join |-> "valid", errorOnFindings |-> TRUE, strict |-> FALSE,
            sarif |-> FALSE, disableNosem |-> FALSE, autofix |-> "ignore"]

MCOptions == {
  Default,
  [Default EXCEPT !.config = "invalid"],
  [Default EXCEPT !.baseline = FALSE, !.autofix = "apply"],
  [Default EXCEPT !.subdir = TRUE, !.strict = TRUE],
  [Default EXCEPT !.errorOnFindings = FALSE, !.join = "invalid"],
  [Default EXCEPT !.validation = "none", !.join = "invalid", !.strict = TRUE],
  [Default EXCEPT !.sarif = TRUE, !.autofix = "apply"],
  [Default EXCEPT !.disableNosem = TRUE] }

E(kind, level, rule, path) ==
  [kind |-> kind, level |-> level, rule |-> rule, path |-> path, code |-> OK]

MCFailures == {
  << >>,
  <<E("Timeout", "warning", "R", A)>>,
  <<E("FatalError", "error", None, None), E("OutOfMemory", "warning", None, A)>>,
  <<E("PartialParsing", "warning", "R", B)>>,
  <<E("RuleParseError", "error", "R", None)>> }
=============================================================================
