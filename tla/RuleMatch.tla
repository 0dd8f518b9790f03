----------------------------- MODULE RuleMatch ------------------------------
(***************************************************************************)
(* Findings and errors of the linter's Python command line: how findings   *)
(* are keyed, numbered, compared with the baseline, filtered, fixed and    *)
(* judged (rule_match.py, core_output.py, nosemgrep.py, autofix.py,        *)
(* run_scan.py), and how errors become an exit code (error.py, output.py). *)
(*                                                                         *)
(* A match is a record [rule, path, line, ctx, ignored, fix, index]: ctx   *)
(* stands for syntactic_context, line for the position, and ignored for    *)
(* the is_ignored flag that semgrep-core sets on a nosemgrep comment.  The *)
(* lists the code sorts by ordering_key are sets here, for their order is  *)
(* never used again.                                                       *)
(***************************************************************************)
EXTENDS Integers, Sequences, FiniteSets, SequencesExt

None == "none"

-----------------------------------------------------------------------------
(* Keys                                                                    *)

CiUniqueKey(m) == <<m.rule, m.path, m.ctx, m.index>>

(* Mutant: renamed files are looked up under their new name.               *)
PathChangedKeyKept(m, renamed) == CiUniqueKey(m)

(* rename_dict maps the new name of a renamed file to its old name.        *)
PathChangedKey(m, renamed) ==
  CiUniqueKey([m EXCEPT !.path = IF @ \in DOMAIN renamed THEN renamed[@] ELSE @])

SameCode(m, n) == m.rule = n.rule /\ m.path = n.path /\ m.ctx = n.ctx

(* Mutant: the copies of one piece of code are not numbered.               *)
AddAllUnnumbered(arrived) == ToSet(arrived)

(* RuleMatches.add numbers the matches with the same code in the order in  *)
(* which they are added; core_matches_to_rule_matches adds them in the     *)
(* order of arrival and sorts afterwards.                                  *)
AddAll(arrived) ==
  { [arrived[i] EXCEPT !.index =
       Cardinality({j \in 1..(i - 1) : SameCode(arrived[j], arrived[i])})]
    : i \in 1..Len(arrived) }

-----------------------------------------------------------------------------
(* The comparison with the baseline                                        *)

ScanFailures == {"Timeout", "OutOfMemory", "InterfileTimeout"}
Interfile == {"InterfileTimeout"}
ParseFailures == {"PartialParsing"}

IsScanFailure(e) == e.kind \in ScanFailures

FileWidePaths(errors) ==
  {e.path : e \in {f \in ToSet(errors) : IsScanFailure(f) /\ f.path # None /\ f.rule = None}}

RuleScopedPaths(errors) ==
  {<<e.path, e.rule>> : e \in {f \in ToSet(errors) : IsScanFailure(f) /\ f.path # None /\ f.rule # None}}

(* What is left of head once the baseline's findings are taken away, and   *)
(* those that cannot be compared because the baseline scan failed there.   *)
RemoveMatchesInBaseline(head, baseline, renamed, baselineErrors) ==
  LET baselineKeys == {CiUniqueKey(b) : b \in baseline}
  IN  {m \in head :
         /\ m.path \notin FileWidePaths(baselineErrors)
         /\ <<m.path, m.rule>> \notin RuleScopedPaths(baselineErrors)
         /\ PathChangedKey(m, renamed) \notin baselineKeys}

-----------------------------------------------------------------------------
(* nosemgrep and autofix                                                   *)

FilterIgnored(matches, keepIgnored) ==
  [kept    |-> {m \in matches : keepIgnored \/ ~m.ignored},
   removed |-> {m \in matches : ~keepIgnored /\ m.ignored}]

(* The edits that apply_fixes sends to semgrep-core.                       *)
FixesOf(matches) == {<<m.path, m.line>> : m \in {n \in matches : n.fix}}

-----------------------------------------------------------------------------
(* Whether a finding blocks a merge.  The metadata of its rule say whether *)
(* it does (block), and for a secret that was tried out which outcomes do  *)
(* (blockingStates); sca is [kind, reachable, transitive].                 *)

NoSca == [kind |-> None, reachable |-> FALSE, transitive |-> FALSE]

(* exposure_type                                                           *)
ExposureType(sca) ==
  CASE sca.kind \in {"upgrade-only", "malicious"} -> "reachable"
    [] sca.kind = "legacy"                        -> "undetermined"
    [] OTHER -> IF sca.reachable THEN "reachable" ELSE "unreachable"

(* A secret that no validator knows is judged like any other finding.      *)
ValidationStateBlocks(m) ==
  IF m.validation = "no validator" THEN m.block ELSE m.validation \in m.blockingStates

(* is_blocking of a match that the app has not marked (blocked_by_app).    *)
IsBlocking(m) ==
  CASE m.sca # NoSca ->
         /\ m.block /\ ExposureType(m.sca) = "reachable"
         /\ ~(m.sca.kind = "upgrade-only" /\ m.sca.transitive)
    [] m.sca = NoSca /\ m.validation # None -> ValidationStateBlocks(m)
    [] OTHER -> m.block

-----------------------------------------------------------------------------
(* Errors                                                                  *)

OK == 0
FINDINGS == 1
FATAL == 2
TARGET_PARSE_FAILURE == 3
MISSING_CONFIG == 7
NoCode == -1

(* core_error_to_semgrep_error: the exit code is chosen from the severity  *)
(* and the type, and a parse error forgets its rule.                       *)
CoreErrorToSemgrepError(e) ==
  CASE e.level = "info"          -> [e EXCEPT !.code = OK]
    [] e.level # "info" /\ e.kind \in ParseFailures ->
                                    [e EXCEPT !.code = TARGET_PARSE_FAILURE, !.rule = None]
    [] OTHER                     -> [e EXCEPT !.code = FATAL]

(* SemgrepError raised by the command itself.                              *)
Raised(code) ==
  [kind |-> "SemgrepError", level |-> "error", rule |-> None, path |-> None, code |-> code]

(* What was reported: every error, and the last of the list.               *)
NoErrors == [all |-> {}, last |-> None]

(* OutputHandler.handle_semgrep_errors: an error that is there already is  *)
(* not listed once more.                                                   *)
HandleErrors(structured, errors) ==
  LET Listed == {i \in DOMAIN errors : /\ errors[i] \notin structured.all
                                       /\ \A j \in DOMAIN errors : errors[j] = errors[i] => i <= j}
  IN  [all  |-> structured.all \cup ToSet(errors),
       last |-> IF Listed = {} THEN structured.last
                ELSE errors[CHOOSE i \in Listed : \A j \in Listed : j <= i]]

(* OutputHandler._final_raise: which errors end the command with their     *)
(* code.                                                                   *)
FinalCode(e, strict) ==
  IF strict \/ (e.level = "error" /\ e.kind \notin Interfile) THEN e.code ELSE OK

(* Mutant: an error that was reported hides the findings.                  *)
ExitCodeErrorsFirst(shown, structured, errorOnFindings, strict) ==
  IF structured.all # {} THEN FinalCode(structured.last, strict)
  ELSE IF shown # {} /\ errorOnFindings THEN FINDINGS ELSE OK

(* OutputHandler.output: findings come first if --error was given, else    *)
(* the last error that was reported.                                       *)
ExitCode(shown, structured, errorOnFindings, strict) ==
  CASE shown # {} /\ errorOnFindings -> FINDINGS
    [] ~(shown # {} /\ errorOnFindings) /\ structured.all # {} -> FinalCode(structured.last, strict)
    [] OTHER -> OK
=============================================================================
