----------------------------- MODULE RuleConfig -----------------------------
(***************************************************************************)
(* Rules of the linter's Python command line, from the --config strings to *)
(* the list of rules a scan runs (config_resolver.py, rule_lang.py,        *)
(* rule.py).                                                               *)
(*                                                                         *)
(* A rule is a record [id, langs, includes, excludes, patterns, body,      *)
(* depends, mode, product, origin, action, src, min, max, shape]; shape    *)
(* tells which check it fails.  A config file is a record [id, dir, site,  *)
(* text, rules, missed], and a --config string a record                    *)
(* [kind, products, files]; files is what the string leads to.             *)
(***************************************************************************)
EXTENDS RuleMatch

CONSTANT Version   \* version of the command line

RULE_PARSE_FAILURE == 4
UNPARSEABLE_YAML == 5
INVALID_LANGUAGE == 8
INVALID_API_KEY == 13

NoError == [kind |-> "none", code |-> OK]
Err(kind, code) == [kind |-> kind, code |-> code]

(* The members of a set from the first to the last; before is the set of   *)
(* the pairs <<x, y>> with x before y.                                     *)
InOrder(set, before) ==
  [k \in 1..Cardinality(set) |->
     CHOOSE x \in set : Cardinality({y \in set : <<y, x>> \in before}) = k - 1]

(* The elements of s at the places `at`, in their order.                   *)
Picked(s, at) ==
  LET places == InOrder(at, {p \in at \X at : p[1] < p[2]})
  IN  [k \in DOMAIN places |-> s[places[k]]]

-----------------------------------------------------------------------------
(* Where rules come from                                                   *)

(* ConfigLoader.__init__: only a url given as such is compared with the    *)
(* address of the registry.                                                *)
Origin(c) ==
  CASE c.kind \in {"r2c", "registry url"}      -> "REGISTRY"
    [] c.kind = "products"                     -> "SEMGREP_CLOUD_PLATFORM"
    [] c.kind \in {"url", "registry id", "auto"} -> "REMOTE"
    [] c.kind = "path"                         -> "LOCAL"

Fetched(files) == [files |-> files, error |-> NoError]
Refused(error) == [files |-> << >>, error |-> error]

(* An answer that is not JSON is kept as it is; any other status, and      *)
(* retries that run out, are an error.  Only product names could have      *)
(* fallen back on the fail-open site, and they do not come this way.       *)
Download(c, answer) ==
  IF answer = "ok" THEN Fetched(c.files) ELSE Refused(Err("SemgrepError", FATAL))

LocalFiles(c) ==
  IF c.files = << >> THEN Refused(Err("SemgrepError", FATAL)) ELSE Fetched(c.files)

(* _project_metadata_for_standalone_scan; env is the set of SEMGREP_       *)
(* variables that are set.                                                 *)
StandaloneMetadata(products, env) ==
  IF \/ {"REPO_DISPLAY_NAME", "PROJECT_ID"} \subseteq env
     \/ products \cap {"code", "policy", "secrets"} # {} /\ "REPO_NAME" \notin env
  THEN Err("SemgrepError", FATAL) ELSE NoError

(* The first error is the one that is raised, even after a fallback.  One  *)
(* of 401 is a SemgrepError; any other status is a bare Exception.         *)
FetchCloud(c, env, answer, fallback) ==
  LET first == CASE answer = "ok"           -> NoError
                 [] answer = "unauthorized" -> Err("SemgrepError", INVALID_API_KEY)
                 [] answer = "retries"      -> Err("SemgrepError", FATAL)
                 [] answer = "status"       -> Err("Exception", FATAL)
      hasFallback == Cardinality(c.products) = 1
  IN  CASE StandaloneMetadata(c.products, env) # NoError ->
             Refused(StandaloneMetadata(c.products, env))
        [] OTHER ->
             IF first = NoError \/ (hasFallback /\ fallback = "ok")
             THEN Fetched(c.files) ELSE Refused(first)

LoadConfig(c, env, answer, fallback) ==
  CASE Origin(c) \in {"REGISTRY", "REMOTE"}      -> Download(c, answer)
    [] Origin(c) = "SEMGREP_CLOUD_PLATFORM"      -> FetchCloud(c, env, answer, fallback)
    [] Origin(c) = "LOCAL"                       -> LocalFiles(c)

(* parse_config_files: the id under which the rules of a file are kept;    *)
(* remote rules are told apart by the site that served them.               *)
ConfigId(file) ==
  IF file.site = "local" THEN file.id
  ELSE IF file.site = "registry" THEN "remote-registry" ELSE "remote-url"

-----------------------------------------------------------------------------
(* One rule                                                                *)

(* Rule.__init__: a rule for JavaScript is one for TypeScript too.         *)
NewRule(r) ==
  [r EXCEPT !.langs = IF "javascript" \in @ THEN @ \cup {"typescript"} ELSE @]

(* The product a rule belongs to: Supply Chain if it depends on packages,  *)
(* else what its metadata says.                                            *)
Product(r) == IF r.depends # {} THEN "sca" ELSE IF r.product = "secrets" THEN "secrets" ELSE "sast"

(* A rule without patterns is only matched against lockfiles.              *)
ShouldRunOnCore(r) == r.patterns

Ecosystems(r) == {d.ecosystem : d \in r.depends}

(* _apply_secrets_security_check: validators of secrets rules only run     *)
(* when the registry or the app served the rule.                           *)
SecretsCheck(r, configId) ==
  IF Product(r) = "secrets" /\ configId \notin {"remote-registry", "semgrep-app-rules"}
  THEN [r EXCEPT !.origin = "local"] ELSE r

(* prepend_rule_path: the directories of a config file come before the     *)
(* ids of its rules.                                                       *)
RenameId(r, file) == [r EXCEPT !.id = file.dir \o @]

(* rule_without_metadata: what two rules must share to be one.             *)
WithoutMetadata(r) ==
  [r EXCEPT !.product = None, !.origin = None, !.action = None, !.src = None]

-----------------------------------------------------------------------------
(* One config file                                                         *)

(* remove_incompatible_version_dicts                                       *)
Compatible(r) == r.min <= Version /\ Version <= r.max

VersionErrors(rules) ==
  {Err("IncompatibleRule", OK) : r \in {q \in ToSet(rules) : ~Compatible(q)}}

(* The rules that semgrep-core or the schema is asked about: not those     *)
(* that depend on packages.                                                *)
CoreBound(rules) == SelectSeq(rules, LAMBDA r : r.depends = {})

(* validate_string_json_schema knows the shape only.                       *)
SchemaVerdict(rules) ==
  IF \E r \in ToSet(rules) : r.shape = "bad schema"
  THEN Err("InvalidRuleSchemaError", RULE_PARSE_FAILURE) ELSE NoError

(* rpc_validate: the first rule that semgrep-core refuses; a process that  *)
(* dies is told like a refusal.                                            *)
CoreVerdict(rules, alive) ==
  LET bad == {i \in DOMAIN rules : rules[i].shape \in {"bad schema", "bad regex", "bad language"}}
  IN  CASE ~alive   -> "failed"
        [] alive /\ bad = {} -> "valid"
        [] OTHER    -> rules[CHOOSE i \in bad : \A j \in bad : i <= j].shape

(* maybe_raise_from_rpc_error: CORE_ONLY leaves a bad regex to the scan    *)
(* and a bad language to Rule.__init__.                                    *)
CoreOnlyError(verdict) ==
  IF verdict \in {"bad schema", "failed"}
  THEN Err("InvalidRuleSchemaError", RULE_PARSE_FAILURE) ELSE NoError

(* validate_via_rpc_with_fallback                                          *)
ValidateViaRpc(rules, mode, alive) ==
  LET verdict == CoreVerdict(rules, alive)
  IN  CASE verdict = "valid"                       -> NoError
        [] verdict # "valid" /\ mode = "CORE_ONLY" -> CoreOnlyError(verdict)
        [] OTHER                                   -> SchemaVerdict(rules)

Validate(rules, mode, forceSchema, alive) ==
  CASE mode = "NONE"                    -> NoError
    [] mode = "FULL" /\ forceSchema     -> SchemaVerdict(CoreBound(rules))
    [] OTHER                            -> ValidateViaRpc(CoreBound(rules), mode, alive)

(* _create_rules: a language nobody knows ends the loading of the file; a  *)
(* rule that Rule.__init__ trips over is left out and reported.            *)
CreateRules(rules) ==
  LET good == Picked(rules, {i \in DOMAIN rules : rules[i].shape # "malformed"})
  IN  [rules  |-> [i \in DOMAIN good |-> NewRule(good[i])],
       errors |-> {Err("SemgrepError", RULE_PARSE_FAILURE) :
                     r \in {q \in ToSet(rules) : q.shape = "malformed"}},
       raised |-> IF \E r \in ToSet(rules) : r.shape = "bad language"
                  THEN Err("UnknownLanguageError", INVALID_LANGUAGE) ELSE NoError]

(* What cannot be read at all.                                             *)
TextError(file) ==
  CASE file.text \in {"empty", "broken"} -> Err("SemgrepError", UNPARSEABLE_YAML)
    [] file.text = "no mapping"          -> Err("SemgrepError", FATAL)
    [] file.text = "no rules"            -> Err("InvalidRuleSchemaError", RULE_PARSE_FAILURE)
    [] OTHER                             -> NoError

(* parse_config_string: read, drop the rules of other versions, validate,  *)
(* make Rule objects.                                                      *)
ParseConfigString(file, mode, forceSchema, alive) ==
  LET rules == Picked(file.rules, {i \in DOMAIN file.rules : Compatible(file.rules[i])})
      valid == Validate(rules, mode, forceSchema, alive)
      made == CreateRules(rules)
      raised == IF TextError(file) # NoError THEN TextError(file)
                ELSE IF valid # NoError THEN valid ELSE made.raised
  IN  [rules  |-> IF raised = NoError THEN made.rules ELSE << >>,
       errors |-> IF raised = NoError THEN VersionErrors(file.rules) \cup made.errors ELSE {},
       missed |-> IF raised = NoError THEN file.missed ELSE 0,
       raised |-> raised]

-----------------------------------------------------------------------------
(* All of them                                                             *)

(* Config.get_rules: of the rules that differ in their metadata only, the  *)
(* first one stays, in the place of the last one.                          *)
Deduplicate(rules) ==
  LET Same(i) == {j \in DOMAIN rules : WithoutMetadata(rules[j]) = WithoutMetadata(rules[i])}
      FirstOf(i) == CHOOSE j \in Same(i) : \A k \in Same(i) : j <= k
  IN  Picked([i \in DOMAIN rules |-> rules[FirstOf(i)]],
             {i \in DOMAIN rules : \A j \in Same(i) : j <= i})

(* sanity_check_resolved_config, given the errors other than those about   *)
(* versions.                                                               *)
SanityCheck(errors, configs) ==
  IF errors # {} \/ configs = {} THEN Err("SemgrepError", MISSING_CONFIG) ELSE NoError
=============================================================================
