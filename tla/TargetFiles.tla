----------------------------- MODULE TargetFiles ----------------------------
(***************************************************************************)
(* Which files a scan of the linter looks at, and which rules look at      *)
(* which file (target_manager.py, core_targets_plan.py, plan_core_run of   *)
(* core_runner.py).                                                        *)
(*                                                                         *)
(* A path is the sequence of its segments from the project root.  `disk`   *)
(* maps every path to a record [ext, shebang, readable, gitignored,        *)
(* semgrepignored, size, changed, holds]; holds is the set of rule bodies  *)
(* that occur in the file.  A pattern is a record [segs, anchored,         *)
(* legacy]: segs are its segments, and legacy tells whether it was already *)
(* anchored before Semgrepignore v2.  A manager is the record of the       *)
(* arguments of TargetManager.                                             *)
(***************************************************************************)
EXTENDS RuleConfig

CONSTANTS
  LanguagesOf,      \* the languages of each file extension or program
  DependencyNames   \* last segments of lockfiles and manifests

Segments(path, i, n) == SubSeq(path, i, i + n - 1)

(* preprocess_path_patterns and the glob it makes: a pattern that is not   *)
(* anchored matches at any depth, and everything below what it matches.    *)
PathMatches(path, pattern) ==
  LET n == Len(pattern.segs)
      depths == IF pattern.anchored /\ pattern.legacy THEN {1} ELSE 1..Len(path)
  IN  \E i \in depths : i + n - 1 <= Len(path) /\ Segments(path, i, n) = pattern.segs

AnyMatches(path, patterns) == \E g \in patterns : PathMatches(path, g)

-----------------------------------------------------------------------------
(* Scanning roots                                                          *)

(* ScanningRoot.validate_path                                              *)
ValidRoot(root) == root.readable /\ ~root.symlink

(* TargetManager: the conditions that the roots are searched under, for a  *)
(* product.  Secrets look into files that .semgrepignore hides.            *)
TargetingConf(manager, product) ==
  [excludes       |-> manager.excludes[product],
   includes       |-> manager.includes,
   maxBytes       |-> manager.maxBytes,
   gitignore      |-> manager.gitignore,
   semgrepignore  |-> product # "secrets" /\ manager.semgrepignore,
   baseline       |-> manager.baseline]

(* get_targets of semgrep-core (Find_targets.ml)                           *)
Discover(disk, root, conf) ==
  {p \in DOMAIN disk :
     /\ IsPrefix(root.path, p) /\ disk[p].readable
     /\ conf.gitignore => ~disk[p].gitignored
     /\ conf.semgrepignore => ~disk[p].semgrepignored
     /\ disk[p].size <= conf.maxBytes
     /\ conf.baseline => disk[p].changed
     /\ conf.includes # {} => AnyMatches(p, conf.includes)
     /\ ~AnyMatches(p, conf.excludes)}

(* ScanningRoot.target_files_full: a file below the working directory that *)
(* is named on the command line is taken as it is; a directory is searched *)
(* by semgrep-core.                                                        *)
TargetFilesFull(disk, root, conf, ignoreBaseline, respectGitignore) ==
  IF root.path \in DOMAIN disk /\ root.underCwd
  THEN {root.path}
  ELSE Discover(disk, root, [conf EXCEPT !.baseline = @ /\ ~ignoreBaseline,
                                         !.gitignore = respectGitignore])

(* get_all_files; discovery ends the scan when semgrep-core dies.          *)
GetAllFiles(disk, manager, product, ignoreBaseline, respectGitignore) ==
  UNION {TargetFilesFull(disk, r, TargetingConf(manager, product), ignoreBaseline, respectGitignore) :
           r \in manager.roots}

-----------------------------------------------------------------------------
(* Files for a rule                                                        *)

(* filter_by_language: by extension, or by the program of an executable    *)
(* script.                                                                 *)
FilterByLanguage(disk, lang, files) ==
  {p \in files : lang \in LanguagesOf[disk[p].ext] \cup LanguagesOf[disk[p].shebang]}

(* filter_known_extensions                                                 *)
UnknownExtension(disk, files) == {p \in files : LanguagesOf[disk[p].ext] = {}}

(* get_files_for_language: also the files named on the command line whose  *)
(* extension says nothing, if the scan allows it.                          *)
GetFilesForLanguage(disk, manager, lang, product) ==
  LET all == GetAllFiles(disk, manager, product, FALSE, manager.gitignore)
      named == {p \in all : \E r \in manager.roots : r.path = p}
  IN  FilterByLanguage(disk, lang, all)
      \cup IF manager.unknownExtensions THEN UnknownExtension(disk, named) ELSE {}

FilterIncludes(files, includes) ==
  IF includes = {} THEN files ELSE {p \in files : AnyMatches(p, includes)}

FilterExcludes(files, excludes) == {p \in files : ~AnyMatches(p, excludes)}

GetFilesForRule(disk, manager, lang, rule) ==
  LET files == GetFilesForLanguage(disk, manager, lang, Product(rule))
  IN  IF manager.respectRulePaths
      THEN FilterExcludes(FilterIncludes(files, rule.includes), rule.excludes)
      ELSE files

(* get_all_dependency_source_files: in a diff scan, the unchanged ones     *)
(* too, and whatever git ignores.                                          *)
DependencySourceFiles(disk, manager, ignoreBaseline, respectGitignore) ==
  {p \in GetAllFiles(disk, manager, "sca", ignoreBaseline, respectGitignore) :
     Last(p) \in DependencyNames}

-----------------------------------------------------------------------------
(* The plan                                                                *)

(* plan_core_run: one task for each file and language, with the products   *)
(* that some rule looks at it for.                                         *)
PlanCoreRun(disk, manager, rules) ==
  LET Looks(r, p, lang) == lang \in r.langs /\ p \in GetFilesForRule(disk, manager, lang, r)
      Task(p, lang) ==
        [path |-> p, lang |-> lang,
         products |-> {Product(r) : r \in {q \in rules : Looks(q, p, lang)}},
         rules |-> {r \in rules : Looks(r, p, lang)}]
  IN  {Task(t[1], t[2]) : t \in {u \in (DOMAIN disk) \X UNION {r.langs : r \in rules} :
                                  \E r \in rules : Looks(r, u[1], u[2])}}

NumTargets(tasks) == Cardinality({t.path : t \in tasks})
=============================================================================
