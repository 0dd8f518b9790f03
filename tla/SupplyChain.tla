----------------------------- MODULE SupplyChain ----------------------------
(***************************************************************************)
(* Subprojects of a scan: how the linter finds them, which of them it      *)
(* resolves, and what their dependencies make of the findings              *)
(* (subproject_matchers.py, matchers/, resolve_subprojects.py,             *)
(* resolve_dependency_source.py, subproject.py, dependency_aware_rule.py). *)
(*                                                                         *)
(* A matcher is a record [type, locks, manifests, ecosystem, alone] and a  *)
(* subproject a record [root, ecosystem, source]; a source is a record     *)
(* [type, lock, manifest, parts], parts being the sources of a subproject  *)
(* with several lockfiles, or the one below an SBOM.  The code iterates    *)
(* over frozensets of files, whose order is arbitrary: so is that of       *)
(* SetToSeq.  Of the names that a matcher takes by a pattern (base.txt in  *)
(* a directory called requirements, any .csproj) one stands for all.       *)
(***************************************************************************)
EXTENDS TargetFiles, Dependencies

NoPath == << >>
NameOf(p) == IF p = NoPath THEN None ELSE Last(p)

LockSource(lock, manifest) ==
  [type |-> "lockfile", lock |-> lock, manifest |-> manifest, parts |-> << >>]
ManifestSource(manifest) ==
  [type |-> "manifest", lock |-> NoPath, manifest |-> manifest, parts |-> << >>]
MultiSource(parts) ==
  [type |-> "multi", lock |-> NoPath, manifest |-> NoPath, parts |-> parts]
SbomSource(path, source) ==
  [type |-> "sbom", lock |-> path, manifest |-> NoPath, parts |-> <<source>>]

Subproject(root, ecosystem, source) ==
  [root |-> root, ecosystem |-> ecosystem, source |-> source]

-----------------------------------------------------------------------------
(* Matchers                                                                *)

Exact(lock, manifest, ecosystem) ==
  [type |-> "exact", locks |-> {lock}, manifests |-> {manifest}, ecosystem |-> ecosystem, alone |-> FALSE]
Alone(manifest, ecosystem) ==
  [type |-> "manifest only", locks |-> {}, manifests |-> {manifest}, ecosystem |-> ecosystem, alone |-> TRUE]

BuildFiles == <<"build.gradle", "build.gradle.kts">>
SettingsFiles == <<"settings.gradle", "settings.gradle.kts">>
RequirementsTxt == {"requirements.txt", "requirements-dev.txt", "base.txt"}
RequirementsIn == {"requirements.in", "requirements-dev.in", "base.in"}
StemManifest ==
  [n \in RequirementsTxt |-> CASE n = "requirements.txt" -> "requirements.in"
                               [] n = "requirements-dev.txt" -> "requirements-dev.in"
                               [] n = "base.txt" -> "base.in"]

(* MATCHERS, in the order in which they take the files.                    *)
MATCHERS == <<
  [type |-> "pip", locks |-> RequirementsTxt, manifests |-> RequirementsIn,
   ecosystem |-> "pypi", alone |-> FALSE],
  Exact("bun.lock", "package.json", "npm"),
  Exact("bun.lockb", "package.json", "npm"),
  Exact("package-lock.json", "package.json", "npm"),
  Exact("yarn.lock", "package.json", "npm"),
  Exact("pnpm-lock.yaml", "package.json", "npm"),
  Exact("Gemfile.lock", "Gemfile", "gem"),
  Exact("go.mod", "go.mod", "gomod"),
  Exact("Cargo.lock", "Cargo.toml", "cargo"),
  Exact("maven_dep_tree.txt", "pom.xml", "maven"),
  Alone("pom.xml", "maven"),
  [type |-> "gradle", locks |-> {"gradle.lockfile"},
   manifests |-> ToSet(BuildFiles) \cup ToSet(SettingsFiles), ecosystem |-> "maven", alone |-> TRUE],
  Exact("composer.lock", "composer.json", "composer"),
  [type |-> "exact", locks |-> {"packages.lock.json"}, manifests |-> {"app.csproj"},
   ecosystem |-> "nuget", alone |-> TRUE],
  Exact("pubspec.lock", "pubspec.yaml", "pub"),
  Exact("Package.resolved", "Package.swift", "swiftpm"),
  Exact("mix.lock", "mix.exs", "hex"),
  Exact("Pipfile.lock", "Pipfile", "pypi"),
  Exact("poetry.lock", "pyproject.toml", "pypi"),
  Exact("uv.lock", "pyproject.toml", "pypi"),
  Alone("setup.py", "pypi"),
  [type |-> "sbt", locks |-> {}, manifests |-> {"build.sbt"}, ecosystem |-> "maven", alone |-> TRUE]
>>

Named(files, names) == {p \in files : Last(p) \in names}
Beside(p, name) == Append(Front(p), name)

(* The first of these names that lies beside p, or no path.                *)
FirstBeside(p, names, files) ==
  LET there == {i \in DOMAIN names : Beside(p, names[i]) \in files}
  IN  IF there = {} THEN NoPath ELSE Beside(p, names[Min(there)])

(* LockfileManifestMatcher.make_subprojects: a lockfile with the manifest  *)
(* beside it, and the manifests nobody took if the matcher makes           *)
(* subprojects of them.                                                    *)
MakeExact(m, files) ==
  LET locks == Named(files, m.locks)
      ManifestFor(l) == FirstBeside(l, SetToSeq(m.manifests), files)
      paired == {ManifestFor(l) : l \in locks} \ {NoPath}
      lone == IF m.alone THEN Named(files, m.manifests) \ paired ELSE {}
  IN  [made |-> {Subproject(Front(l), m.ecosystem, LockSource(l, ManifestFor(l))) : l \in locks}
                \cup {Subproject(Front(p), m.ecosystem, ManifestSource(p)) : p \in lone},
       used |-> locks \cup paired \cup lone]

(* ManifestOnlyMatcher.make_subprojects                                    *)
MakeManifestOnly(m, files) ==
  [made |-> {Subproject(Front(p), m.ecosystem, ManifestSource(p)) : p \in Named(files, m.manifests)},
   used |-> Named(files, m.manifests)]

(* PipRequirementsMatcher: the files of a directory called requirements    *)
(* belong to the directory above it.                                       *)
RequirementsRoot(p) ==
  LET at == {i \in DOMAIN p : p[i] = "requirements"}
  IN  IF at = {} THEN Front(p) ELSE SubSeq(p, 1, Min(at) - 1)

IsRequirements(p) == Last(p) # "base.txt" \/ \E i \in DOMAIN p : p[i] = "requirements"

RequirementsManifest(p, files) ==
  LET same == Beside(p, StemManifest[Last(p)])
      default == Append(RequirementsRoot(p), "requirements.in")
  IN  IF same \in files THEN same ELSE IF default \in files THEN default ELSE NoPath

(* All the requirements files of one root make one subproject.             *)
MakePip(m, files) ==
  LET locks == {p \in Named(files, m.locks) : IsRequirements(p)}
      Of(root) == {p \in locks : RequirementsRoot(p) = root}
      Source(p) == LockSource(p, RequirementsManifest(p, files))
      SourceOf(root) == IF Cardinality(Of(root)) = 1 THEN Source(CHOOSE p \in Of(root) : TRUE)
                        ELSE MultiSource([i \in 1..Cardinality(Of(root)) |-> Source(SetToSeq(Of(root))[i])])
  IN  [made |-> {Subproject(root, m.ecosystem, SourceOf(root)) : root \in {RequirementsRoot(p) : p \in locks}},
       used |-> locks \cup Named(files, m.manifests)]

Below(p, roots) == \E r \in roots : IsPrefix(r, Front(p))

(* GradleMatcher: lockfiles first, then settings files, then the build     *)
(* files that lie below none of the roots so far (one that is passed over  *)
(* lies below a root, and so does all that lies below it); in which order  *)
(* is that of a set.                                                       *)
MakeGradle(m, files) ==
  LET locks == Named(files, m.locks)
      Manifest(p) == IF FirstBeside(p, BuildFiles, files) # NoPath
                     THEN FirstBeside(p, BuildFiles, files)
                     ELSE FirstBeside(p, SettingsFiles, files)
      ofLocks == {Subproject(Front(l), m.ecosystem, LockSource(l, Manifest(l))) : l \in locks}
      taken == {FirstBeside(l, SettingsFiles, files) : l \in locks}
      settings == Named(files, ToSet(SettingsFiles)) \ taken
      ofSettings == {Subproject(Front(s), m.ecosystem, ManifestSource(Manifest(s))) : s \in settings}
      usedBuilds == {FirstBeside(p, BuildFiles, files) : p \in locks \cup settings}
      builds == SetToSeq(Named(files, ToSet(BuildFiles)) \ usedBuilds)
      Above(i) == {Front(l) : l \in locks \cup settings} \cup {Front(builds[j]) : j \in 1..(i - 1)}
      lone == {builds[i] : i \in {j \in DOMAIN builds : ~Below(builds[j], Above(j))}}
  IN  [made |-> ofLocks \cup ofSettings
                \cup {Subproject(Front(b), m.ecosystem, ManifestSource(b)) : b \in lone},
       used |-> locks \cup Named(files, ToSet(SettingsFiles)) \cup (usedBuilds \ {NoPath}) \cup lone]

(* SbtMatcher: the outermost build file of a directory tree.               *)
MakeSbt(m, files) ==
  LET builds == Named(files, m.manifests)
      outer == {b \in builds : ~Below(b, {Front(c) : c \in builds \ {b}})}
  IN  [made |-> {Subproject(Front(b), m.ecosystem, ManifestSource(b)) : b \in outer},
       used |-> builds]

MakeSubprojects(m, files) ==
  CASE m.type = "exact"         -> MakeExact(m, files)
    [] m.type = "manifest only" -> MakeManifestOnly(m, files)
    [] m.type = "pip"           -> MakePip(m, files)
    [] m.type = "gradle"        -> MakeGradle(m, files)
    [] m.type = "sbt"           -> MakeSbt(m, files)

(* match_subprojects: a matcher does not see what the one just before it   *)
(* used.                                                                   *)
Match(i, before, files) ==
  LET new == MakeSubprojects(MATCHERS[i], before.rest)
  IN  [found |-> before.found \o SetToSeq(new.made), rest |-> files \ new.used]

MatchSubprojects(files) ==
  LET after[i \in 0..Len(MATCHERS)] ==
        IF i = 0 THEN [found |-> << >>, rest |-> files] ELSE Match(i, after[i - 1], files)
  IN  after[Len(MATCHERS)].found

-----------------------------------------------------------------------------
(* Which subprojects are resolved                                          *)

(* The sources that are files, below SBOMs and groups of lockfiles.        *)
Leaves(source) ==
  LET Parts(s) == IF s.parts = << >> THEN {s} ELSE ToSet(s.parts)
  IN  UNION {Parts(s) : s \in Parts(source)}

(* get_all_source_files                                                    *)
SourceFiles(source) == UNION {{s.lock, s.manifest} : s \in Leaves(source)} \ {NoPath}

(* HashableSubproject: two subprojects with one root and one ecosystem are *)
(* the same.                                                               *)
SameSubproject(s, t) == s.root = t.root /\ s.ecosystem = t.ecosystem

(* find_closest_subproject and find_closest_resolved_subproject: among the *)
(* deepest roots above the path, the one found first.                      *)
Closest(path, ecosystem, subprojects) ==
  LET above == {i \in DOMAIN subprojects : /\ subprojects[i].ecosystem = ecosystem
                                           /\ IsPrefix(subprojects[i].root, Front(path))}
      deepest == {i \in above : \A j \in above : Len(subprojects[j].root) <= Len(subprojects[i].root)}
  IN  IF above = {} THEN << >> ELSE <<subprojects[Min(deepest)]>>

(* The code files that rules with dependencies look at, and the ecosystems *)
(* such rules name for their language.                                     *)
CodeFiles(disk, manager, rules) ==
  UNION {GetFilesForLanguage(disk, manager, lang, "sca") \X
           UNION {Ecosystems(r) : r \in {q \in rules : lang \in q.langs}} :
           lang \in UNION {r.langs : r \in rules}}

(* Mutant: only changed lockfiles and manifests make a subproject matter.  *)
RelevantByFiles(disk, manager, rules, subprojects) ==
  {s \in ToSet(subprojects) :
     SourceFiles(s.source) \cap DependencySourceFiles(disk, manager, FALSE, manager.gitignore) # {}}

(* filter_changed_subprojects: a changed file of its own, or a file to     *)
(* scan that has no closer subproject.                                     *)
Relevant(disk, manager, rules, subprojects) ==
  LET changed == DependencySourceFiles(disk, manager, FALSE, manager.gitignore)
      direct == {s \in ToSet(subprojects) : SourceFiles(s.source) \cap changed # {}}
      closest == UNION {ToSet(Closest(f[1], f[2], subprojects)) : f \in CodeFiles(disk, manager, rules)}
  IN  {s \in ToSet(subprojects) : \E t \in direct \cup closest : SameSubproject(s, t)}

(* find_subprojects: lockfiles that git ignores or that did not change     *)
(* still make subprojects.                                                 *)
FindSubprojects(disk, manager) ==
  MatchSubprojects(DependencySourceFiles(disk, manager, TRUE, FALSE))

(* attach_auxillary_sboms                                                  *)
AttachSboms(subprojects, sboms) ==
  [i \in DOMAIN subprojects |->
     IF subprojects[i].root \in sboms
     THEN [subprojects[i] EXCEPT !.source = SbomSource(Append(subprojects[i].root, "cdx.json"), @)]
     ELSE subprojects[i]]

-----------------------------------------------------------------------------
(* Resolving one                                                           *)

(* sca_subproject_support.py: kinds are pairs of file names.               *)
KindOf(source) == <<NameOf(source.manifest), NameOf(source.lock)>>

ALWAYS_DYNAMIC_RESOLUTION ==
  {"pom.xml", "build.gradle", "build.gradle.kts", "settings.gradle", "setup.py", "app.csproj", "build.sbt"}
PTT_OCAML_PARSER ==
  {<<"app.csproj", "packages.lock.json">>, <<"build.gradle", "gradle.lockfile">>,
   <<"build.gradle.kts", "gradle.lockfile">>}
PTT_DYNAMIC_RESOLUTION ==
  {<<"requirements.in", "requirements.txt">>, <<None, "requirements.txt">>, <<"Pipfile", "Pipfile.lock">>}
ALWAYS_OCAML_PARSER ==
  {<<None, "package-lock.json">>, <<"package.json", "package-lock.json">>, <<"pyproject.toml", "uv.lock">>}
TRANSITIVE_REACHABILITY ==
  {<<"package.json", "package-lock.json">>, <<"pyproject.toml", "uv.lock">>,
   <<"pyproject.toml", "poetry.lock">>, <<None, "requirements.txt">>, <<"Pipfile", "Pipfile.lock">>,
   <<"package.json", "pnpm-lock.yaml">>, <<"package.json", "yarn.lock">>}

Resolution(method, deps, errors) == [method |-> method, deps |-> deps, errors |-> errors]
Unresolved(reason, errors) == Resolution(reason, {}, errors)
IsResolved(res) == res.method \in {"lockfile parsing", "dynamic resolution", "sbom parsing"}

(* Dependencies together with the file they come from.                     *)
At(deps, path) ==
  {[package |-> d.package, version |-> d.version, ecosystem |-> d.ecosystem, kind |-> d.kind,
    children |-> d.children, path |-> path] : d \in deps}

(* What semgrep-core resolves, when it does: the lockfile as it stands, or *)
(* what a build of the manifest would install.                             *)
CoreResolves(content, source, ecosystem) ==
  LET path == IF source.lock # NoPath THEN source.lock ELSE source.manifest
  IN  At({FoundDependency(ecosystem, e.name, e.version, e.stated, {}) : e \in content[path].entries}, path)

(* What semgrep-core sends back when it is asked about a source.            *)
NoAnswer == [kind |-> "none"]
CoreFailure == [kind |-> "resolution", ok |-> FALSE, deps |-> {}, errors |-> 1]
CoreAnswer(content, source, ecosystem) ==
  [kind |-> "resolution", ok |-> TRUE, deps |-> CoreResolves(content, source, ecosystem), errors |-> 0]

(* _resolve_dependencies_rpc: no answer is told like a failure without an  *)
(* error, and an answer is taken whatever source it is about.              *)
ResolveByRpc(answer) ==
  IF answer = NoAnswer THEN [CoreFailure EXCEPT !.errors = 0] ELSE answer

FileAt(content, p) == IF p = NoPath THEN NoFile ELSE content[p]

ParsePython(content, source) ==
  LET parsed == Parse(NameOf(source.lock), content[source.lock], FileAt(content, source.manifest),
                      NameOf(source.manifest))
  IN  Resolution("lockfile parsing", At(parsed.deps, source.lock), parsed.errors)

ParsedByCore(source, config) ==
  \/ config.ptt /\ KindOf(source) \in PTT_OCAML_PARSER
  \/ KindOf(source) \in ALWAYS_OCAML_PARSER
  \/ config.experimental

(* Whether semgrep-core is asked about a lockfile at all.                  *)
LockfileAsks(source, config) ==
  \/ ParsedByCore(source, config)
  \/ config.ptt /\ config.builds /\ KindOf(source) \in PTT_DYNAMIC_RESOLUTION
  \/ config.download /\ KindOf(source) \in TRANSITIVE_REACHABILITY

(* _handle_lockfile_source: semgrep-core if the options and the kind call  *)
(* for it, and the parsers of this program after it failed.                *)
HandleLockfile(content, source, config, answer) ==
  LET asks == LockfileAsks(source, config)
      rpc == ResolveByRpc(answer)
      parser == HasParser(NameOf(source.lock))
  IN  CASE asks /\ rpc.ok ->
             Resolution(IF ParsedByCore(source, config) THEN "lockfile parsing" ELSE "dynamic resolution",
                        rpc.deps, rpc.errors)
        [] asks /\ ~rpc.ok /\ ~parser -> Unresolved("failed", rpc.errors)
        [] ~(asks /\ rpc.ok) /\ parser /\ ~config.experimental -> ParsePython(content, source)
        [] OTHER -> Unresolved("unsupported", 0)

ManifestAsks(source, config) ==
  /\ NameOf(source.manifest) \in ALWAYS_DYNAMIC_RESOLUTION \/ config.download
  /\ config.builds

(* _handle_manifest_only_source and the conditions it runs under.          *)
HandleManifest(source, config, answer) ==
  LET rpc == ResolveByRpc(answer)
  IN  CASE ManifestAsks(source, config) ->
             IF rpc.ok THEN Resolution("dynamic resolution", rpc.deps, rpc.errors)
             ELSE Unresolved("failed", rpc.errors)
        [] ManifestAsks(source, [config EXCEPT !.builds = TRUE]) /\ ~config.builds ->
             Unresolved("disabled", 0)
        [] OTHER -> Unresolved("unsupported", 0)

Asks(source, config) ==
  \/ source.type = "sbom"
  \/ source.type = "lockfile" /\ LockfileAsks(source, config)
  \/ source.type = "manifest" /\ ManifestAsks(source, config)

ResolveLeaf(content, source, config, answer) ==
  IF source.type = "lockfile" THEN HandleLockfile(content, source, config, answer)
  ELSE HandleManifest(source, config, answer)

(* _handle_multi_lockfile_source: resolved even if none of them is.        *)
HandleMulti(content, source, config, answers) ==
  LET parts == [i \in DOMAIN source.parts |-> ResolveLeaf(content, source.parts[i], config, answers[i])]
  IN  Resolution(IF \E i \in DOMAIN parts : parts[i].method = "dynamic resolution"
                 THEN "dynamic resolution" ELSE "lockfile parsing",
                 UNION {parts[i].deps : i \in DOMAIN parts},
                 FoldLeft(LAMBDA sum, r : sum + r.errors, 0, parts))

ResolvePlain(content, source, config, answers) ==
  IF source.type = "multi" THEN HandleMulti(content, source, config, answers)
  ELSE ResolveLeaf(content, source, config, answers[1])

(* The sources that semgrep-core may be asked about, one after the other.  *)
Questions(source) ==
  CASE source.type = "sbom" /\ source.parts[1].type = "multi" -> <<source>> \o source.parts[1].parts
    [] source.type = "sbom" /\ source.parts[1].type # "multi" -> <<source, source.parts[1]>>
    [] source.type = "multi" -> source.parts
    [] OTHER -> <<source>>

(* resolve_dependency_source, given the answers to its questions.          *)
(* _handle_auxillary_sbom_source falls back on what the SBOM stands for.   *)
ResolveDependencySource(content, source, config, answers) ==
  LET sbom == ResolveByRpc(answers[1])
  IN  CASE source.type # "sbom" -> ResolvePlain(content, source, config, answers)
        [] source.type = "sbom" /\ sbom.ok -> Resolution("sbom parsing", sbom.deps, sbom.errors)
        [] OTHER -> ResolvePlain(content, source.parts[1], config, Tail(answers))

(* dep_source_to_subproject_kind: that of the first of several lockfiles.  *)
SubprojectKind(source) ==
  CASE source.type \in {"lockfile", "manifest"} -> KindOf(source)
    [] source.type = "sbom" /\ source.parts[1].parts = << >> -> KindOf(source.parts[1])
    [] source.type = "sbom" /\ source.parts[1].parts # << >> -> KindOf(source.parts[1].parts[1])
    [] OTHER -> KindOf(source.parts[1])

-----------------------------------------------------------------------------
(* Findings                                                                *)

(* A resolved subproject is a subproject with [deps].  is_in_range raises  *)
(* for a range that the comparison of its ecosystem cannot read.           *)
Raises(rule, subprojects) ==
  \E s \in ToSet(subprojects) : s.ecosystem \in Ecosystems(rule) /\
    \E p \in rule.depends, d \in s.deps : RangeError(p, d)

(* filter_dependency_aware_rules: of the rules with patterns, those that   *)
(* some resolved subproject is in the range of.  The search stops at the   *)
(* first subproject that tells, and raises if that one cannot be compared. *)
Tells(rule, subprojects) ==
  {i \in DOMAIN subprojects : /\ subprojects[i].ecosystem \in Ecosystems(rule)
                              /\ \/ Raises(rule, <<subprojects[i]>>)
                                 \/ RangeMatches(rule.depends, subprojects[i].deps) # {}}

FilterRaises(rules, subprojects) ==
  \E r \in ToSet(rules) : /\ ShouldRunOnCore(r) /\ Tells(r, subprojects) # {}
                          /\ Raises(r, <<subprojects[Min(Tells(r, subprojects))]>>)

FilterDependencyAware(rules, subprojects) ==
  Picked(rules, {i \in DOMAIN rules : ShouldRunOnCore(rules[i]) /\ Tells(rules[i], subprojects) # {}})

(* transitive matches are skipped when a package of the rule is a direct   *)
(* dependency.                                                             *)
ReachableIn(rule, subproject) ==
  LET direct == \E d \in subproject.deps :
                  d.kind = "direct" /\ \E p \in rule.depends : p.package = d.package
  IN  {m \in RangeMatches(rule.depends, subproject.deps) : m[2].kind # "transitive" \/ ~direct}

ScaFinding(rule, path, dep, reachable) ==
  [rule |-> rule.id, path |-> path, dep |-> dep, reachable |-> reachable]

(* generate_reachable_sca_findings, from the files with a match of the     *)
(* rule's patterns; an error loses the findings of its match only.         *)
Reachable(rule, matched, subprojects) ==
  {ScaFinding(rule, f[1], f[2], TRUE) : f \in
     UNION {UNION {{<<p, m[2]>> : m \in UNION {IF Raises(rule, <<s>>) THEN {} ELSE ReachableIn(rule, s) :
                                               s \in ToSet(Closest(p, e, subprojects))}} :
                     e \in Ecosystems(rule)} : p \in matched}}

(* generate_unreachable_sca_findings: one for each dependency that has no  *)
(* reachable finding, at the place where the dependency is named.          *)
Unreachable(rule, reachable, subprojects) ==
  {ScaFinding(rule, m[2].path, m[2], FALSE) : m \in
     UNION {{n \in RangeMatches(rule.depends, s.deps) : \A f \in reachable : f.dep # n[2]} :
              s \in {t \in ToSet(subprojects) : t.ecosystem \in Ecosystems(rule)}}}

(* Transitive reachability: semgrep-core may be asked to look into the     *)
(* packages; no answer leaves the findings as they are.                    *)
TransitiveReachability(rule, subproject, config) ==
  /\ config.download /\ ShouldRunOnCore(rule)
  /\ SubprojectKind(subproject.source) \in TRANSITIVE_REACHABILITY

(* build_dependencies_by_lockfile: of two subprojects that name one file,  *)
(* the later has its dependencies kept.                                    *)
DependenciesByLockfile(subprojects) ==
  FoldLeft(LAMBDA kept, s :
             [p \in {d.path : d \in s.deps} |-> {d \in s.deps : d.path = p}] @@ kept,
           << >>, subprojects)

(* symbol_analysis.py: the language of an ecosystem, and the files of its  *)
(* languages that lie closest to each resolved subproject.                 *)
LanguageOfEcosystem(ecosystem) ==
  CASE ecosystem = "pypi" -> {"python"}
    [] ecosystem = "npm"  -> {"typescript", "javascript"}
    [] OTHER              -> {}

SubprojectFiles(disk, manager, subproject, subprojects) ==
  {p \in UNION {GetFilesForLanguage(disk, manager, lang, "sca") :
                  lang \in LanguageOfEcosystem(subproject.ecosystem)} :
     \E s \in ToSet(Closest(p, subproject.ecosystem, subprojects)) : SameSubproject(s, subproject)}

(* run_subproject_symbol_analysis: the subprojects semgrep-core is asked   *)
(* to analyse, and of which the answer is kept.                            *)
SymbolAnalysed(disk, manager, subprojects) ==
  SelectSeq(subprojects, LAMBDA s : SubprojectFiles(disk, manager, s, subprojects) # {})
SymbolKept(subproject) == subproject.source.type \in {"lockfile", "manifest"}
=============================================================================
