---------------------------- MODULE Dependencies ----------------------------
(***************************************************************************)
(* What the linter reads in lockfiles and how it compares versions with    *)
(* the ranges of a rule (semdep/parsers, golang_version.py,                *)
(* maven_version.py, package_restrictions.py; PackageVersions has the      *)
(* comparison that most ecosystems share).                                 *)
(*                                                                         *)
(* A file is a record [text, version, entries, direct, exclude]: text is   *)
(* "ok" or says why it cannot be read, version is that of its format,      *)
(* direct the names a manifest asks for (or, for Gemfile.lock and pnpm,    *)
(* the lockfile's own list of them).  An entry is a record [name, version, *)
(* section, stated, depth, sources, children, pins].  A version is a       *)
(* record [core, parts, stamp, hash, pre, qualifier, short, pep]: parts    *)
(* counts what its dashes separate, stamp is the time of a pseudo-version, *)
(* pre what follows the core, qualifier is 0 for none and 1 for SNAPSHOT,  *)
(* short tells that the core has less than three numbers, and pep is how   *)
(* PackageVersions reads it.                                               *)
(***************************************************************************)
EXTENDS RuleMatch, Functions, PackageVersions

CONSTANTS
  Lower,      \* names in lower case
  Canonical   \* names of one PyPI package, in lower case with underscores

NoVersion == [core |-> 0, parts |-> 0, stamp |-> 0, hash |-> 0, pre |-> << >>, qualifier |-> 0,
              short |-> FALSE, pep |-> Final(<<0>>)]
NoFile == [text |-> "absent", version |-> 0, entries |-> {}, direct |-> {}, exclude |-> {}]

-----------------------------------------------------------------------------
(* Reading                                                                 *)

(* parse_dependency_file: what is empty or malformed is an error; a file   *)
(* that cannot be opened raises.                                           *)
Malformed(file) == file.text \in {"empty", "broken"}

(* safe_parse_lockfile_and_manifest                                        *)
SafeParse(lock, manifest) ==
  [entries |-> IF lock.text = "ok" THEN lock.entries ELSE {},
   direct  |-> IF manifest.text = "ok" THEN manifest.direct ELSE {},
   errors  |-> Cardinality({f \in {<<"lock", lock>>, <<"manifest", manifest>>} : Malformed(f[2])}),
   raised  |-> "unreadable" \in {lock.text, manifest.text}]

(* DependencyParser: whatever a parser raises is one error, and there are  *)
(* no dependencies then.                                                   *)
DependencyParser(parsed, deps, moreErrors) ==
  IF parsed.raised THEN [deps |-> {}, errors |-> 1]
  ELSE [deps |-> deps, errors |-> parsed.errors + moreErrors]

(* transitivity: without a manifest, or with one that asks for nothing,    *)
(* nothing is known.                                                       *)
Transitivity(direct, sources) ==
  CASE direct = {}                                -> "unknown"
    [] direct # {} /\ direct \cap sources # {}    -> "direct"
    [] OTHER                                      -> "transitive"

FoundDependency(ecosystem, name, version, kind, children) ==
  [package |-> name, version |-> version, ecosystem |-> ecosystem,
   kind |-> kind, children |-> children]

Versioned(entries) == {e \in entries : e.version # NoVersion}

(* Children are looked up by name among the entries of the lockfile.       *)
ChildrenOf(e, entries) == {<<c.name, c.version>> : c \in {d \in entries : d.name \in e.children}}

-----------------------------------------------------------------------------
(* One operator for each lockfile parser                                   *)

(* parse_cargo, through to_parser: the text is split, never parsed, so     *)
(* nothing but an unreadable file is an error.                             *)
ParseCargo(lock, manifest) ==
  [deps |-> IF "unreadable" \in {lock.text, manifest.text} THEN {}
            ELSE {FoundDependency("cargo", e.name, e.version, "unknown", {}) : e \in lock.entries},
   errors |-> IF "unreadable" \in {lock.text, manifest.text} THEN 1 ELSE 0]

(* Both sections are read, but only `require` makes a package direct; the  *)
(* direct names of a manifest are those.                                   *)
ParseComposerLock(lock, manifest) ==
  LET p == SafeParse(lock, manifest)
  IN  DependencyParser(p, {FoundDependency("composer", e.name, e.version,
                                           Transitivity(p.direct, {e.name}), {}) :
                             e \in Versioned(p.entries)}, 0)

(* The DEPENDENCIES section of the lockfile stands for the manifest.       *)
ParseGemfile(lock, manifest) ==
  LET p == SafeParse(lock, NoFile)
  IN  DependencyParser(p, {FoundDependency("gem", e.name, e.version,
                                           Transitivity(lock.direct, {e.name}), {}) :
                             e \in p.entries}, 0)

(* A comment tells the transitive ones; excluded versions are left out.    *)
ParseGoMod(lock, manifest) ==
  LET p == SafeParse(lock, NoFile)
  IN  DependencyParser(p, {FoundDependency("gomod", e.name, e.version,
                             IF e.stated = "transitive" THEN "transitive" ELSE "direct", {}) :
                             e \in {x \in p.entries : <<x.name, x.version>> \notin lock.exclude}}, 0)

(* A manifest other than build.gradle is not read.                         *)
ParseGradle(lock, manifest, manifestName) ==
  LET p == SafeParse(lock, IF manifestName = "build.gradle" THEN manifest ELSE NoFile)
  IN  DependencyParser(p, {FoundDependency("maven", e.name, e.version,
                                           Transitivity(p.direct, {e.name}), {}) :
                             e \in p.entries}, 0)

(* Without a manifest that can be read and asks for something there are    *)
(* no dependencies.  The names of the manifest are made lower case.        *)
ParseMix(lock, manifest) ==
  LET p == SafeParse(lock, manifest)
      direct == {Lower[n] : n \in p.direct}
  IN  DependencyParser(p, IF direct = {} THEN {}
                          ELSE {FoundDependency("hex", e.name, e.version,
                                                Transitivity(direct, {e.name}), {}) :
                                  e \in p.entries}, 0)

(* map_to_transitivity: packages.lock.json says it itself.                 *)
ParsePackagesLock(lock, manifest) ==
  LET p == SafeParse(lock, NoFile)
  IN  DependencyParser(p, {FoundDependency("nuget", e.name, e.version, e.stated, {}) :
                             e \in Versioned(p.entries)}, 0)

(* Only the default section counts; the spelling of names does not.        *)
ParsePipfile(lock, manifest) ==
  LET p == SafeParse(lock, manifest)
      direct == {Canonical[n] : n \in p.direct}
  IN  DependencyParser(p, {FoundDependency("pypi", Lower[e.name], e.version,
                                           Transitivity(direct, {Canonical[e.name]}), {}) :
                             e \in {x \in Versioned(p.entries) : x.section = "default"}}, 0)

(* A manifest that cannot be read is an error of its own.  Children that   *)
(* the lockfile does not resolve are dropped.                              *)
ParsePoetry(lock, manifest) ==
  LET p == SafeParse(lock, NoFile)
      direct == IF manifest.text = "ok" THEN {Canonical[n] : n \in manifest.direct} ELSE {}
      found == Versioned(p.entries)
  IN  DependencyParser(p, {FoundDependency("pypi", Lower[e.name], e.version,
                             Transitivity(direct, {Canonical[e.name]}), ChildrenOf(e, found)) :
                             e \in found},
                       IF manifest.text \in {"broken", "unreadable"} THEN 1 ELSE 0)

(* parse_pom_tree: the depth in the tree tells, and get_children's stack   *)
(* makes the lines below an entry its children.  The same package at the   *)
(* same depth is kept once.                                                *)
ParsePomTree(lock, manifest) ==
  LET p == SafeParse(lock, NoFile)
  IN  DependencyParser(p, {FoundDependency("maven", e.name, e.version,
                             IF e.depth > 0 THEN "transitive" ELSE "direct",
                             ChildrenOf(e, p.entries)) :
                             e \in p.entries}, 0)

ParsePubspecLock(lock, manifest) ==
  LET p == SafeParse(lock, NoFile)
  IN  DependencyParser(p, IF \E e \in p.entries : e.version = NoVersion THEN {}
                          ELSE {FoundDependency("pub", e.name, e.version, e.stated, {}) :
                                  e \in p.entries}, 0)

(* A requirement that is not pinned to one version is skipped, with an     *)
(* error.  Names are compared as they are spelled.                         *)
ParseRequirements(lock, manifest) ==
  LET p == SafeParse(lock, manifest)
      Pinned(e) == e.pins = 1
  IN  DependencyParser(p, {FoundDependency("pypi", Lower[e.name], e.version,
                                           Transitivity(p.direct, {e.name}), {}) :
                             e \in {x \in p.entries : Pinned(x)}},
                       Cardinality({x \in p.entries : ~Pinned(x)}))

(* Three formats are known; a pin without a version is an error.           *)
ParsePackageResolved(lock, manifest) ==
  LET p == SafeParse(lock, manifest)
      known == lock.version \in 1..3
  IN  DependencyParser(p, IF ~known THEN {}
                          ELSE {FoundDependency("swiftpm", e.name, e.version,
                                                Transitivity(p.direct, {e.name}), {}) :
                                  e \in Versioned(p.entries)},
                       CASE lock.text # "ok"        -> 0
                         [] lock.text = "ok" /\ ~known -> 1
                         [] OTHER -> Cardinality(p.entries \ Versioned(p.entries)))

(* The sources of an entry are the constraints that led to it, and those   *)
(* of the manifest make it direct.                                         *)
ParseYarn(lock, manifest) ==
  LET p == SafeParse(lock, manifest)
      found == {e \in Versioned(p.entries) : e.sources # {}}
      broken == {e \in p.entries : e.sources # {} /\ e.version = NoVersion}
  IN  DependencyParser(p, {FoundDependency("npm", e.name, e.version,
                             Transitivity(p.direct, e.sources),
                             {<<c.name, c.version>> : c \in {d \in found : d.sources \cap e.children # {}}}) :
                             e \in found},
                       Cardinality(broken))

(* parse_pnpm: keys that do not parse are errors, and a child need not be  *)
(* an entry of the lockfile.  Version 5.4 and 9 change the spelling of     *)
(* keys and the place of the children only.                                *)
ParsePnpm(lock, manifest) ==
  LET p == SafeParse(lock, NoFile)
      versioned == lock.version # 0
  IN  DependencyParser(p, IF ~versioned THEN {}
                          ELSE {FoundDependency("npm", e.name, e.version,
                                  Transitivity(lock.direct, {e.name}), ChildrenOf(e, p.entries)) :
                                  e \in Versioned(p.entries)},
                       IF ~versioned THEN 0 ELSE Cardinality(p.entries \ Versioned(p.entries)))

(* PARSERS_BY_LOCKFILE_KIND: kinds without an entry have no parser.        *)
HasParser(kind) == kind \notin {"uv.lock", "package-lock.json", "bun.lock", "conan.lock"}

Parse(kind, lock, manifest, manifestName) ==
  CASE kind = "requirements.txt"    -> ParseRequirements(lock, manifest)
    [] kind = "Pipfile.lock"        -> ParsePipfile(lock, manifest)
    [] kind = "poetry.lock"         -> ParsePoetry(lock, manifest)
    [] kind = "yarn.lock"           -> ParseYarn(lock, manifest)
    [] kind = "pnpm-lock.yaml"      -> ParsePnpm(lock, manifest)
    [] kind = "Gemfile.lock"        -> ParseGemfile(lock, manifest)
    [] kind = "go.mod"              -> ParseGoMod(lock, manifest)
    [] kind = "Cargo.lock"          -> ParseCargo(lock, manifest)
    [] kind = "maven_dep_tree.txt"  -> ParsePomTree(lock, manifest)
    [] kind = "gradle.lockfile"     -> ParseGradle(lock, manifest, manifestName)
    [] kind = "composer.lock"       -> ParseComposerLock(lock, manifest)
    [] kind = "packages.lock.json"  -> ParsePackagesLock(lock, manifest)
    [] kind = "pubspec.lock"        -> ParsePubspecLock(lock, manifest)
    [] kind = "Package.resolved"    -> ParsePackageResolved(lock, manifest)
    [] kind = "mix.lock"            -> ParseMix(lock, manifest)

-----------------------------------------------------------------------------
(* Versions                                                                *)

(* The sign of a comparison is that of the first of these that is not 0.   *)
FirstDifference(signs) ==
  IF \E i \in DOMAIN signs : signs[i] # 0
  THEN signs[CHOOSE i \in DOMAIN signs : signs[i] # 0 /\ \A j \in 1..(i - 1) : signs[j] = 0]
  ELSE 0

(* parse_golang_version: three parts with a time in the middle make a      *)
(* pseudo-version; anything else after a dash makes a pre-release.         *)
ParseGolangVersion(v) ==
  LET pseudo == v.parts = 3 /\ v.stamp # 0
  IN  [core |-> v.core,
       pseudo |-> IF pseudo THEN <<v.stamp, v.hash>> ELSE << >>,
       pre |-> IF v.parts > 1 /\ ~pseudo THEN v.pre ELSE << >>]

CmpPseudo(a, b) == IF a[2] = b[2] THEN 0 ELSE a[1] - b[1]

(* An identifier is a record [number, value]; numbers come first.          *)
CmpIdentifier(a, b) ==
  CASE a.number = b.number     -> a.value - b.value
    [] a.number /\ ~b.number   -> -1
    [] OTHER                   -> 1

(* cmp_pre_release: of two lists that agree, the longer is the higher.     *)
CmpPreRelease(a, b) ==
  LET both == IF Len(a) < Len(b) THEN Len(a) ELSE Len(b)
  IN  FirstDifference([i \in 1..(both + 1) |->
                         IF i <= both THEN CmpIdentifier(a[i], b[i]) ELSE Len(a) - Len(b)])

(* cmp_golang_versions: a version that is the only one of the two to have  *)
(* a pre-release, or a pseudo part, is the higher one.                     *)
CmpGolang(a, b) ==
  LET Alone(x, y) == IF x # << >> THEN 1 ELSE IF y # << >> THEN -1 ELSE 0
  IN  FirstDifference(<<a.core - b.core,
        IF a.pre # << >> /\ b.pre # << >> THEN CmpPreRelease(a.pre, b.pre) ELSE Alone(a.pre, b.pre),
        IF a.pseudo # << >> /\ b.pseudo # << >> THEN CmpPseudo(a.pseudo, b.pseudo)
        ELSE Alone(a.pseudo, b.pseudo)>>)

(* cmp_maven_versions                                                      *)
CmpMaven(a, b) ==
  LET Qualified(x) == CASE x.qualifier = 0 -> 2 [] x.qualifier = 1 -> 1 [] OTHER -> 0
  IN  FirstDifference(<<a.core - b.core, Qualified(a) - Qualified(b), a.qualifier - b.qualifier>>)

(* SimpleSpec of semantic_version: a pre-release is below its core         *)
(* version, and `<` does not take pre-releases of its own version.         *)
SimpleSpec(s, v) ==
  LET Stage(x) == IF x.parts > 1 THEN 0 ELSE 1
      diff == FirstDifference(<<v.core - s.version.core, Stage(v) - Stage(s.version)>>)
  IN  /\ Satisfies(s.op, diff)
      /\ s.op = "<" /\ s.version.parts = 1 => v.core # s.version.core

PepSpecifier(s) == [op |-> s.op, version |-> s.version.pep, wild |-> s.wild]

HasSpecifierSet(ecosystem, v) ==
  ecosystem \notin {"npm", "maven"} /\ ~(ecosystem = "gomod" /\ v.parts >= 3)

(* is_in_range                                                             *)
IsInRange(ecosystem, range, v) ==
  IF HasSpecifierSet(ecosystem, v) THEN InSpecifierSet({PepSpecifier(s) : s \in range}, v.pep)
  ELSE \A s \in range :
         CASE ecosystem = "npm"   -> SimpleSpec(s, v)
           [] ecosystem = "maven" -> Satisfies(s.op, CmpMaven(v, s.version))
           [] ecosystem = "gomod" ->
                Satisfies(s.op, CmpGolang(ParseGolangVersion(v), ParseGolangVersion(s.version)))

(* A specifier that neither grammar knows, and a Go range whose versions   *)
(* have less than the three numbers that parse_golang_core reads, raise.   *)
RangeError(pattern, d) ==
  /\ pattern.ecosystem = d.ecosystem /\ pattern.package = d.package
  /\ \E s \in pattern.range :
       IF HasSpecifierSet(d.ecosystem, d.version) THEN InvalidSpecifier(PepSpecifier(s))
       ELSE d.ecosystem = "gomod" /\ s.version.short

(* dependencies_range_match_any                                            *)
RangeMatches(patterns, deps) ==
  {m \in patterns \X deps :
     /\ m[1].ecosystem = m[2].ecosystem /\ m[1].package = m[2].package
     /\ IsInRange(m[1].ecosystem, m[1].range, m[2].version)}
=============================================================================
