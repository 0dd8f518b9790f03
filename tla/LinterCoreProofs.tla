-------------------------- MODULE LinterCoreProofs --------------------------
(***************************************************************************)
(* Proofs about LinterCore, for any repository, configs and failures: what *)
(* a scan that ends well has looked for, and the projects that it resolved *)
(* on the way; and about the order of versions that its ranges rest on.    *)
(***************************************************************************)
EXTENDS LinterCore, FiniteSetTheorems, WellFoundedInduction, TLAPS

(* The rules of a file that this version runs; one as the scan has it.     *)
Compatibles(f) == {r \in ToSet(f.rules) : Compatible(r)}
Loaded(r, f) == RenameId(SecretsCheck(NewRule(r), ConfigId(f)), f)

CameFrom(q) ==
  \E c \in ToSet(scan.configs) : \E f \in ToSet(c.files) : \E r \in Compatibles(f) : q = Loaded(r, f)

(* The errors that end the scan when all is read.                          *)
Real(errors) == {e \in errors : e.kind # "IncompatibleRule"}

Records ==
  /\ load = [i |-> load.i, open |-> load.open, parsed |-> load.parsed, wrong |-> load.wrong,
             valid |-> load.valid, rules |-> load.rules, errors |-> load.errors]
  /\ deps = [found |-> deps.found, skipped |-> deps.skipped, todo |-> deps.todo,
             resolved |-> deps.resolved, unresolved |-> deps.unresolved, kept |-> deps.kept]
  /\ engine = [status |-> engine.status, loaded |-> engine.loaded, tasks |-> engine.tasks,
               todo |-> engine.todo, said |-> engine.said, extra |-> engine.extra,
               warned |-> engine.warned, found |-> engine.found, errors |-> engine.errors]
  /\ pipe = [out |-> pipe.out, err |-> pipe.err]
  /\ result = [code |-> result.code, found |-> result.found, errors |-> result.errors,
               todo |-> result.todo, sca |-> result.sca, lockfiles |-> result.lockfiles,
               symbols |-> result.symbols]

(* Until something is wrong, all rules of the configs so far are there.    *)
Loading ==
  /\ load.i \in 1..(Len(scan.configs) + 1)
  /\ IsSequence(load.rules) /\ \A q \in ToSet(load.rules) : CameFrom(q)
  /\ Real(load.errors) = {} =>
       \A j \in 1..(load.i - 1) : \A f \in ToSet(scan.configs[j].files) : \A r \in Compatibles(f) :
         Loaded(r, f) \in ToSet(load.rules)

(* And those of the files of a config that some thread has parsed.         *)
Parsing ==
  phase = "parse" =>
    LET files == scan.configs[load.i].files
    IN  /\ load.i \in DOMAIN scan.configs
        /\ load.open \subseteq DOMAIN files
        /\ IsSequence(load.parsed)
        /\ \A p \in ToSet(load.parsed) : \E f \in ToSet(files) : \E r \in Compatibles(f) :
             p = [rule |-> NewRule(r), file |-> f]
        /\ Real(load.wrong) = {} =>
             \A j \in (DOMAIN files) \ load.open : \A r \in Compatibles(files[j]) :
               [rule |-> NewRule(r), file |-> files[j]] \in ToSet(load.parsed)

(* The scan has one of every rule, told apart without metadata.            *)
HasRules ==
  /\ IsSequence(rules) /\ \A q \in ToSet(rules) : CameFrom(q)
  /\ phase \notin {"load", "parse"} \cup Ended \/ phase = "done" =>
       \A w \in Written : \E q \in ToSet(rules) : WithoutMetadata(q) = WithoutMetadata(w)

Early == {"load", "parse", "targets", "find"}

(* What is to be resolved has the root and the ecosystem of something that *)
(* matters; the rest is skipped.                                           *)
Projects ==
  /\ IsSequence(deps.todo) /\ IsSequence(deps.kept)
  /\ ToSet(deps.kept) \subseteq ToSet(Aware)
  /\ \A s \in ToSet(deps.todo), t \in deps.skipped : ~SameSubproject(s, t)
  /\ phase \in Early => deps.kept = << >>
  /\ \/ deps.skipped = {}
     \/ /\ ~scan.config.resolveAll
        /\ deps.skipped = ToSet(deps.found)
                            \ Relevant(scan.disk, scan.manager, ToSet(Aware), deps.found)
        /\ phase \notin Early

(* Of each file that is done with, the matches of the rules that semgrep-  *)
(* core has parsed, or that they ran out of time.                          *)
Looked ==
  \A t \in engine.tasks : t.path \notin engine.todo =>
    \A r \in EngineRules(scan.disk, t, engine.loaded, scan.manager.respectRulePaths) :
      r.body \in scan.disk[t.path].holds => <<r, t.path>> \in engine.found \cup engine.errors

Engine ==
  /\ engine.status \in {"none", "running", "exited", "killed"} /\ engine.said \in 0..JsonParts
  /\ engine.said > 0 => engine.todo = {}
  /\ engine.status = "exited" => engine.said = JsonParts
  /\ phase \in Early \cup {"resolve", "plan"} => engine.said = 0
  /\ phase \in {"scan", "adjust", "done"} =>
       /\ engine.tasks = PlanCoreRun(scan.disk, scan.manager, ToSet(CoreRules))
       /\ engine.loaded = ToSet(CoreRules) \ Unparsable(ToSet(CoreRules))
       /\ \A r \in Unparsable(ToSet(CoreRules)) : <<r, NoPath>> \in engine.errors
       /\ Looked

Pipes ==
  /\ IsSequence(pipe.out) /\ Len(pipe.out) <= PipeSize
  /\ IsSequence(pipe.err) /\ Len(pipe.err) <= PipeSize

Ends ==
  /\ phase \in {"adjust", "done"} =>
       engine.todo = {} /\ result.found = engine.found /\ result.errors = engine.errors
  /\ phase = "done" => SkippedValidation(result.errors, scan.mode) = NoError
  /\ phase # "scan" => temp = 0
  /\ phase \in {"load", "parse", "targets"} \cup Ended => ~session.alive

IInv ==
  /\ scan \in Scans /\ phase \in Phases
  /\ Records /\ Loading /\ Parsing /\ HasRules /\ Projects /\ Engine /\ Pipes /\ Ends

-----------------------------------------------------------------------------
(* Numbers, finite sets and sequences                                      *)

LEMMA LeastOf ==
  ASSUME NEW T \in SUBSET Nat, T # {}
  PROVE  \E k \in T : \A j \in T : k <= j
<1>1. PICK k \in T : \A j \in T : <<j, k>> \notin OpToRel(<, Nat)
  BY NatLessThanWellFounded, WFMin
<1>2. \A j \in T : j \in Nat /\ ~(j < k)
  BY <1>1 DEF OpToRel
<1>3. k \in Nat
  OBVIOUS
<1> QED BY <1>2, <1>3

LEMMA Induction ==
  ASSUME NEW S, 0 \in S, \A n \in Nat : n \in S => n + 1 \in S
  PROVE  \A n \in Nat : n \in S
<1> SUFFICES ASSUME NEW n \in Nat, n \notin S PROVE FALSE
  OBVIOUS
<1> DEFINE T == Nat \ S
<1>1. T # {} /\ T \in SUBSET Nat
  OBVIOUS
<1>2. PICK k \in T : \A j \in T : k <= j
  BY <1>1, LeastOf
<1>3. k # 0 /\ k \in Nat
  OBVIOUS
<1>4. k - 1 \in Nat /\ (k - 1) + 1 = k /\ ~(k <= k - 1)
  BY <1>3
<1>5. k - 1 \in S
  BY <1>2, <1>4
<1> QED BY <1>4, <1>5

LEMMA ImageFinite ==
  ASSUME NEW S, IsFiniteSet(S), NEW f
  PROVE  IsFiniteSet({f[x] : x \in S})
<1> DEFINE T == {f[x] : x \in S}
           g == [x \in S |-> f[x]]
<1>1. g \in Surjection(S, T)
  BY DEF Surjection
<1> HIDE DEF T, g
<1>2. IsFiniteSet(T)
  BY <1>1, FS_Surjection
<1> QED BY <1>2 DEF T

LEMMA AsSequence ==
  ASSUME NEW S, NEW s \in Seq(S)
  PROVE  /\ IsSequence(s) /\ ToSet(s) \subseteq S
         /\ Len(s) \in Nat /\ DOMAIN s = 1..Len(s)
BY DEF IsSequence, ToSet

LEMMA SequenceOf ==
  ASSUME NEW n \in Nat, NEW s, s = [i \in 1..n |-> s[i]]
  PROVE  IsSequence(s) /\ Len(s) = n /\ DOMAIN s = 1..n
<1>1. \A i \in 1..n : s[i] \in ToSet(s)
  BY DEF ToSet
<1>2. s \in [1..n -> ToSet(s)]
  BY <1>1
<1>3. s \in Seq(ToSet(s))
  BY <1>2
<1> QED BY <1>2, <1>3 DEF IsSequence

LEMMA Joined ==
  ASSUME NEW s, NEW t, IsSequence(s), IsSequence(t)
  PROVE  IsSequence(s \o t) /\ ToSet(s \o t) = ToSet(s) \cup ToSet(t)
<1> DEFINE W == ToSet(s) \cup ToSet(t)
<1>1. s \in Seq(W) /\ t \in Seq(W)
  BY DEF IsSequence
<1>2. s \o t \in Seq(W)
  BY <1>1
<1>3. /\ Len(s \o t) = Len(s) + Len(t) /\ Len(s) \in Nat /\ Len(t) \in Nat
      /\ DOMAIN s = 1..Len(s) /\ DOMAIN t = 1..Len(t) /\ DOMAIN (s \o t) = 1..(Len(s) + Len(t))
      /\ \A i \in 1..(Len(s) + Len(t)) :
           (s \o t)[i] = IF i <= Len(s) THEN s[i] ELSE t[i - Len(s)]
  BY <1>1
<1>4. \A i \in DOMAIN s : i \in DOMAIN (s \o t) /\ (s \o t)[i] = s[i]
  BY <1>3
<1>5. \A i \in DOMAIN t : i + Len(s) \in DOMAIN (s \o t) /\ (s \o t)[i + Len(s)] = t[i]
  BY <1>3
<1>6. ToSet(s) \subseteq ToSet(s \o t)
  BY <1>4 DEF ToSet
<1>7. ToSet(t) \subseteq ToSet(s \o t)
  BY <1>5 DEF ToSet
<1> HIDE DEF W
<1>8. IsSequence(s \o t) /\ ToSet(s \o t) \subseteq W
  BY <1>2, AsSequence
<1> QED BY <1>6, <1>7, <1>8 DEF W

LEMMA SequenceOfSet ==
  ASSUME NEW S, IsFiniteSet(S)
  PROVE  IsSequence(SetToSeq(S)) /\ ToSet(SetToSeq(S)) = S
<1> DEFINE n == Cardinality(S)
           s == SetToSeq(S)
<1>1. n \in Nat /\ ExistsBijection(1..n, S)
  BY FS_CardinalityType
<1>2. \E f \in [1..n -> S] : IsInjective(f)
  BY <1>1 DEF ExistsBijection, Bijection, Injection
<1>3. s \in [1..n -> S] /\ IsInjective(s)
  BY <1>2 DEF SetToSeq
<1>4. s \in Injection(1..n, S)
  BY <1>3 DEF Injection
<1>5. Cardinality(1..n) = n
  BY <1>1, FS_Interval
<1> HIDE DEF s, n
<1>6. s \in Surjection(1..n, S)
  BY <1>4, <1>5, FS_Injection DEF n
<1>7. ToSet(s) = S
  BY <1>3, <1>6 DEF Surjection, ToSet
<1>8. IsSequence(s)
  BY <1>1, <1>3, <1>7 DEF IsSequence
<1> QED BY <1>7, <1>8 DEF s

(* A strict total order lists a finite set.                                *)
IsOrder(set, before) ==
  /\ \A x \in set : <<x, x>> \notin before
  /\ \A x, y \in set : x # y => <<x, y>> \in before \/ <<y, x>> \in before
  /\ \A x, y, z \in set : <<x, y>> \in before /\ <<y, z>> \in before => <<x, z>> \in before

LEMMA Listed ==
  ASSUME NEW set, IsFiniteSet(set), NEW before, IsOrder(set, before)
  PROVE  LET all == InOrder(set, before)
         IN  /\ IsSequence(all) /\ Len(all) = Cardinality(set)
             /\ ToSet(all) = set
<1> DEFINE n == Cardinality(set)
           Low(x) == {y \in set : <<y, x>> \in before}
           rank == [x \in set |-> Cardinality(Low(x)) + 1]
           all == InOrder(set, before)
<1>1. n \in Nat
  BY FS_CardinalityType
<1>2. \A x \in set : IsFiniteSet(Low(x)) /\ Cardinality(Low(x)) \in Nat /\ x \notin Low(x)
  BY FS_Subset, FS_CardinalityType DEF IsOrder
<1>3. \A x \in set : Cardinality(Low(x)) < n
  <2> TAKE x \in set
  <2>1. Low(x) \in SUBSET set /\ x \notin Low(x)
    BY <1>2
  <2> HIDE DEF Low
  <2>2. Cardinality(Low(x)) <= n /\ (n = Cardinality(Low(x)) => set = Low(x))
    BY <2>1, FS_Subset
  <2> QED BY <1>1, <1>2, <2>1, <2>2
<1>4. \A x, y \in set : <<x, y>> \in before => Cardinality(Low(x)) < Cardinality(Low(y))
  <2> SUFFICES ASSUME NEW x \in set, NEW y \in set, <<x, y>> \in before
               PROVE  Cardinality(Low(x)) < Cardinality(Low(y))
    OBVIOUS
  <2>1. (Low(x) \cup {x}) \in SUBSET Low(y)
    BY DEF IsOrder
  <2>2. x \notin Low(x) /\ IsFiniteSet(Low(x)) /\ IsFiniteSet(Low(y))
    BY <1>2
  <2>3. Cardinality(Low(x)) \in Nat /\ Cardinality(Low(y)) \in Nat
    BY <1>2
  <2> HIDE DEF Low
  <2>4. Cardinality(Low(x) \cup {x}) = Cardinality(Low(x)) + 1
    BY <2>2, FS_AddElement
  <2>5. Cardinality(Low(x) \cup {x}) <= Cardinality(Low(y))
    BY <2>1, <2>2, FS_Subset
  <2> QED BY <2>3, <2>4, <2>5
<1>5. \A x, y \in set : Cardinality(Low(x)) = Cardinality(Low(y)) => x = y
  <2> SUFFICES ASSUME NEW x \in set, NEW y \in set, x # y
               PROVE  Cardinality(Low(x)) # Cardinality(Low(y))
    OBVIOUS
  <2>1. <<x, y>> \in before \/ <<y, x>> \in before
    BY DEF IsOrder
  <2>2. Cardinality(Low(x)) \in Nat /\ Cardinality(Low(y)) \in Nat
    BY <1>2
  <2> HIDE DEF Low
  <2> QED BY <1>4, <2>1, <2>2
<1> HIDE DEF n, Low
<1>6. rank \in Injection(set, 1..n)
  <2>1. \A x \in set : rank[x] \in 1..n
    BY <1>1, <1>2, <1>3
  <2>2. \A x, y \in set : rank[x] = rank[y] => x = y
    BY <1>2, <1>5
  <2> QED BY <2>1, <2>2 DEF Injection, IsInjective
<1>7. IsFiniteSet(1..n) /\ Cardinality(1..n) = n
  BY <1>1, FS_Interval
<1>8. rank \in Surjection(set, 1..n)
  <2> HIDE DEF rank
  <2> QED BY <1>6, <1>7, FS_Injection DEF n
<1>9. \A k \in 1..n : \E x \in set : Cardinality(Low(x)) = k - 1
  <2> TAKE k \in 1..n
  <2>1. PICK x \in set : rank[x] = k
    BY <1>8 DEF Surjection
  <2> QED BY <1>1, <1>2, <2>1
<1>10. all = [k \in 1..n |-> CHOOSE x \in set : Cardinality(Low(x)) = k - 1]
  BY DEF InOrder, n, Low
<1>11. \A k \in 1..n : all[k] \in set /\ Cardinality(Low(all[k])) = k - 1
  BY <1>9, <1>10
<1> HIDE DEF all
<1>12. ToSet(all) \subseteq set
  BY <1>10, <1>11 DEF ToSet
<1>13. set \subseteq ToSet(all)
  <2> SUFFICES ASSUME NEW x \in set PROVE x \in ToSet(all)
    OBVIOUS
  <2> DEFINE k == Cardinality(Low(x)) + 1
  <2>1. k \in 1..n /\ Cardinality(Low(x)) = k - 1
    BY <1>1, <1>2, <1>3
  <2>2. all[k] = x
    BY <1>5, <1>11, <2>1
  <2> QED BY <1>10, <2>1, <2>2 DEF ToSet
<1>14. IsSequence(all) /\ Len(all) = n
  BY <1>1, <1>10, SequenceOf
<1> QED BY <1>12, <1>13, <1>14 DEF all, n

LEMMA PickedAll ==
  ASSUME NEW s, IsSequence(s), NEW at \in SUBSET DOMAIN s
  PROVE  IsSequence(Picked(s, at)) /\ ToSet(Picked(s, at)) = {s[i] : i \in at}
<1> DEFINE before == {p \in at \X at : p[1] < p[2]}
           places == InOrder(at, before)
<1>1. Len(s) \in Nat /\ DOMAIN s = 1..Len(s)
  BY DEF IsSequence
<1>2. IsFiniteSet(at)
  <2>1. IsFiniteSet(1..Len(s)) /\ at \in SUBSET (1..Len(s))
    BY <1>1, FS_Interval
  <2> QED BY <2>1, FS_Subset
<1>3. at \subseteq Int
  BY <1>1
<1>4. IsOrder(at, before)
  BY <1>3 DEF IsOrder
<1> HIDE DEF before
<1>5. IsSequence(places) /\ ToSet(places) = at
  BY <1>2, <1>4, Listed
<1>6. Picked(s, at) = [k \in DOMAIN places |-> s[places[k]]]
  BY DEF Picked, before
<1> HIDE DEF places
<1>7. Len(places) \in Nat /\ DOMAIN places = 1..Len(places)
  BY <1>5 DEF IsSequence
<1>8. IsSequence(Picked(s, at))
  BY <1>6, <1>7, SequenceOf
<1>9. ToSet(Picked(s, at)) = {s[i] : i \in at}
  BY <1>5, <1>6 DEF ToSet
<1> QED BY <1>8, <1>9

-----------------------------------------------------------------------------
(* Subprojects                                                             *)

(* What a matcher makes.                                                   *)
IsMade(set) ==
  IsFiniteSet(set) /\ \A s \in set : s = Subproject(s.root, s.ecosystem, s.source)

Subprojects(files, root, ecosystem, source) ==
  {Subproject(root[p], ecosystem, source[p]) : p \in files}

LEMMA MadeOf ==
  ASSUME NEW files, IsFiniteSet(files), NEW root, NEW source, NEW ecosystem
  PROVE  IsMade(Subprojects(files, root, ecosystem, source))
<1> DEFINE f == [p \in files |-> Subproject(root[p], ecosystem, source[p])]
           made == Subprojects(files, root, ecosystem, source)
<1>1. made = {f[p] : p \in files}
  BY DEF Subprojects
<1> HIDE DEF f
<1>2. IsFiniteSet(made)
  <2>1. IsFiniteSet({f[p] : p \in files})
    BY ImageFinite
  <2> HIDE DEF made
  <2> QED BY <1>1, <2>1
<1>3. \A s \in made : s = Subproject(s.root, s.ecosystem, s.source)
  BY DEF Subproject, Subprojects
<1> QED BY <1>2, <1>3 DEF IsMade

LEMMA MadeUnion ==
  ASSUME NEW S, NEW T, IsMade(S), IsMade(T)
  PROVE  IsMade(S \cup T)
BY FS_Union DEF IsMade

LEMMA NamedFinite ==
  ASSUME NEW files, IsFiniteSet(files), NEW names
  PROVE  IsFiniteSet(Named(files, names))
<1>1. Named(files, names) \in SUBSET files
  BY DEF Named
<1> QED BY <1>1, FS_Subset

LEMMA ExactMakes ==
  ASSUME NEW m, NEW files, IsFiniteSet(files)
  PROVE  IsMade(MakeExact(m, files).made)
<1> DEFINE locks == Named(files, m.locks)
           ManifestFor(l) == FirstBeside(l, SetToSeq(m.manifests), files)
           paired == {ManifestFor(l) : l \in locks} \ {NoPath}
           lone == IF m.alone THEN Named(files, m.manifests) \ paired ELSE {}
           lockRoot == [p \in locks |-> Front(p)]
           lockSource == [p \in locks |-> LockSource(p, ManifestFor(p))]
           loneRoot == [p \in lone |-> Front(p)]
           loneSource == [p \in lone |-> ManifestSource(p)]
<1>1. IsFiniteSet(locks) /\ IsFiniteSet(lone)
  <2>1. lone \in SUBSET Named(files, m.manifests)
    OBVIOUS
  <2> HIDE DEF lone
  <2> QED BY <2>1, NamedFinite, FS_Subset
<1>2. MakeExact(m, files).made =
        Subprojects(locks, lockRoot, m.ecosystem, lockSource)
          \cup Subprojects(lone, loneRoot, m.ecosystem, loneSource)
  BY DEF MakeExact, Subprojects
<1> HIDE DEF locks, lone, lockRoot, lockSource, loneRoot, loneSource
<1>3. IsMade(Subprojects(locks, lockRoot, m.ecosystem, lockSource))
  BY <1>1, MadeOf
<1>4. IsMade(Subprojects(lone, loneRoot, m.ecosystem, loneSource))
  BY <1>1, MadeOf
<1> QED BY <1>2, <1>3, <1>4, MadeUnion

LEMMA ManifestOnlyMakes ==
  ASSUME NEW m, NEW files, IsFiniteSet(files)
  PROVE  IsMade(MakeManifestOnly(m, files).made)
<1> DEFINE named == Named(files, m.manifests)
           root == [p \in named |-> Front(p)]
           source == [p \in named |-> ManifestSource(p)]
<1>1. IsFiniteSet(named)
  BY NamedFinite
<1>2. MakeManifestOnly(m, files).made = Subprojects(named, root, m.ecosystem, source)
  BY DEF MakeManifestOnly, Subprojects
<1> HIDE DEF named, root, source
<1> QED BY <1>1, <1>2, MadeOf

LEMMA SbtMakes ==
  ASSUME NEW m, NEW files, IsFiniteSet(files)
  PROVE  IsMade(MakeSbt(m, files).made)
<1> DEFINE builds == Named(files, m.manifests)
           outer == {b \in builds : ~Below(b, {Front(c) : c \in builds \ {b}})}
           root == [p \in outer |-> Front(p)]
           source == [p \in outer |-> ManifestSource(p)]
<1>1. IsFiniteSet(outer)
  <2>1. outer \in SUBSET builds
    OBVIOUS
  <2> HIDE DEF outer
  <2> QED BY <2>1, NamedFinite, FS_Subset
<1>2. MakeSbt(m, files).made = Subprojects(outer, root, m.ecosystem, source)
  BY DEF MakeSbt, Subprojects
<1> HIDE DEF outer, root, source
<1> QED BY <1>1, <1>2, MadeOf

LEMMA PipMakes ==
  ASSUME NEW m, NEW files, IsFiniteSet(files)
  PROVE  IsMade(MakePip(m, files).made)
<1> DEFINE locks == {p \in Named(files, m.locks) : IsRequirements(p)}
           Of(root) == {p \in locks : RequirementsRoot(p) = root}
           Source(p) == LockSource(p, RequirementsManifest(p, files))
           SourceOf(root) ==
             IF Cardinality(Of(root)) = 1 THEN Source(CHOOSE p \in Of(root) : TRUE)
             ELSE MultiSource([i \in 1..Cardinality(Of(root)) |-> Source(SetToSeq(Of(root))[i])])
           Root == [p \in locks |-> RequirementsRoot(p)]
           Roots == {Root[p] : p \in locks}
           root == [r \in Roots |-> r]
           source == [r \in Roots |-> SourceOf(r)]
<1>1. IsFiniteSet(locks)
  <2>1. locks \in SUBSET Named(files, m.locks)
    OBVIOUS
  <2> HIDE DEF locks
  <2> QED BY <2>1, NamedFinite, FS_Subset
<1>2. {RequirementsRoot(p) : p \in locks} = Roots
  OBVIOUS
<1>3. MakePip(m, files).made = {Subproject(r, m.ecosystem, SourceOf(r)) : r \in Roots}
  BY <1>2 DEF MakePip
<1> HIDE DEF SourceOf, locks, Roots
<1>4. MakePip(m, files).made = Subprojects(Roots, root, m.ecosystem, source)
  BY <1>3 DEF Subprojects
<1> HIDE DEF root, source, Root
<1>5. IsFiniteSet(Roots)
  BY <1>1, ImageFinite DEF Roots
<1> QED BY <1>4, <1>5, MadeOf

LEMMA GradleMakes ==
  ASSUME NEW m, NEW files, IsFiniteSet(files)
  PROVE  IsMade(MakeGradle(m, files).made)
<1> DEFINE locks == Named(files, m.locks)
           Manifest(p) == IF FirstBeside(p, BuildFiles, files) # NoPath
                          THEN FirstBeside(p, BuildFiles, files)
                          ELSE FirstBeside(p, SettingsFiles, files)
           taken == {FirstBeside(l, SettingsFiles, files) : l \in locks}
           settings == Named(files, ToSet(SettingsFiles)) \ taken
           usedBuilds == {FirstBeside(p, BuildFiles, files) : p \in locks \cup settings}
           all == Named(files, ToSet(BuildFiles)) \ usedBuilds
           builds == SetToSeq(all)
           Above(i) == {Front(l) : l \in locks \cup settings} \cup {Front(builds[j]) : j \in 1..(i - 1)}
           lone == {builds[i] : i \in {j \in DOMAIN builds : ~Below(builds[j], Above(j))}}
           lockRoot == [p \in locks |-> Front(p)]
           lockSource == [p \in locks |-> LockSource(p, Manifest(p))]
           setRoot == [p \in settings |-> Front(p)]
           setSource == [p \in settings |-> ManifestSource(Manifest(p))]
           loneRoot == [p \in lone |-> Front(p)]
           loneSource == [p \in lone |-> ManifestSource(p)]
<1>1. IsFiniteSet(locks) /\ IsFiniteSet(settings) /\ IsFiniteSet(all)
  <2>1. /\ settings \in SUBSET Named(files, ToSet(SettingsFiles))
        /\ all \in SUBSET Named(files, ToSet(BuildFiles))
    OBVIOUS
  <2> HIDE DEF settings, all
  <2> QED BY <2>1, NamedFinite, FS_Subset
<1>2. MakeGradle(m, files).made =
        (Subprojects(locks, lockRoot, m.ecosystem, lockSource)
          \cup Subprojects(settings, setRoot, m.ecosystem, setSource))
          \cup Subprojects(lone, loneRoot, m.ecosystem, loneSource)
  BY DEF MakeGradle, Subprojects
<1> HIDE DEF all
<1>3. ToSet(builds) = all
  BY <1>1, SequenceOfSet
<1> HIDE DEF builds
<1>4. lone \in SUBSET all
  BY <1>3 DEF ToSet
<1> HIDE DEF locks, settings, lone, lockRoot, lockSource, setRoot, setSource, loneRoot, loneSource
<1>5. IsMade(Subprojects(locks, lockRoot, m.ecosystem, lockSource))
  BY <1>1, MadeOf
<1>6. IsMade(Subprojects(settings, setRoot, m.ecosystem, setSource))
  BY <1>1, MadeOf
<1>7. IsMade(Subprojects(lone, loneRoot, m.ecosystem, loneSource))
  <2>1. IsFiniteSet(lone)
    BY <1>1, <1>4, FS_Subset
  <2> QED BY <2>1, MadeOf
<1>8. IsMade(Subprojects(locks, lockRoot, m.ecosystem, lockSource)
               \cup Subprojects(settings, setRoot, m.ecosystem, setSource))
  BY <1>5, <1>6, MadeUnion
<1> QED BY <1>2, <1>7, <1>8, MadeUnion

LEMMA MatcherTypes ==
  \A i \in DOMAIN MATCHERS : MATCHERS[i].type \in {"exact", "manifest only", "pip", "gradle", "sbt"}
<1> DEFINE Types == {"exact", "manifest only", "pip", "gradle", "sbt"}
<1>1. DOMAIN MATCHERS = 1..22
  BY DEF MATCHERS
<1>2. MATCHERS[1].type \in Types
  BY DEF MATCHERS, Exact, Alone
<1>3. MATCHERS[2].type \in Types
  BY DEF MATCHERS, Exact, Alone
<1>4. MATCHERS[3].type \in Types
  BY DEF MATCHERS, Exact, Alone
<1>5. MATCHERS[4].type \in Types
  BY DEF MATCHERS, Exact, Alone
<1>6. MATCHERS[5].type \in Types
  BY DEF MATCHERS, Exact, Alone
<1>7. MATCHERS[6].type \in Types
  BY DEF MATCHERS, Exact, Alone
<1>8. MATCHERS[7].type \in Types
  BY DEF MATCHERS, Exact, Alone
<1>9. MATCHERS[8].type \in Types
  BY DEF MATCHERS, Exact, Alone
<1>10. MATCHERS[9].type \in Types
  BY DEF MATCHERS, Exact, Alone
<1>11. MATCHERS[10].type \in Types
  BY DEF MATCHERS, Exact, Alone
<1>12. MATCHERS[11].type \in Types
  BY DEF MATCHERS, Exact, Alone
<1>13. MATCHERS[12].type \in Types
  BY DEF MATCHERS, Exact, Alone
<1>14. MATCHERS[13].type \in Types
  BY DEF MATCHERS, Exact, Alone
<1>15. MATCHERS[14].type \in Types
  BY DEF MATCHERS, Exact, Alone
<1>16. MATCHERS[15].type \in Types
  BY DEF MATCHERS, Exact, Alone
<1>17. MATCHERS[16].type \in Types
  BY DEF MATCHERS, Exact, Alone
<1>18. MATCHERS[17].type \in Types
  BY DEF MATCHERS, Exact, Alone
<1>19. MATCHERS[18].type \in Types
  BY DEF MATCHERS, Exact, Alone
<1>20. MATCHERS[19].type \in Types
  BY DEF MATCHERS, Exact, Alone
<1>21. MATCHERS[20].type \in Types
  BY DEF MATCHERS, Exact, Alone
<1>22. MATCHERS[21].type \in Types
  BY DEF MATCHERS, Exact, Alone
<1>23. MATCHERS[22].type \in Types
  BY DEF MATCHERS, Exact, Alone
<1> HIDE DEF Types
<1>24. \A i \in 1..22 : MATCHERS[i].type \in Types
  BY <1>2, <1>3, <1>4, <1>5, <1>6, <1>7, <1>8, <1>9, <1>10, <1>11, <1>12, <1>13, <1>14, <1>15, <1>16, <1>17, <1>18, <1>19, <1>20, <1>21, <1>22, <1>23
<1> QED BY <1>1, <1>24 DEF Types

LEMMA MatcherMakes ==
  ASSUME NEW i \in DOMAIN MATCHERS, NEW files, IsFiniteSet(files)
  PROVE  IsMade(MakeSubprojects(MATCHERS[i], files).made)
<1> DEFINE m == MATCHERS[i]
<1>1. m.type \in {"exact", "manifest only", "pip", "gradle", "sbt"}
  BY MatcherTypes
<1> HIDE DEF m
<1>2. \/ m.type = "exact" /\ MakeSubprojects(m, files) = MakeExact(m, files)
      \/ m.type = "manifest only" /\ MakeSubprojects(m, files) = MakeManifestOnly(m, files)
      \/ m.type = "pip" /\ MakeSubprojects(m, files) = MakePip(m, files)
      \/ m.type = "gradle" /\ MakeSubprojects(m, files) = MakeGradle(m, files)
      \/ m.type = "sbt" /\ MakeSubprojects(m, files) = MakeSbt(m, files)
  BY <1>1 DEF MakeSubprojects
<1>3. IsMade(MakeSubprojects(m, files).made)
  BY <1>2, ExactMakes, ManifestOnlyMakes, PipMakes, GradleMakes, SbtMakes
<1> QED BY <1>3 DEF m

(* Subprojects in a row; FindSubprojects gives such.                       *)
AreSubprojects(s) ==
  IsSequence(s) /\ \A t \in ToSet(s) : t = Subproject(t.root, t.ecosystem, t.source)

LEMMA MatchFinds ==
  ASSUME NEW files, IsFiniteSet(files), NEW i \in DOMAIN MATCHERS, NEW before,
         AreSubprojects(before.found), before.rest \in SUBSET files
  PROVE  LET after == Match(i, before, files)
         IN  AreSubprojects(after.found) /\ after.rest \in SUBSET files
<1> DEFINE made == MakeSubprojects(MATCHERS[i], before.rest).made
<1>1. IsFiniteSet(before.rest)
  BY FS_Subset
<1>2. IsMade(made)
  BY <1>1, MatcherMakes
<1>3. IsSequence(SetToSeq(made)) /\ ToSet(SetToSeq(made)) = made
  BY <1>2, SequenceOfSet DEF IsMade
<1>4. /\ Match(i, before, files).found = before.found \o SetToSeq(made)
      /\ Match(i, before, files).rest \in SUBSET files
  BY DEF Match
<1> HIDE DEF made
<1>5. /\ IsSequence(before.found \o SetToSeq(made))
      /\ ToSet(before.found \o SetToSeq(made)) = ToSet(before.found) \cup made
  BY <1>3, Joined DEF AreSubprojects
<1> QED BY <1>2, <1>4, <1>5 DEF AreSubprojects, IsMade

(* Whatever the files are, match_subprojects lists subprojects.            *)
LEMMA SubprojectsMatched ==
  ASSUME NEW files, IsFiniteSet(files)
  PROVE  AreSubprojects(MatchSubprojects(files))
<1> DEFINE N == Len(MATCHERS)
           G(f, n) == f = [i \in 0..n |-> IF i = 0 THEN [found |-> << >>, rest |-> files]
                                          ELSE Match(i, f[i - 1], files)]
           S == {n \in Nat : \E f : G(f, n)}
           after == CHOOSE f : G(f, N)
           T == {n \in Nat : n <= N => /\ AreSubprojects(after[n].found)
                                       /\ after[n].rest \in SUBSET files}
<1>1. N \in Nat /\ DOMAIN MATCHERS = 1..N
  BY DEF MATCHERS
<1> HIDE DEF N
<1>2. 0 \in S
  <2>1. G([i \in 0..0 |-> [found |-> << >>, rest |-> files]], 0)
    OBVIOUS
  <2> QED BY <2>1
<1>3. \A n \in Nat : n \in S => n + 1 \in S
  <2> SUFFICES ASSUME NEW n \in Nat, n \in S PROVE n + 1 \in S
    OBVIOUS
  <2>0. PICK f : G(f, n)
    OBVIOUS
  <2> DEFINE g == [i \in 0..(n + 1) |-> IF i = 0 THEN [found |-> << >>, rest |-> files]
                                        ELSE Match(i, f[i - 1], files)]
  <2>1. \A i \in 0..n : g[i] = f[i]
    BY <2>0
  <2>2. \A i \in 0..(n + 1) : i # 0 => i - 1 \in 0..n
    OBVIOUS
  <2>3. \A i \in 0..(n + 1) : i # 0 => g[i - 1] = f[i - 1]
    BY <2>1, <2>2
  <2>4. G(g, n + 1)
    BY <2>3
  <2> HIDE DEF g
  <2> QED BY <2>4
<1>4. \A n \in Nat : n \in S
  BY <1>2, <1>3, Induction
<1>5. G(after, N)
  BY <1>1, <1>4
<1> HIDE DEF after
<1>6. 0 \in T
  <2>1. after[0] = [found |-> << >>, rest |-> files]
    BY <1>1, <1>5
  <2>2. AreSubprojects(<< >>)
    BY DEF AreSubprojects, IsSequence, ToSet
  <2> QED BY <2>1, <2>2
<1>7. \A n \in Nat : n \in T => n + 1 \in T
  <2> SUFFICES ASSUME NEW n \in Nat, n + 1 <= N,
                      AreSubprojects(after[n].found), after[n].rest \in SUBSET files
               PROVE  AreSubprojects(after[n + 1].found) /\ after[n + 1].rest \in SUBSET files
    BY <1>1
  <2>1. after[n + 1] = Match(n + 1, after[n], files)
    BY <1>1, <1>5
  <2>2. n + 1 \in DOMAIN MATCHERS
    BY <1>1
  <2> QED BY <2>1, <2>2, MatchFinds
<1>8. \A n \in Nat : n \in T
  <2> HIDE DEF T
  <2> QED BY <1>6, <1>7, Induction
<1>9. AreSubprojects(after[N].found)
  BY <1>1, <1>8
<1>10. MatchSubprojects(files) = after[N].found
  BY DEF MatchSubprojects, after, N
<1> QED BY <1>9, <1>10

LEMMA SubprojectsFound ==
  ASSUME NEW disk, NEW manager, IsFiniteSet(DOMAIN disk)
  PROVE  AreSubprojects(FindSubprojects(disk, manager))
<1> DEFINE files == DependencySourceFiles(disk, manager, TRUE, FALSE)
<1>1. files \in SUBSET DOMAIN disk
  BY DEF DependencySourceFiles, GetAllFiles, TargetFilesFull, Discover
<1> HIDE DEF files
<1>2. IsFiniteSet(files)
  BY <1>1, FS_Subset
<1> QED BY <1>2, SubprojectsMatched DEF FindSubprojects, files

-----------------------------------------------------------------------------
(* Shards                                                                  *)

(* The total of sizes is a number.                                         *)
LEMMA TotalIsNat ==
  ASSUME NEW sizes \in Seq(Nat)
  PROVE  TotalBytes(sizes) \in Nat
<1> DEFINE N == Len(sizes)
           G(f, n) == f = [i \in 0..n |-> IF i = 0 THEN 0 ELSE f[i - 1] + sizes[i]]
           S == {n \in Nat : \E f : G(f, n)}
           upTo == CHOOSE f : G(f, N)
           T == {n \in Nat : n <= N => upTo[n] \in Nat}
<1>1. N \in Nat /\ \A i \in 1..N : sizes[i] \in Nat
  OBVIOUS
<1> HIDE DEF N
<1>2. 0 \in S
  <2>1. G([i \in 0..0 |-> 0], 0)
    OBVIOUS
  <2> QED BY <2>1
<1>3. \A n \in Nat : n \in S => n + 1 \in S
  <2> SUFFICES ASSUME NEW n \in Nat, n \in S PROVE n + 1 \in S
    OBVIOUS
  <2>0. PICK f : G(f, n)
    OBVIOUS
  <2> DEFINE g == [i \in 0..(n + 1) |-> IF i = 0 THEN 0 ELSE f[i - 1] + sizes[i]]
  <2>1. \A i \in 0..n : g[i] = f[i]
    BY <2>0
  <2>2. \A i \in 0..(n + 1) : i # 0 => i - 1 \in 0..n
    OBVIOUS
  <2>3. \A i \in 0..(n + 1) : i # 0 => g[i - 1] = f[i - 1]
    BY <2>1, <2>2
  <2>4. G(g, n + 1)
    BY <2>3
  <2> HIDE DEF g
  <2> QED BY <2>4
<1>4. \A n \in Nat : n \in S
  BY <1>2, <1>3, Induction
<1>5. G(upTo, N)
  BY <1>1, <1>4
<1> HIDE DEF upTo
<1>6. 0 \in T
  BY <1>1, <1>5
<1>7. \A n \in Nat : n \in T => n + 1 \in T
  <2> SUFFICES ASSUME NEW n \in Nat, n + 1 <= N, upTo[n] \in Nat
               PROVE  upTo[n + 1] \in Nat
    BY <1>1
  <2>1. upTo[n + 1] = upTo[n] + sizes[n + 1]
    BY <1>1, <1>5
  <2> QED BY <1>1, <2>1
<1>8. \A n \in Nat : n \in T
  <2> HIDE DEF T
  <2> QED BY <1>6, <1>7, Induction
<1>9. upTo[N] \in Nat
  BY <1>1, <1>8
<1> QED BY <1>9 DEF TotalBytes, upTo, N

LEMMA ShardCountIsInt ==
  ASSUME NEW n \in Nat, NEW jobs \in Nat, NEW bytes \in Nat
  PROVE  ShardCount(n, jobs, bytes) \in Int
<1>1. CeilDiv(bytes, TARGET_BYTES) \in Int
  BY ShardAssumption DEF CeilDiv
<1> QED BY <1>1, ShardAssumption DEF ShardCount, Least, Most

(* The lightest shard, and the first of several, is one of them.           *)
LEMMA LightestExists ==
  ASSUME NEW n \in Nat, n > 0, NEW bytes \in [1..n -> Nat]
  PROVE  Lightest(bytes) \in 1..n
<1> DEFINE weights == {bytes[k] : k \in 1..n}
<1>1. weights \in SUBSET Nat /\ weights # {}
  <2>1. 1 \in 1..n
    OBVIOUS
  <2> QED BY <2>1
<1> HIDE DEF weights
<1>2. PICK w \in weights : \A v \in weights : w <= v
  BY <1>1, LeastOf
<1> DEFINE light == {k \in 1..n : bytes[k] = w}
<1>3. light \in SUBSET Nat /\ light # {}
  BY <1>2 DEF weights
<1>4. PICK k \in light : \A j \in light : k <= j
  <2> HIDE DEF light
  <2> QED BY <1>3, LeastOf
<1>5. k \in 1..n /\ bytes[k] = w
  OBVIOUS
<1>6. \A j \in 1..n : bytes[k] <= bytes[j] /\ (bytes[j] = bytes[k] => k <= j)
  BY <1>2, <1>4, <1>5 DEF weights
<1>7. \A j \in DOMAIN bytes : bytes[k] < bytes[j] \/ (bytes[k] = bytes[j] /\ k <= j)
  BY <1>5, <1>6
<1>8. k \in DOMAIN bytes
  BY <1>5
<1> QED BY <1>7, <1>8 DEF Lightest

LEMMA BySizeOrders ==
  ASSUME NEW sizes \in Seq(Nat)
  PROVE  IsSequence(BySize(sizes)) /\ ToSet(BySize(sizes)) = DOMAIN sizes
<1> DEFINE all == DOMAIN sizes
           before == {p \in all \X all : \/ sizes[p[1]] > sizes[p[2]]
                                         \/ sizes[p[1]] = sizes[p[2]] /\ p[1] < p[2]}
<1>1. all = 1..Len(sizes) /\ Len(sizes) \in Nat /\ \A i \in all : sizes[i] \in Nat /\ i \in Nat
  OBVIOUS
<1>2. IsFiniteSet(all)
  BY <1>1, FS_Interval
<1> HIDE DEF all
<1>3. IsOrder(all, before)
  <2>1. \A x, y \in all :
          <<x, y>> \in before <=> (sizes[x] > sizes[y] \/ (sizes[x] = sizes[y] /\ x < y))
    OBVIOUS
  <2> HIDE DEF before
  <2>2. \A x \in all : <<x, x>> \notin before
    BY <1>1, <2>1
  <2>3. ASSUME NEW x \in all, NEW y \in all, x # y PROVE <<x, y>> \in before \/ <<y, x>> \in before
    <3>1. x \in Nat /\ y \in Nat /\ sizes[x] \in Nat /\ sizes[y] \in Nat
      BY <1>1
    <3>2. \/ sizes[x] > sizes[y] \/ (sizes[x] = sizes[y] /\ x < y)
          \/ sizes[y] > sizes[x] \/ (sizes[y] = sizes[x] /\ y < x)
      BY <2>3, <3>1
    <3> QED BY <2>1, <3>2
  <2>4. ASSUME NEW x \in all, NEW y \in all, NEW z \in all,
               <<x, y>> \in before, <<y, z>> \in before
        PROVE  <<x, z>> \in before
    <3>1. /\ sizes[x] > sizes[y] \/ (sizes[x] = sizes[y] /\ x < y)
          /\ sizes[y] > sizes[z] \/ (sizes[y] = sizes[z] /\ y < z)
      BY <2>1, <2>4
    <3>2. /\ x \in Nat /\ y \in Nat /\ z \in Nat
          /\ sizes[x] \in Nat /\ sizes[y] \in Nat /\ sizes[z] \in Nat
      BY <1>1
    <3>3. sizes[x] > sizes[z] \/ (sizes[x] = sizes[z] /\ x < z)
      BY <3>1, <3>2
    <3> QED BY <2>1, <3>3
  <2> QED BY <2>2, <2>3, <2>4 DEF IsOrder
<1>4. BySize(sizes) = InOrder(all, before)
  BY DEF BySize, all
<1> HIDE DEF before
<1> QED BY <1>2, <1>3, <1>4, Listed DEF all

(* Every rule is assigned to one of the shards.                            *)
LEMMA AllAssigned ==
  ASSUME NEW sizes \in Seq(Nat), NEW n \in Int, n > 1
  PROVE  UNION ToSet(Assigned(sizes, n)) = DOMAIN sizes
<1> DEFINE order == BySize(sizes)
           N == Len(order)
           Zero == [k \in 1..n |-> 0]
           Next_(before, t) == [before EXCEPT ![Lightest(before)] = @ + sizes[order[t]]]
           G(f, m) == f = [t \in 0..m |-> IF t = 0 THEN Zero ELSE Next_(f[t - 1], t)]
           S == {m \in Nat : \E f : G(f, m)}
           bytes == CHOOSE f : G(f, N)
           T == {m \in Nat : m <= N => bytes[m] \in [1..n -> Nat]}
<1>1. IsSequence(order) /\ ToSet(order) = DOMAIN sizes
  BY BySizeOrders
<1> HIDE DEF order
<1>2. N \in Nat /\ DOMAIN order = 1..N /\ \A t \in 1..N : order[t] \in DOMAIN sizes
  BY <1>1 DEF IsSequence, ToSet
<1> HIDE DEF N, Next_, Zero
<1>3. 0 \in S
  <2>1. G([t \in 0..0 |-> Zero], 0)
    OBVIOUS
  <2> QED BY <2>1
<1>4. \A m \in Nat : m \in S => m + 1 \in S
  <2> SUFFICES ASSUME NEW m \in Nat, m \in S PROVE m + 1 \in S
    OBVIOUS
  <2>0. PICK f : G(f, m)
    OBVIOUS
  <2> DEFINE g == [t \in 0..(m + 1) |-> IF t = 0 THEN Zero ELSE Next_(f[t - 1], t)]
  <2>1. \A t \in 0..m : g[t] = f[t]
    BY <2>0
  <2>2. \A t \in 0..(m + 1) : t # 0 => t - 1 \in 0..m
    OBVIOUS
  <2>3. \A t \in 0..(m + 1) : t # 0 => g[t - 1] = f[t - 1]
    BY <2>1, <2>2
  <2>4. G(g, m + 1)
    BY <2>3
  <2> HIDE DEF g
  <2> QED BY <2>4
<1>5. \A m \in Nat : m \in S
  BY <1>3, <1>4, Induction
<1>6. G(bytes, N)
  BY <1>2, <1>5
<1> HIDE DEF bytes
<1>7. 0 \in T
  BY <1>2, <1>6 DEF Zero
<1>8. \A m \in Nat : m \in T => m + 1 \in T
  <2> SUFFICES ASSUME NEW m \in Nat, m \in T PROVE m + 1 \in T
    OBVIOUS
  <2>0. CASE ~(m + 1 <= N)
    BY <2>0
  <2>1. CASE m + 1 <= N
    <3>1. m <= N /\ m + 1 \in 0..N /\ m + 1 # 0 /\ (m + 1) - 1 = m /\ m + 1 \in 1..N
      BY <1>2, <2>1
    <3>2. bytes[m] \in [1..n -> Nat]
      BY <3>1
    <3>3. bytes[m + 1] = Next_(bytes[m], m + 1)
      BY <1>6, <3>1
    <3>4. sizes[order[m + 1]] \in Nat
      BY <1>2, <3>1
    <3>5. Lightest(bytes[m]) \in 1..n
      <4>1. n \in Nat /\ n > 0
        OBVIOUS
      <4> QED BY <3>2, <4>1, LightestExists
    <3>6. ASSUME NEW b \in [1..n -> Nat], NEW k \in 1..n, NEW w \in Nat
          PROVE  [b EXCEPT ![k] = @ + w] \in [1..n -> Nat]
      OBVIOUS
    <3> HIDE DEF T
    <3>7. Next_(bytes[m], m + 1) \in [1..n -> Nat]
      BY <3>2, <3>4, <3>5, <3>6 DEF Next_
    <3>8. bytes[m + 1] \in [1..n -> Nat]
      BY <3>3, <3>7
    <3> QED BY <3>8 DEF T
  <2> QED BY <2>0, <2>1
<1>9. \A m \in Nat : m \in T
  <2> HIDE DEF T
  <2> QED BY <1>7, <1>8, Induction
<1>10. \A t \in 1..N : Lightest(bytes[t - 1]) \in 1..n
  <2> TAKE t \in 1..N
  <2>1. bytes[t - 1] \in [1..n -> Nat]
    BY <1>2, <1>9
  <2> QED BY <2>1, LightestExists
<1> DEFINE shards == [k \in 1..n |-> {order[t] : t \in {u \in DOMAIN order : Lightest(bytes[u - 1]) = k}}]
<1>11. Assigned(sizes, n) = shards
  BY DEF Assigned, bytes, order, N, Next_, Zero
<1>12. UNION ToSet(shards) = ToSet(order)
  <2>1. \A k \in 1..n : shards[k] \subseteq ToSet(order)
    BY DEF ToSet
  <2>2. \A t \in 1..N : order[t] \in shards[Lightest(bytes[t - 1])]
    BY <1>2, <1>10
  <2>3. ToSet(shards) = {shards[k] : k \in 1..n}
    BY DEF ToSet
  <2> HIDE DEF shards
  <2>4. UNION ToSet(shards) \subseteq ToSet(order)
    BY <2>1, <2>3
  <2>5. \A t \in 1..N : order[t] \in UNION ToSet(shards)
    BY <1>10, <2>2, <2>3
  <2>6. ToSet(order) \subseteq UNION ToSet(shards)
    BY <1>2, <2>5 DEF ToSet
  <2> QED BY <2>4, <2>6
<1> QED BY <1>1, <1>11, <1>12

(* _shard_rules writes every rule to some file.                            *)
LEMMA AllSharded ==
  ASSUME NEW sizes \in Seq(Nat), NEW n \in Int
  PROVE  UNION ToSet(ShardRules(sizes, n)) = DOMAIN sizes
<1>1. CASE n <= 1
  <2>1. ShardRules(sizes, n) = <<DOMAIN sizes>>
    BY <1>1 DEF ShardRules
  <2>2. ToSet(<<DOMAIN sizes>>) = {DOMAIN sizes}
    BY DEF ToSet
  <2> QED BY <2>1, <2>2
<1>2. CASE n > 1
  <2>1. ShardRules(sizes, n) = Assigned(sizes, n)
    BY <1>2 DEF ShardRules
  <2> QED BY <1>2, <2>1, AllAssigned
<1> QED BY <1>1, <1>2

-----------------------------------------------------------------------------
(* Rules                                                                   *)

(* What is left out for being the same but for its metadata has one that   *)
(* stays.                                                                  *)
LEMMA Deduplicated ==
  ASSUME NEW s, IsSequence(s)
  PROVE  /\ IsSequence(Deduplicate(s)) /\ ToSet(Deduplicate(s)) \subseteq ToSet(s)
         /\ \A q \in ToSet(s) : \E d \in ToSet(Deduplicate(s)) : WithoutMetadata(d) = WithoutMetadata(q)
<1> DEFINE Same(i) == {j \in DOMAIN s : WithoutMetadata(s[j]) = WithoutMetadata(s[i])}
           FirstOf(i) == CHOOSE j \in Same(i) : \A k \in Same(i) : j <= k
           firsts == [i \in DOMAIN s |-> s[FirstOf(i)]]
           at == {i \in DOMAIN s : \A j \in Same(i) : j <= i}
<1>1. Len(s) \in Nat /\ DOMAIN s = 1..Len(s)
  BY DEF IsSequence
<1>2. Deduplicate(s) = Picked(firsts, at)
  BY DEF Deduplicate
<1>3. \A i \in DOMAIN s : Same(i) \in SUBSET Nat /\ Same(i) # {} /\ i \in Same(i)
  BY <1>1
<1>4. \A i \in DOMAIN s : FirstOf(i) \in Same(i)
  <2> TAKE i \in DOMAIN s
  <2>1. Same(i) \in SUBSET Nat /\ Same(i) # {}
    BY <1>3
  <2> HIDE DEF Same
  <2>2. \E j \in Same(i) : \A k \in Same(i) : j <= k
    BY <2>1, LeastOf
  <2> QED BY <2>2
<1>5. \A i \in DOMAIN s : firsts[i] \in ToSet(s) /\ WithoutMetadata(firsts[i]) = WithoutMetadata(s[i])
  <2> TAKE i \in DOMAIN s
  <2>1. FirstOf(i) \in Same(i)
    BY <1>4
  <2> HIDE DEF FirstOf
  <2> QED BY <2>1 DEF ToSet
<1>6. \A i \in DOMAIN s : \E k \in at : WithoutMetadata(s[k]) = WithoutMetadata(s[i])
  <2> TAKE i \in DOMAIN s
  <2> DEFINE left == {Len(s) - j : j \in Same(i)}
  <2>1. left \in SUBSET Nat /\ left # {}
    <3>1. \A j \in Same(i) : j \in 1..Len(s)
      BY <1>1
    <3>2. \A j \in 1..Len(s) : Len(s) - j \in Nat
      BY <1>1
    <3> QED BY <1>3, <3>1, <3>2
  <2>2. PICK l \in left : \A m \in left : l <= m
    <3> HIDE DEF left
    <3> QED BY <2>1, LeastOf
  <2>3. PICK k \in Same(i) : l = Len(s) - k
    OBVIOUS
  <2>4. \A j \in Same(i) : Len(s) - k <= Len(s) - j
    BY <2>2, <2>3
  <2>5. \A j \in Same(i) : j \in Nat
    BY <1>3
  <2>6. \A j \in Same(i) : j <= k
    BY <1>1, <2>3, <2>4, <2>5
  <2>7. Same(k) = Same(i)
    OBVIOUS
  <2>8. k \in at
    BY <2>6, <2>7
  <2> QED BY <2>8
<1>7. firsts = [i \in 1..Len(s) |-> firsts[i]]
  BY <1>1
<1>8. at \in SUBSET DOMAIN firsts
  OBVIOUS
<1> HIDE DEF firsts, at
<1>9. IsSequence(firsts)
  BY <1>1, <1>7, SequenceOf
<1>10. /\ IsSequence(Picked(firsts, at))
       /\ ToSet(Picked(firsts, at)) = {firsts[i] : i \in at}
  BY <1>8, <1>9, PickedAll
<1>11. at \subseteq DOMAIN s
  BY DEF at
<1>12. \A q \in ToSet(s) : \E i \in at : WithoutMetadata(firsts[i]) = WithoutMetadata(q)
  BY <1>5, <1>6, <1>11 DEF ToSet
<1>13. {firsts[i] : i \in at} \subseteq ToSet(s)
  BY <1>5, <1>11
<1> QED BY <1>2, <1>10, <1>12, <1>13

Kinds == {"path", "r2c", "registry url", "registry id", "url", "auto", "products"}
Answers == {"ok", "unauthorized", "retries", "status"}

LEMMA ConfigLoaded ==
  ASSUME NEW c, NEW env, NEW answer \in Answers, NEW fallback,
         c.kind \in Kinds,
         LoadConfig(c, env, answer, fallback).error = NoError
  PROVE  LoadConfig(c, env, answer, fallback).files = c.files
<1>1. Origin(c) \in {"REGISTRY", "REMOTE", "SEMGREP_CLOUD_PLATFORM", "LOCAL"}
  BY DEF Origin, Kinds
<1>2. Download(c, answer).error = NoError => Download(c, answer).files = c.files
  BY DEF Download, Fetched, Refused, NoError, Err
<1>3. LocalFiles(c).error = NoError => LocalFiles(c).files = c.files
  BY DEF LocalFiles, Fetched, Refused, NoError, Err
<1>4. FetchCloud(c, env, answer, fallback).error = NoError => FetchCloud(c, env, answer, fallback).files = c.files
  BY DEF FetchCloud, Answers, Fetched, Refused
<1> QED BY <1>1, <1>2, <1>3, <1>4 DEF LoadConfig

(* The rules of a file: all that this version runs, unless an error that   *)
(* is not about versions says otherwise.                                   *)
LEMMA FileParsed ==
  ASSUME NEW file, IsSequence(file.rules), NEW mode, NEW forceSchema, NEW alive
  PROVE  LET parsed == ParseConfigString(file, mode, forceSchema, alive)
         IN  /\ IsSequence(parsed.rules)
             /\ \A q \in ToSet(parsed.rules) : \E r \in Compatibles(file) : q = NewRule(r)
             /\ parsed.raised = NoError /\ Real(parsed.errors) = {} =>
                  \A r \in Compatibles(file) : NewRule(r) \in ToSet(parsed.rules)
<1> DEFINE at == {i \in DOMAIN file.rules : Compatible(file.rules[i])}
           mine == Picked(file.rules, at)
           whole == {i \in DOMAIN mine : mine[i].shape # "malformed"}
           good == Picked(mine, whole)
           made == CreateRules(mine)
           parsed == ParseConfigString(file, mode, forceSchema, alive)
<1>1. IsSequence(mine) /\ ToSet(mine) = Compatibles(file)
  <2>1. at \in SUBSET DOMAIN file.rules
    OBVIOUS
  <2>2. {file.rules[i] : i \in at} = Compatibles(file)
    BY DEF Compatibles, ToSet
  <2> HIDE DEF at
  <2> QED BY <2>1, <2>2, PickedAll
<1> HIDE DEF mine
<1>2. IsSequence(good) /\ ToSet(good) = {r \in Compatibles(file) : r.shape # "malformed"}
  <2>1. whole \in SUBSET DOMAIN mine
    OBVIOUS
  <2>2. {mine[i] : i \in whole} = {r \in ToSet(mine) : r.shape # "malformed"}
    BY DEF ToSet
  <2> HIDE DEF whole
  <2> QED BY <1>1, <2>1, <2>2, PickedAll
<1>3. made.rules = [i \in DOMAIN good |-> NewRule(good[i])]
  BY DEF CreateRules
<1>4. /\ \A r \in Compatibles(file) : r.shape = "malformed" => Err("SemgrepError", RULE_PARSE_FAILURE) \in made.errors
  BY <1>1 DEF CreateRules
<1> HIDE DEF good, made
<1>5. /\ IsSequence(made.rules)
      /\ ToSet(made.rules) = {NewRule(r) : r \in {q \in Compatibles(file) : q.shape # "malformed"}}
  <2>1. Len(good) \in Nat /\ DOMAIN good = 1..Len(good)
    BY <1>2 DEF IsSequence
  <2>2. made.rules = [i \in 1..Len(good) |-> made.rules[i]]
    BY <1>3, <2>1
  <2>3. IsSequence(made.rules)
    BY <2>1, <2>2, SequenceOf
  <2>4. ToSet(made.rules) = {NewRule(r) : r \in ToSet(good)}
    BY <1>3 DEF ToSet
  <2> QED BY <1>2, <2>3, <2>4
<1>6. IsSequence(<< >>) /\ ToSet(<< >>) = {}
  BY DEF IsSequence, ToSet
<1>7. /\ parsed.raised = NoError => parsed.rules = made.rules /\ made.errors \subseteq parsed.errors
      /\ parsed.raised # NoError => parsed.rules = << >>
  BY DEF ParseConfigString, mine, made
<1> HIDE DEF parsed
<1>8. CASE parsed.raised = NoError
  <2>1. \A q \in ToSet(parsed.rules) : \E r \in Compatibles(file) : q = NewRule(r)
    BY <1>5, <1>7, <1>8
  <2>2. ASSUME Real(parsed.errors) = {}, NEW r \in Compatibles(file) PROVE NewRule(r) \in ToSet(parsed.rules)
    <3>1. Err("SemgrepError", RULE_PARSE_FAILURE) \notin parsed.errors
      BY <2>2 DEF Real, Err
    <3>2. r.shape # "malformed"
      BY <1>4, <1>7, <1>8, <3>1
    <3> QED BY <1>5, <1>7, <1>8, <3>2
  <2> QED BY <1>5, <1>7, <1>8, <2>1, <2>2 DEF parsed
<1>9. CASE parsed.raised # NoError
  BY <1>6, <1>7, <1>9 DEF parsed
<1> QED BY <1>8, <1>9

(* What the scan makes of a rule differs from the rule as it is written in *)
(* its origin only.                                                        *)
LEMMA LoadedFields ==
  ASSUME NEW r, r = [x \in RuleFields |-> r[x]], NEW f
  PROVE  LET q == Loaded(r, f)
             w == RenameId(NewRule(r), f)
         IN  /\ DOMAIN q = RuleFields /\ DOMAIN w = RuleFields
             /\ \A x \in RuleFields : x # "origin" => q[x] = w[x]
             /\ WithoutMetadata(q) = WithoutMetadata(w)
             /\ q.body = r.body
<1> DEFINE n == NewRule(r)
           k == SecretsCheck(n, ConfigId(f))
           q == RenameId(k, f)
           w == RenameId(n, f)
<1>1. DOMAIN n = RuleFields /\ n.body = r.body
  BY DEF NewRule, RuleFields
<1> HIDE DEF n
<1>2. DOMAIN k = RuleFields /\ k.body = n.body /\ \A x \in RuleFields : x # "origin" => k[x] = n[x]
  BY <1>1 DEF SecretsCheck, RuleFields
<1> HIDE DEF k
<1>3. /\ DOMAIN q = RuleFields /\ DOMAIN w = RuleFields /\ q.body = k.body
      /\ \A x \in RuleFields : x # "origin" => q[x] = w[x]
  BY <1>1, <1>2 DEF RenameId, RuleFields
<1> HIDE DEF q, w
<1>4. WithoutMetadata(q) = WithoutMetadata(w)
  <2>1. /\ WithoutMetadata(q) = [x \in RuleFields |-> WithoutMetadata(q)[x]]
        /\ WithoutMetadata(w) = [x \in RuleFields |-> WithoutMetadata(w)[x]]
    BY <1>3 DEF WithoutMetadata
  <2>2. \A x \in RuleFields : WithoutMetadata(q)[x] = WithoutMetadata(w)[x]
    BY <1>3 DEF WithoutMetadata, RuleFields
  <2> QED BY <2>1, <2>2
<1> QED BY <1>1, <1>2, <1>3, <1>4 DEF Loaded, n, k, q, w

(* Two rules that are one without their metadata share all that decides    *)
(* whether one is left out.                                                *)
LEMMA SameWithoutMetadata ==
  ASSUME NEW q, NEW w, DOMAIN q = RuleFields, DOMAIN w = RuleFields,
         WithoutMetadata(q) = WithoutMetadata(w)
  PROVE  q.id = w.id /\ q.depends = w.depends /\ q.mode = w.mode
<1>1. ASSUME NEW v, DOMAIN v = RuleFields
      PROVE  LET u == WithoutMetadata(v) IN u.id = v.id /\ u.depends = v.depends /\ u.mode = v.mode
  BY <1>1 DEF WithoutMetadata, RuleFields
<1> QED BY <1>1

LEMMA WrittenRules ==
  ASSUME NEW w
  PROVE  w \in Written <=>
           \E c \in ToSet(scan.configs) : \E f \in ToSet(c.files) : \E r \in Compatibles(f) :
             w = RenameId(NewRule(r), f)
BY DEF Written, Compatibles

-----------------------------------------------------------------------------
(* The engine                                                              *)

(* The files of a rule, whatever the scan.                                 *)
Selects(disk, manager, r, p) ==
  /\ p \in GetAllFiles(disk, manager, Product(r), FALSE, manager.gitignore)
  /\ r.langs \cap (LanguagesOf[disk[p].ext] \cup LanguagesOf[disk[p].shebang]) # {}
  /\ manager.respectRulePaths =>
       /\ r.includes = {} \/ AnyMatches(p, r.includes)
       /\ ~AnyMatches(p, r.excludes)

(* plan_core_run has a task for every rule in every file that it selects.  *)
LEMMA Planned ==
  ASSUME NEW disk, NEW manager, NEW set, NEW r \in set, NEW p \in DOMAIN disk,
         Selects(disk, manager, r, p)
  PROVE  \E t \in PlanCoreRun(disk, manager, set) :
           t.path = p /\ t.lang \in r.langs /\ Product(r) \in t.products
<1>1. PICK lang \in r.langs : lang \in LanguagesOf[disk[p].ext] \cup LanguagesOf[disk[p].shebang]
  BY DEF Selects
<1>2. p \in GetFilesForLanguage(disk, manager, lang, Product(r))
  BY <1>1 DEF Selects, GetFilesForLanguage, FilterByLanguage
<1>3. p \in GetFilesForRule(disk, manager, lang, r)
  BY <1>2 DEF Selects, GetFilesForRule, FilterIncludes, FilterExcludes
<1> DEFINE Looks(q, path, l) == l \in q.langs /\ path \in GetFilesForRule(disk, manager, l, q)
           Task(path, l) ==
             [path |-> path, lang |-> l,
              products |-> {Product(q) : q \in {v \in set : Looks(v, path, l)}},
              rules |-> {q \in set : Looks(q, path, l)}]
           pairs == {u \in (DOMAIN disk) \X UNION {q.langs : q \in set} : \E q \in set : Looks(q, u[1], u[2])}
           t == Task(p, lang)
<1>4. Looks(r, p, lang)
  BY <1>3
<1> HIDE DEF Looks
<1>5. <<p, lang>> \in pairs
  BY <1>1, <1>4
<1>6. PlanCoreRun(disk, manager, set) = {Task(u[1], u[2]) : u \in pairs}
  BY DEF PlanCoreRun, Looks
<1>7. t.path = p /\ t.lang = lang /\ Product(r) \in t.products
  BY <1>4
<1> HIDE DEF pairs, Task
<1>8. t \in PlanCoreRun(disk, manager, set)
  BY <1>5, <1>6
<1> QED BY <1>1, <1>7, <1>8

-----------------------------------------------------------------------------
(* The invariant                                                           *)

LEMMA ScanFacts ==
  ASSUME NEW s \in Scans
  PROVE  /\ PipeSize \in Nat /\ s.config.jobs \in Nat /\ IsFiniteSet(DOMAIN s.disk)
         /\ Len(s.configs) \in Nat /\ DOMAIN s.configs = 1..Len(s.configs)
         /\ \A c \in ToSet(s.configs) :
              /\ c.kind \in Kinds
              /\ IsSequence(c.files) /\ \A f \in ToSet(c.files) : IsSequence(f.rules)
BY CoreAssumption, AsSequence DEF IsSequence, Kinds

LEMMA RuleFrom ==
  ASSUME scan \in Scans, NEW q, CameFrom(q)
  PROVE  /\ DOMAIN q = RuleFields /\ BytesOf[q.body] \in Nat
         /\ \E w \in Written : /\ DOMAIN w = RuleFields /\ WithoutMetadata(w) = WithoutMetadata(q)
                               /\ \A x \in RuleFields : x # "origin" => q[x] = w[x]
<1>1. PICK c \in ToSet(scan.configs) : \E f \in ToSet(c.files) : \E r \in Compatibles(f) : q = Loaded(r, f)
  BY DEF CameFrom
<1>2. PICK f \in ToSet(c.files) : \E r \in Compatibles(f) : q = Loaded(r, f)
  BY <1>1
<1>3. PICK r \in Compatibles(f) : q = Loaded(r, f)
  BY <1>2
<1>4. r = [x \in RuleFields |-> r[x]] /\ BytesOf[r.body] \in Nat
  BY CoreAssumption DEF Compatibles
<1> DEFINE w == RenameId(NewRule(r), f)
<1>5. w \in Written
  BY WrittenRules
<1> QED BY <1>3, <1>4, <1>5, LoadedFields

LEMMA RuleWritten ==
  ASSUME scan \in Scans, NEW w \in Written
  PROVE  /\ DOMAIN w = RuleFields
         /\ \E c \in ToSet(scan.configs) : \E f \in ToSet(c.files) : \E r \in Compatibles(f) :
              WithoutMetadata(Loaded(r, f)) = WithoutMetadata(w)
<1>1. PICK c \in ToSet(scan.configs) : \E f \in ToSet(c.files) : \E r \in Compatibles(f) : w = RenameId(NewRule(r), f)
  BY WrittenRules
<1>2. PICK f \in ToSet(c.files) : \E r \in Compatibles(f) : w = RenameId(NewRule(r), f)
  BY <1>1
<1>3. PICK r \in Compatibles(f) : w = RenameId(NewRule(r), f)
  BY <1>2
<1>4. r = [x \in RuleFields |-> r[x]]
  BY CoreAssumption DEF Compatibles
<1> QED BY <1>3, <1>4, LoadedFields

LEMMA AwareRules ==
  ASSUME IsSequence(rules)
  PROVE  /\ IsSequence(Aware) /\ ToSet(Aware) = {r \in ToSet(rules) : r.depends # {} /\ r.mode # "join"}
         /\ IsSequence(Ordinary) /\ ToSet(Ordinary) = {r \in ToSet(rules) : r.depends = {} /\ r.mode # "join"}
<1> DEFINE aware == {i \in DOMAIN rules : rules[i].depends # {} /\ rules[i].mode # "join"}
           ordinary == {i \in DOMAIN rules : rules[i].depends = {} /\ rules[i].mode # "join"}
<1>1. /\ aware \in SUBSET DOMAIN rules /\ ordinary \in SUBSET DOMAIN rules
      /\ {rules[i] : i \in aware} = {r \in ToSet(rules) : r.depends # {} /\ r.mode # "join"}
      /\ {rules[i] : i \in ordinary} = {r \in ToSet(rules) : r.depends = {} /\ r.mode # "join"}
  BY DEF ToSet
<1> HIDE DEF aware, ordinary
<1>2. /\ IsSequence(Picked(rules, aware)) /\ ToSet(Picked(rules, aware)) = {rules[i] : i \in aware}
      /\ IsSequence(Picked(rules, ordinary)) /\ ToSet(Picked(rules, ordinary)) = {rules[i] : i \in ordinary}
  BY <1>1, PickedAll
<1> QED BY <1>1, <1>2 DEF Aware, Ordinary, aware, ordinary

LEMMA CoreRulesAre ==
  ASSUME IsSequence(rules), IsSequence(deps.kept), ToSet(deps.kept) \subseteq ToSet(Aware)
  PROVE  /\ IsSequence(CoreRules) /\ ToSet(CoreRules) \subseteq ToSet(rules)
         /\ \A r \in ToSet(Ordinary) : r.id \notin {a.id : a \in ToSet(Aware)} => r \in ToSet(CoreRules)
<1> DEFINE ids == {r.id : r \in ToSet(Aware)}
           at == {i \in DOMAIN Ordinary : Ordinary[i].id \notin ids}
<1>1. /\ at \in SUBSET DOMAIN Ordinary
      /\ {Ordinary[i] : i \in at} = {r \in ToSet(Ordinary) : r.id \notin ids}
  BY DEF ToSet
<1>2. CoreRules = Picked(Ordinary, at) \o deps.kept
  BY DEF CoreRules
<1> HIDE DEF ids, at
<1>3. /\ IsSequence(Picked(Ordinary, at))
      /\ ToSet(Picked(Ordinary, at)) = {r \in ToSet(Ordinary) : r.id \notin ids}
  BY <1>1, AwareRules, PickedAll
<1>4. /\ IsSequence(CoreRules)
      /\ ToSet(CoreRules) = {r \in ToSet(Ordinary) : r.id \notin ids} \cup ToSet(deps.kept)
  BY <1>2, <1>3, Joined
<1> QED BY <1>4, AwareRules DEF ids

(* _shard_rules leaves none of the rules out.                              *)
LEMMA AllGiven ==
  ASSUME NEW sent, IsSequence(sent), \A r \in ToSet(sent) : BytesOf[r.body] \in Nat, NEW jobs \in Nat
  PROVE  LET sizes == [i \in DOMAIN sent |-> BytesOf[sent[i].body]]
             shards == ShardRules(sizes, ShardCount(Len(sent), jobs, TotalBytes(sizes)))
         IN  {sent[i] : i \in UNION ToSet(shards)} = ToSet(sent)
<1> DEFINE sizes == [i \in DOMAIN sent |-> BytesOf[sent[i].body]]
           n == ShardCount(Len(sent), jobs, TotalBytes(sizes))
<1>1. Len(sent) \in Nat /\ DOMAIN sent = 1..Len(sent)
  BY DEF IsSequence
<1>2. \A i \in DOMAIN sent : sizes[i] \in Nat
  BY DEF ToSet
<1>3. sizes \in [1..Len(sent) -> Nat] /\ DOMAIN sizes = DOMAIN sent
  BY <1>1, <1>2
<1> HIDE DEF sizes
<1>4. sizes \in Seq(Nat)
  BY <1>1, <1>3
<1>5. n \in Int
  BY <1>1, <1>4, TotalIsNat, ShardCountIsInt
<1> HIDE DEF n
<1>6. UNION ToSet(ShardRules(sizes, n)) = DOMAIN sent
  BY <1>3, <1>4, <1>5, AllSharded
<1>7. {sent[i] : i \in UNION ToSet(ShardRules(sizes, n))} = ToSet(sent)
  BY <1>6 DEF ToSet
<1> QED BY <1>7 DEF sizes, n

LEMMA LoadingStays ==
  ASSUME Loading, UNCHANGED <<scan, load>>
  PROVE  Loading'
BY DEF Loading, CameFrom

LEMMA RulesStay ==
  ASSUME HasRules, UNCHANGED <<scan, rules>>,
         phase' \in {"load", "parse", "failed", "dumped"} \/ phase \in Phases \ {"load", "parse", "failed", "dumped"}
  PROVE  HasRules'
<1>1. Written' = Written
  BY DEF Written
<1>2. \A q : CameFrom(q)' <=> CameFrom(q)
  BY DEF CameFrom
<1> QED BY <1>1, <1>2 DEF HasRules, Ended, Phases

LEMMA ProjectsStay ==
  ASSUME Projects, UNCHANGED <<scan, rules, deps>>, phase' \in Early => phase \in Early
  PROVE  Projects'
<1>1. Aware' = Aware
  BY DEF Aware
<1> QED BY <1>1 DEF Projects

LEMMA EngineStays ==
  ASSUME Engine, UNCHANGED <<scan, rules, deps, engine>>,
         phase' \in {"scan", "adjust", "done"} => phase \in {"scan", "adjust", "done"},
         phase' \in Early \cup {"resolve", "plan"} => phase \in Early \cup {"resolve", "plan"}
  PROVE  Engine'
<1>1. CoreRules' = CoreRules
  BY DEF CoreRules, Aware, Ordinary
<1> QED BY <1>1 DEF Engine, Looked

(* An error ends the scan in any phase.                                    *)
LEMMA Fails ==
  ASSUME IInv, NEW code, Fail(code), UNCHANGED <<scan, load, rules, deps, engine, pipe>>
  PROVE  IInv'
<1> USE DEF IInv, Fail
<1>1. (scan \in Scans /\ phase \in Phases)'
  BY DEF Phases
<1>2. Records'
  BY DEF Records
<1>3. Loading'
  BY LoadingStays
<1>4. Parsing'
  BY DEF Parsing
<1>5. HasRules'
  BY RulesStay
<1>6. Projects'
  BY ProjectsStay DEF Early
<1>7. Engine'
  BY EngineStays DEF Early
<1>8. Pipes'
  BY DEF Pipes
<1>9. Ends'
  BY DEF Ends, Shut, Ended
<1> QED BY <1>1, <1>2, <1>3, <1>4, <1>5, <1>6, <1>7, <1>8, <1>9

LEMMA Starts ==
  ASSUME Init
  PROVE  IInv
<1> USE DEF Init
<1>1. IsSequence(<< >>) /\ ToSet(<< >>) = {}
  BY DEF IsSequence, ToSet
<1>2. scan \in Scans /\ phase \in Phases /\ Records
  BY DEF Phases, Records
<1>3. Loading
  <2>1. Len(scan.configs) \in Nat
    BY ScanFacts
  <2> QED BY <1>1, <2>1 DEF Loading
<1>4. Parsing
  BY DEF Parsing
<1>5. HasRules
  BY <1>1 DEF HasRules, Ended
<1>6. Projects
  BY <1>1 DEF Projects, Early
<1>7. Engine
  BY DEF Engine, JsonParts, Early
<1>8. Pipes
  <2>1. PipeSize \in Nat /\ Len(<< >>) = 0
    BY ScanFacts
  <2> QED BY <1>1, <2>1 DEF Pipes
<1>9. Ends
  BY DEF Ends, Shut
<1> QED BY <1>2, <1>3, <1>4, <1>5, <1>6, <1>7, <1>8, <1>9 DEF IInv

-----------------------------------------------------------------------------
(* The steps: rules                                                        *)

(* A config that is wrong: whatever comes after it, the scan will fail.    *)
LEMMA ConfigWrong ==
  ASSUME IInv, load.i <= Len(scan.configs), NEW error, error.kind # "IncompatibleRule", NextConfig(error),
         UNCHANGED <<scan, rules, deps, engine, pipe>>, phase \in {"load", "parse"}
  PROVE  IInv'
<1> USE DEF IInv, NextConfig
<1>1. (scan \in Scans /\ phase \in Phases)'
  BY DEF Phases
<1>2. Records'
  BY DEF Records
<1>3. Loading'
  <2>1. load'.i = load.i + 1 /\ load'.rules = load.rules /\ load'.errors = load.errors \cup {error}
    BY DEF Records
  <2>2. error \in Real(load.errors \cup {error})
    BY DEF Real
  <2>3. Len(scan.configs) \in Nat /\ load.i + 1 \in 1..(Len(scan.configs) + 1)
    <3>1. Len(scan.configs) \in Nat
      BY ScanFacts
    <3>2. load.i \in 1..(Len(scan.configs) + 1)
      BY DEF Loading
    <3> QED BY <3>1, <3>2
  <2>4. \A q \in ToSet(load.rules) : CameFrom(q)'
    BY DEF Loading, CameFrom
  <2> QED BY <2>1, <2>2, <2>3, <2>4 DEF Loading
<1>4. Parsing'
  BY DEF Parsing
<1>5. HasRules'
  BY RulesStay
<1>6. Projects'
  BY ProjectsStay DEF Early
<1>7. Engine'
  BY EngineStays DEF Early
<1>8. Pipes'
  BY DEF Pipes
<1>9. Ends'
  BY DEF Ends, Ended
<1> QED BY <1>1, <1>2, <1>3, <1>4, <1>5, <1>6, <1>7, <1>8, <1>9

LEMMA ReadConfigKeeps ==
  ASSUME IInv, ReadConfig
  PROVE  IInv'
<1> USE DEF IInv
<1>1. PICK answer \in {"ok", "unauthorized", "retries", "status"}, fallback \in {"ok", "failed"} :
        LET c == scan.configs[load.i]
            got == LoadConfig(c, scan.env, answer, fallback)
        IN  \/ /\ got.error = NoError
               /\ phase' = "parse"
               /\ load' = [load EXCEPT !.open = DOMAIN got.files, !.parsed = << >>, !.wrong = {}]
               /\ UNCHANGED <<session, temp, result>>
            \/ got.error.kind = "SemgrepError" /\ NextConfig(got.error)
            \/ got.error.kind = "Exception" /\ Fail(FATAL) /\ UNCHANGED load
  BY DEF ReadConfig
<1> DEFINE c == scan.configs[load.i]
           got == LoadConfig(c, scan.env, answer, fallback)
<1>2. phase = "load" /\ load.i <= Len(scan.configs) /\ UNCHANGED <<scan, rules, deps, engine, pipe, reader>>
  BY DEF ReadConfig
<1>3. load.i \in DOMAIN scan.configs /\ c \in ToSet(scan.configs)
  <2>1. DOMAIN scan.configs = 1..Len(scan.configs) /\ Len(scan.configs) \in Nat
    BY ScanFacts
  <2>2. load.i \in DOMAIN scan.configs
    BY <1>2, <2>1 DEF Loading
  <2> QED BY <2>2 DEF ToSet
<1>4. CASE /\ got.error = NoError /\ phase' = "parse"
           /\ load' = [load EXCEPT !.open = DOMAIN got.files, !.parsed = << >>, !.wrong = {}]
           /\ UNCHANGED <<session, temp, result>>
  <2>1. got.files = c.files
    <3>1. c.kind \in Kinds
      BY <1>3, ScanFacts
    <3>2. LoadConfig(c, scan.env, answer, fallback).error = NoError
      BY <1>4
    <3> HIDE DEF c
    <3>3. LoadConfig(c, scan.env, answer, fallback).files = c.files
      <4>1. answer \in Answers
        BY DEF Answers
      <4> QED BY <3>1, <3>2, <4>1, ConfigLoaded
    <3> QED BY <3>3
  <2> HIDE DEF got
  <2>2. /\ load'.i = load.i /\ load'.rules = load.rules /\ load'.errors = load.errors
        /\ load'.open = DOMAIN c.files /\ load'.parsed = << >> /\ load'.wrong = {}
    BY <1>4, <2>1 DEF Records
  <2>3. (scan \in Scans /\ phase \in Phases)' /\ Records'
    BY <1>2, <1>4 DEF Phases, Records
  <2>4. Loading'
    BY <1>2, <2>2 DEF Loading, CameFrom
  <2>5. Parsing'
    <3>1. IsSequence(<< >>) /\ ToSet(<< >>) = {}
      BY DEF IsSequence, ToSet
    <3> QED BY <1>2, <1>3, <2>2, <3>1 DEF Parsing
  <2>6. HasRules'
    BY <1>2, <1>4, RulesStay
  <2>7. Projects'
    BY <1>2, <1>4, ProjectsStay DEF Early
  <2>8. Engine'
    BY <1>2, <1>4, EngineStays DEF Early
  <2>9. Pipes' /\ Ends'
    BY <1>2, <1>4 DEF Pipes, Ends, Ended
  <2> QED BY <2>3, <2>4, <2>5, <2>6, <2>7, <2>8, <2>9
<1>5. CASE got.error.kind = "SemgrepError" /\ NextConfig(got.error)
  BY <1>2, <1>5, ConfigWrong
<1>6. CASE got.error.kind = "Exception" /\ Fail(FATAL) /\ UNCHANGED load
  BY <1>2, <1>6, Fails
<1> QED BY <1>1, <1>4, <1>5, <1>6

LEMMA ParseFileKeeps ==
  ASSUME IInv, ParseFile
  PROVE  IInv'
<1> USE DEF IInv
<1>1. PICK j \in load.open, alive \in BOOLEAN :
        LET file == scan.configs[load.i].files[j]
            parsed == ParseConfigString(file, scan.mode, FALSE, alive)
        IN  \/ /\ parsed.raised = NoError
               /\ load' = [load EXCEPT !.open = @ \ {j},
                                       !.parsed = @ \o [k \in DOMAIN parsed.rules |->
                                                           [rule |-> parsed.rules[k], file |-> file]],
                                       !.wrong = @ \cup parsed.errors]
               /\ UNCHANGED <<phase, session, temp, result>>
            \/ parsed.raised.kind \in {"SemgrepError", "InvalidRuleSchemaError"} /\ NextConfig(parsed.raised)
            \/ parsed.raised.kind = "UnknownLanguageError" /\ Fail(INVALID_LANGUAGE) /\ UNCHANGED load
  BY DEF ParseFile
<1> DEFINE files == scan.configs[load.i].files
           file == files[j]
           parsed == ParseConfigString(file, scan.mode, FALSE, alive)
           new == [k \in DOMAIN parsed.rules |-> [rule |-> parsed.rules[k], file |-> file]]
<1>2. phase = "parse" /\ UNCHANGED <<scan, rules, deps, engine, pipe, reader>>
  BY DEF ParseFile
<1>3. /\ load.i \in DOMAIN scan.configs /\ load.i <= Len(scan.configs)
      /\ load.open \subseteq DOMAIN files /\ file \in ToSet(files)
      /\ IsSequence(load.parsed) /\ IsSequence(file.rules)
  <2>1. load.i \in DOMAIN scan.configs /\ load.open \subseteq DOMAIN files /\ IsSequence(load.parsed)
    BY <1>2 DEF Parsing
  <2>2. scan.configs[load.i] \in ToSet(scan.configs) /\ file \in ToSet(files)
    BY <2>1 DEF ToSet
  <2>3. DOMAIN scan.configs = 1..Len(scan.configs)
    BY ScanFacts
  <2>4. IsSequence(file.rules)
    BY <2>2, ScanFacts
  <2> QED BY <2>1, <2>2, <2>3, <2>4
<1>4. CASE /\ parsed.raised = NoError
           /\ load' = [load EXCEPT !.open = @ \ {j}, !.parsed = @ \o new, !.wrong = @ \cup parsed.errors]
           /\ UNCHANGED <<phase, session, temp, result>>
  <2>1. /\ IsSequence(parsed.rules)
        /\ \A q \in ToSet(parsed.rules) : \E r \in Compatibles(file) : q = NewRule(r)
        /\ Real(parsed.errors) = {} => \A r \in Compatibles(file) : NewRule(r) \in ToSet(parsed.rules)
    <3> HIDE DEF file
    <3>1. IsSequence(file.rules)
      BY <1>3
    <3>2. parsed.raised = NoError
      BY <1>4
    <3>3. /\ IsSequence(parsed.rules)
          /\ \A q \in ToSet(parsed.rules) : \E r \in Compatibles(file) : q = NewRule(r)
          /\ parsed.raised = NoError /\ Real(parsed.errors) = {} =>
               \A r \in Compatibles(file) : NewRule(r) \in ToSet(parsed.rules)
      BY <3>1, FileParsed
    <3> QED BY <3>2, <3>3
  <2> HIDE DEF parsed
  <2>2. IsSequence(new) /\ ToSet(new) = {[rule |-> q, file |-> file] : q \in ToSet(parsed.rules)}
    <3>1. Len(parsed.rules) \in Nat /\ DOMAIN parsed.rules = 1..Len(parsed.rules)
      BY <2>1 DEF IsSequence
    <3>2. new = [k \in 1..Len(parsed.rules) |-> new[k]]
      BY <3>1
    <3>3. ToSet(new) = {[rule |-> q, file |-> file] : q \in ToSet(parsed.rules)}
      BY DEF ToSet
    <3> HIDE DEF new
    <3> QED BY <3>1, <3>2, <3>3, SequenceOf
  <2> HIDE DEF new
  <2>3. /\ load'.i = load.i /\ load'.rules = load.rules /\ load'.errors = load.errors
        /\ load'.open = load.open \ {j} /\ load'.parsed = load.parsed \o new
        /\ load'.wrong = load.wrong \cup parsed.errors
    BY <1>4 DEF Records
  <2>4. (scan \in Scans /\ phase \in Phases)' /\ Records'
    BY <1>2, <1>4 DEF Phases, Records
  <2>5. Loading'
    BY <1>2, <2>3 DEF Loading, CameFrom
  <2>6. Parsing'
    <3>1. /\ IsSequence(load.parsed \o new)
          /\ ToSet(load.parsed \o new) = ToSet(load.parsed) \cup ToSet(new)
      BY <1>3, <2>2, Joined
    <3>2. \A p \in ToSet(load.parsed \o new) : \E f \in ToSet(files) : \E r \in Compatibles(f) :
            p = [rule |-> NewRule(r), file |-> f]
      <4>1. \A p \in ToSet(load.parsed) : \E f \in ToSet(files) : \E r \in Compatibles(f) :
              p = [rule |-> NewRule(r), file |-> f]
        BY <1>2 DEF Parsing
      <4>2. \A p \in ToSet(new) : \E r \in Compatibles(file) : p = [rule |-> NewRule(r), file |-> file]
        BY <2>1, <2>2
      <4> QED BY <1>3, <3>1, <4>1, <4>2
    <3>3. ASSUME Real(load.wrong \cup parsed.errors) = {}, NEW k \in (DOMAIN files) \ (load.open \ {j}),
                 NEW r \in Compatibles(files[k])
          PROVE  [rule |-> NewRule(r), file |-> files[k]] \in ToSet(load.parsed \o new)
      <4>1. Real(load.wrong) = {} /\ Real(parsed.errors) = {}
        BY <3>3 DEF Real
      <4>2. CASE k \notin load.open
        BY <1>2, <3>1, <3>3, <4>1, <4>2 DEF Parsing
      <4>3. CASE k \in load.open
        <5>1. k = j
          BY <3>3, <4>3
        <5> QED BY <2>1, <2>2, <3>1, <3>3, <4>1, <5>1
      <4> QED BY <4>2, <4>3
    <3>4. load.open \ {j} \subseteq DOMAIN files
      BY <1>3
    <3>5. scan'.configs[load'.i].files = files
      BY <1>2, <2>3
    <3> HIDE DEF files
    <3>6. load'.i \in DOMAIN scan'.configs /\ load'.open \subseteq DOMAIN files /\ IsSequence(load'.parsed)
      BY <1>2, <1>3, <2>3, <3>1, <3>4
    <3>7. \A p \in ToSet(load'.parsed) : \E f \in ToSet(files) : \E r \in Compatibles(f) :
            p = [rule |-> NewRule(r), file |-> f]
      BY <2>3, <3>2
    <3>8. Real(load'.wrong) = {} =>
            \A k \in (DOMAIN files) \ load'.open : \A r \in Compatibles(files[k]) :
              [rule |-> NewRule(r), file |-> files[k]] \in ToSet(load'.parsed)
      BY <2>3, <3>3
    <3> QED BY <3>5, <3>6, <3>7, <3>8 DEF Parsing
  <2>7. HasRules'
    BY <1>2, <1>4, RulesStay
  <2>8. Projects'
    BY <1>2, <1>4, ProjectsStay
  <2>9. Engine'
    BY <1>2, <1>4, EngineStays DEF Early
  <2>10. Pipes' /\ Ends'
    BY <1>2, <1>4 DEF Pipes, Ends, Ended
  <2> QED BY <2>4, <2>5, <2>6, <2>7, <2>8, <2>9, <2>10
<1>5. CASE parsed.raised.kind \in {"SemgrepError", "InvalidRuleSchemaError"} /\ NextConfig(parsed.raised)
  BY <1>2, <1>3, <1>5, ConfigWrong
<1>6. CASE parsed.raised.kind = "UnknownLanguageError" /\ Fail(INVALID_LANGUAGE) /\ UNCHANGED load
  BY <1>2, <1>6, Fails
<1> QED BY <1>1, <1>4, <1>5, <1>6

(* The rules of a config are all there when its last thread is done.       *)
LEMMA EndConfigKeeps ==
  ASSUME IInv, EndConfig
  PROVE  IInv'
<1> USE DEF IInv
<1> DEFINE files == scan.configs[load.i].files
           Kept(p) == RenameId(SecretsCheck(p.rule, ConfigId(p.file)), p.file)
           new == [k \in DOMAIN load.parsed |-> Kept(load.parsed[k])]
<1>1. /\ phase = "parse" /\ load.open = {} /\ phase' = "load"
      /\ UNCHANGED <<scan, rules, deps, session, engine, pipe, reader, temp, result>>
  BY DEF EndConfig
<1>2. /\ load'.i = load.i + 1 /\ load'.errors = load.errors \cup load.wrong
      /\ load'.rules = load.rules \o new
      /\ Records'
  BY <1>1 DEF EndConfig, Records
<1>3. /\ load.i \in DOMAIN scan.configs /\ IsSequence(load.parsed)
      /\ \A p \in ToSet(load.parsed) : \E f \in ToSet(files) : \E r \in Compatibles(f) :
           p = [rule |-> NewRule(r), file |-> f]
      /\ Real(load.wrong) = {} =>
           \A k \in DOMAIN files : \A r \in Compatibles(files[k]) :
             [rule |-> NewRule(r), file |-> files[k]] \in ToSet(load.parsed)
  BY <1>1 DEF Parsing
<1>4. IsSequence(new) /\ ToSet(new) = {Kept(p) : p \in ToSet(load.parsed)}
  <2>1. Len(load.parsed) \in Nat /\ DOMAIN load.parsed = 1..Len(load.parsed)
    BY <1>3 DEF IsSequence
  <2>2. ToSet(new) = {Kept(p) : p \in ToSet(load.parsed)}
    BY DEF ToSet
  <2>3. new = [k \in 1..Len(load.parsed) |-> new[k]]
    BY <2>1
  <2> HIDE DEF new
  <2> QED BY <2>1, <2>2, <2>3, SequenceOf
<1> HIDE DEF new
<1>5. Loading'
  <2>1. load'.i \in 1..(Len(scan'.configs) + 1)
    <3>1. Len(scan.configs) \in Nat /\ DOMAIN scan.configs = 1..Len(scan.configs)
      BY ScanFacts
    <3> QED BY <1>1, <1>2, <1>3, <3>1
  <2>2. IsSequence(load'.rules) /\ ToSet(load'.rules) = ToSet(load.rules) \cup ToSet(new)
    BY <1>2, <1>4, Joined DEF Loading
  <2>3. \A q \in ToSet(load.rules) : CameFrom(q)'
    BY <1>1 DEF Loading, CameFrom
  <2>4. \A q \in ToSet(new) : CameFrom(q)'
    <3> SUFFICES ASSUME NEW q \in ToSet(new) PROVE CameFrom(q)'
      OBVIOUS
    <3>1. PICK p \in ToSet(load.parsed) : q = Kept(p)
      BY <1>4
    <3>2. PICK f \in ToSet(files) : \E r \in Compatibles(f) : p = [rule |-> NewRule(r), file |-> f]
      BY <1>3
    <3>3. PICK r \in Compatibles(f) : p = [rule |-> NewRule(r), file |-> f]
      BY <3>2
    <3>4. q = Loaded(r, f)
      BY <3>1, <3>3 DEF Loaded
    <3>5. scan.configs[load.i] \in ToSet(scan.configs)
      BY <1>3 DEF ToSet
    <3> QED BY <1>1, <3>4, <3>5 DEF CameFrom
  <2>5. ASSUME Real(load.errors \cup load.wrong) = {}, NEW j \in 1..load.i,
               NEW f \in ToSet(scan.configs[j].files), NEW r \in Compatibles(f)
        PROVE  Loaded(r, f) \in ToSet(load'.rules)
    <3>1. Real(load.errors) = {} /\ Real(load.wrong) = {}
      BY <2>5 DEF Real
    <3>2. CASE j # load.i
      <4>1. load.i \in Nat
        BY DEF Loading
      <4>2. j \in 1..(load.i - 1)
        BY <3>2, <4>1
      <4>3. Loaded(r, f) \in ToSet(load.rules)
        BY <3>1, <4>2 DEF Loading
      <4> QED BY <2>2, <4>3
    <3>3. CASE j = load.i
      <4>1. PICK k \in DOMAIN files : f = files[k]
        BY <3>3 DEF ToSet
      <4>2. [rule |-> NewRule(r), file |-> f] \in ToSet(load.parsed)
        BY <1>3, <3>1, <4>1
      <4>3. Kept([rule |-> NewRule(r), file |-> f]) = Loaded(r, f)
        BY DEF Loaded
      <4> HIDE DEF Kept
      <4> QED BY <1>4, <2>2, <4>2, <4>3
    <3> QED BY <3>2, <3>3
  <2>6. load'.i - 1 = load.i
    BY <1>2 DEF Loading
  <2> QED BY <1>1, <1>2, <2>1, <2>2, <2>3, <2>4, <2>5, <2>6 DEF Loading
<1>6. (scan \in Scans /\ phase \in Phases)' /\ Parsing'
  BY <1>1 DEF Phases, Parsing
<1>7. HasRules'
  BY <1>1, RulesStay
<1>8. Projects'
  BY <1>1, ProjectsStay DEF Early
<1>9. Engine'
  BY <1>1, EngineStays DEF Early
<1>10. Pipes' /\ Ends'
  BY <1>1 DEF Pipes, Ends, Ended
<1> QED BY <1>2, <1>5, <1>6, <1>7, <1>8, <1>9, <1>10

LEMMA DumpPartitionsKeeps ==
  ASSUME IInv, DumpPartitions
  PROVE  IInv'
<1> USE DEF IInv
<1>1. phase = "load" /\ UNCHANGED <<scan, load, rules, deps, engine, pipe, reader>>
  BY DEF DumpPartitions
<1>2. CASE Fail(WithoutAnswer("dump_rule_partitions").code)
  BY <1>1, <1>2, Fails
<1>3. CASE phase' = "dumped" /\ result' = [result EXCEPT !.code = OK] /\ UNCHANGED <<session, temp>>
  <2>1. (scan \in Scans /\ phase \in Phases)' /\ Records' /\ Parsing'
    BY <1>1, <1>3 DEF Phases, Records, Parsing
  <2>2. Loading' /\ HasRules'
    BY <1>1, <1>3, LoadingStays, RulesStay
  <2>3. Projects'
    BY <1>1, <1>3, ProjectsStay DEF Early
  <2>4. Engine'
    BY <1>1, <1>3, EngineStays DEF Early
  <2>5. Pipes' /\ Ends'
    BY <1>1, <1>3 DEF Pipes, Ends, Ended
  <2> QED BY <2>1, <2>2, <2>3, <2>4, <2>5
<1> QED BY <1>2, <1>3 DEF DumpPartitions

(* Then nothing is wrong but versions, and no rule is lost.                *)
LEMMA GetRulesKeeps ==
  ASSUME IInv, GetRules
  PROVE  IInv'
<1> USE DEF IInv
<1> DEFINE real == {e \in load.errors : e.kind # "IncompatibleRule"}
<1>1. /\ phase = "load" /\ load.i > Len(scan.configs)
      /\ UNCHANGED <<scan, load, deps, engine, pipe, reader>>
  BY DEF GetRules
<1>2. CASE Fail(SanityCheck(real, load.valid).code) /\ UNCHANGED rules
  BY <1>1, <1>2, Fails
<1>3. CASE /\ SanityCheck(real, load.valid) = NoError
           /\ rules' = Deduplicate(load.rules)
           /\ phase' = "targets" /\ UNCHANGED <<session, temp, result>>
  <2>1. (scan \in Scans /\ phase \in Phases)' /\ Records' /\ Parsing'
    BY <1>1, <1>3 DEF Phases, Records, Parsing
  <2>2. Loading'
    BY <1>1, LoadingStays
  <2>3. HasRules'
    <3>1. Real(load.errors) = {}
      BY <1>3 DEF SanityCheck, NoError, Err, Real
    <3>2. /\ IsSequence(rules') /\ ToSet(rules') \subseteq ToSet(load.rules)
          /\ \A q \in ToSet(load.rules) : \E d \in ToSet(rules') : WithoutMetadata(d) = WithoutMetadata(q)
      BY <1>3, Deduplicated DEF Loading
    <3>3. \A q \in ToSet(load.rules) : CameFrom(q)'
      BY <1>1 DEF Loading, CameFrom
    <3>4. ASSUME NEW w \in Written PROVE \E q \in ToSet(rules') : WithoutMetadata(q) = WithoutMetadata(w)
      <4>1. PICK c \in ToSet(scan.configs) : \E f \in ToSet(c.files) : \E r \in Compatibles(f) :
              WithoutMetadata(Loaded(r, f)) = WithoutMetadata(w)
        BY RuleWritten
      <4>2. PICK f \in ToSet(c.files) : \E r \in Compatibles(f) :
              WithoutMetadata(Loaded(r, f)) = WithoutMetadata(w)
        BY <4>1
      <4>3. PICK r \in Compatibles(f) : WithoutMetadata(Loaded(r, f)) = WithoutMetadata(w)
        BY <4>2
      <4>4. PICK j \in DOMAIN scan.configs : c = scan.configs[j]
        BY DEF ToSet
      <4>5. j \in 1..(load.i - 1)
        <5>1. Len(scan.configs) \in Nat /\ DOMAIN scan.configs = 1..Len(scan.configs)
          BY ScanFacts
        <5>2. load.i \in 1..(Len(scan.configs) + 1)
          BY DEF Loading
        <5> QED BY <1>1, <4>4, <5>1, <5>2
      <4>6. Loaded(r, f) \in ToSet(load.rules)
        BY <3>1, <4>4, <4>5 DEF Loading
      <4> QED BY <3>2, <4>3, <4>6
    <3>5. Written' = Written
      BY <1>1 DEF Written
    <3> QED BY <3>2, <3>3, <3>4, <3>5 DEF HasRules
  <2>4. Projects'
    <3>1. deps.kept = << >> /\ deps.skipped = {}
      BY <1>1 DEF Projects, Early
    <3>2. ToSet(<< >>) = {}
      BY DEF ToSet
    <3> QED BY <1>1, <1>3, <3>1, <3>2 DEF Projects, Early
  <2>5. Engine'
    BY <1>1, <1>3 DEF Engine, Early
  <2>6. Pipes' /\ Ends'
    BY <1>1, <1>3 DEF Pipes, Ends, Ended
  <2> QED BY <2>1, <2>2, <2>3, <2>4, <2>5, <2>6
<1> QED BY <1>2, <1>3 DEF GetRules

LEMMA OpenTargetsKeeps ==
  ASSUME IInv, OpenTargets
  PROVE  IInv'
<1> USE DEF IInv
<1>1. phase = "targets" /\ UNCHANGED <<scan, load, rules, deps, engine, pipe, reader>>
  BY DEF OpenTargets
<1>2. CASE Fail(FATAL)
  BY <1>1, <1>2, Fails
<1>3. CASE phase' = "find" /\ session' = NewSession /\ UNCHANGED <<temp, result>>
  <2>1. (scan \in Scans /\ phase \in Phases)' /\ Records' /\ Parsing'
    BY <1>1, <1>3 DEF Phases, Records, Parsing
  <2>2. Loading'
    BY <1>1, LoadingStays
  <2>3. HasRules'
    BY <1>1, <1>3, RulesStay DEF Phases
  <2>4. Projects'
    BY <1>1, <1>3, ProjectsStay DEF Early
  <2>5. Engine'
    BY <1>1, <1>3, EngineStays DEF Early
  <2>6. Pipes' /\ Ends'
    BY <1>1, <1>3 DEF Pipes, Ends, Ended
  <2> QED BY <2>1, <2>2, <2>3, <2>4, <2>5, <2>6
<1> QED BY <1>2, <1>3 DEF OpenTargets

-----------------------------------------------------------------------------
(* The steps: subprojects                                                  *)

LEMMA TailOf ==
  ASSUME NEW s, IsSequence(s), s # << >>
  PROVE  /\ IsSequence(Tail(s)) /\ ToSet(Tail(s)) \subseteq ToSet(s)
         /\ Len(Tail(s)) = Len(s) - 1 /\ Len(s) \in Nat
<1>1. s \in Seq(ToSet(s)) /\ Len(s) \in Nat /\ Len(s) > 0
  BY DEF IsSequence
<1> DEFINE S == ToSet(s)
<1> HIDE DEF S
<1>2. s \in Seq(S)
  BY <1>1 DEF S
<1>3. Tail(s) \in Seq(S) /\ Len(Tail(s)) = Len(s) - 1
  BY <1>1, <1>2
<1>4. IsSequence(Tail(s)) /\ ToSet(Tail(s)) \subseteq S
  BY <1>3, AsSequence
<1> QED BY <1>1, <1>3, <1>4 DEF S

LEMMA Appended ==
  ASSUME NEW s, IsSequence(s), NEW e
  PROVE  IsSequence(Append(s, e)) /\ Len(Append(s, e)) = Len(s) + 1 /\ Len(s) \in Nat
<1> DEFINE S == ToSet(s) \cup {e}
<1>1. s \in Seq(S) /\ e \in S
  BY DEF IsSequence
<1> HIDE DEF S
<1>2. Append(s, e) \in Seq(S) /\ Len(Append(s, e)) = Len(s) + 1 /\ Len(s) \in Nat
  BY <1>1
<1> QED BY <1>2, AsSequence

(* What matters is told by its root and its ecosystem.                     *)
LEMMA RelevantClosed ==
  ASSUME NEW disk, NEW manager, NEW set, NEW subprojects,
         NEW s \in Relevant(disk, manager, set, subprojects), NEW t \in ToSet(subprojects),
         SameSubproject(s, t)
  PROVE  t \in Relevant(disk, manager, set, subprojects)
BY DEF Relevant, SameSubproject

LEMMA SbomsAttached ==
  ASSUME NEW s, AreSubprojects(s), NEW sboms
  PROVE  /\ IsSequence(AttachSboms(s, sboms))
         /\ \A t \in ToSet(AttachSboms(s, sboms)) : \E u \in ToSet(s) : SameSubproject(t, u)
<1> DEFINE new == AttachSboms(s, sboms)
<1>1. Len(s) \in Nat /\ DOMAIN s = 1..Len(s)
  BY DEF AreSubprojects, IsSequence
<1>2. DOMAIN new = DOMAIN s /\ new = [i \in 1..Len(s) |-> new[i]]
  BY <1>1 DEF AttachSboms
<1>3. \A i \in DOMAIN s : SameSubproject(new[i], s[i])
  <2> TAKE i \in DOMAIN s
  <2>1. s[i] = Subproject(s[i].root, s[i].ecosystem, s[i].source)
    BY DEF AreSubprojects, ToSet
  <2>2. \A source : LET u == [s[i] EXCEPT !.source = source] IN u.root = s[i].root /\ u.ecosystem = s[i].ecosystem
    BY <2>1 DEF Subproject
  <2>3. CASE s[i].root \in sboms
    <3>1. new[i] = [s[i] EXCEPT !.source = SbomSource(Append(s[i].root, "cdx.json"), @)]
      BY <2>3 DEF AttachSboms
    <3> QED BY <2>1, <3>1 DEF SameSubproject, Subproject
  <2>4. CASE s[i].root \notin sboms
    BY <2>4 DEF AttachSboms, SameSubproject
  <2> QED BY <2>3, <2>4
<1> HIDE DEF new
<1>4. IsSequence(new)
  BY <1>1, <1>2, SequenceOf
<1>5. \A t \in ToSet(new) : \E u \in ToSet(s) : SameSubproject(t, u)
  BY <1>2, <1>3 DEF ToSet
<1> QED BY <1>4, <1>5 DEF new

LEMMA FindProjectsKeeps ==
  ASSUME IInv, FindProjects
  PROVE  IInv'
<1> USE DEF IInv
<1> DEFINE found == FindSubprojects(scan.disk, scan.manager)
           relevant == IF scan.config.resolveAll THEN ToSet(found)
                       ELSE Relevant(scan.disk, scan.manager, ToSet(Aware), found)
           at == {i \in DOMAIN found : found[i] \in relevant}
           todo == AttachSboms(Picked(found, at), scan.sboms)
<1>1. phase = "find" /\ UNCHANGED <<scan, load, rules, engine, pipe, reader>>
  BY DEF FindProjects
<1>2. CASE phase' = "plan" /\ UNCHANGED <<deps, session, temp, result>>
  <2>1. (scan \in Scans /\ phase \in Phases)' /\ Records' /\ Parsing'
    BY <1>1, <1>2 DEF Phases, Records, Parsing
  <2>2. Loading' /\ HasRules'
    BY <1>1, <1>2, LoadingStays, RulesStay DEF Phases
  <2>3. Projects'
    BY <1>1, <1>2, ProjectsStay DEF Early
  <2>4. Engine'
    BY <1>1, <1>2, EngineStays DEF Early
  <2>5. Pipes' /\ Ends'
    BY <1>1, <1>2 DEF Pipes, Ends, Ended
  <2> QED BY <2>1, <2>2, <2>3, <2>4, <2>5
<1>3. CASE DiscoveryFails /\ UNCHANGED deps
  BY <1>1, <1>3, Fails DEF DiscoveryFails
<1>4. CASE /\ deps' = [deps EXCEPT !.found = found, !.skipped = ToSet(found) \ relevant, !.todo = todo]
           /\ phase' = "resolve" /\ UNCHANGED <<session, temp, result>>
  <2> HIDE DEF found, relevant, todo
  <2>1. (scan \in Scans /\ phase \in Phases)' /\ Records' /\ Parsing'
    BY <1>1, <1>4 DEF Phases, Records, Parsing
  <2>2. Loading' /\ HasRules'
    BY <1>1, <1>4, LoadingStays, RulesStay DEF Phases
  <2>3. Projects'
    <3>1. AreSubprojects(found)
      BY ScanFacts, SubprojectsFound DEF found
    <3>2. /\ IsSequence(Picked(found, at))
          /\ ToSet(Picked(found, at)) = {s \in ToSet(found) : s \in relevant}
      <4>1. at \in SUBSET DOMAIN found
        OBVIOUS
      <4>2. {found[i] : i \in at} = {s \in ToSet(found) : s \in relevant}
        BY DEF ToSet
      <4> HIDE DEF at
      <4> QED BY <3>1, <4>1, <4>2, PickedAll DEF AreSubprojects
    <3>3. AreSubprojects(Picked(found, at))
      BY <3>1, <3>2 DEF AreSubprojects
    <3> HIDE DEF at
    <3>4. /\ IsSequence(todo)
          /\ \A s \in ToSet(todo) : \E t \in ToSet(found) : t \in relevant /\ SameSubproject(s, t)
      BY <3>2, <3>3, SbomsAttached DEF todo
    <3>5. ASSUME NEW s \in ToSet(todo), NEW t \in ToSet(found) \ relevant, SameSubproject(s, t)
          PROVE  FALSE
      <4>1. PICK u \in ToSet(found) : u \in relevant /\ SameSubproject(s, u)
        BY <3>4
      <4>2. SameSubproject(u, t)
        BY <3>5, <4>1 DEF SameSubproject
      <4>3. ~scan.config.resolveAll
        BY DEF relevant
      <4> QED BY <4>1, <4>2, <4>3, RelevantClosed DEF relevant
    <3>6. /\ deps'.todo = todo /\ deps'.skipped = ToSet(found) \ relevant /\ deps'.found = found
          /\ deps'.kept = deps.kept /\ deps.kept = << >>
      BY <1>1, <1>4 DEF Records, Projects, Early
    <3>7. Aware' = Aware
      BY <1>1 DEF Aware
    <3>8. IsSequence(<< >>) /\ ToSet(<< >>) = {}
      BY DEF IsSequence, ToSet
    <3>9. \/ ToSet(found) \ relevant = {}
          \/ /\ ~scan.config.resolveAll
             /\ ToSet(found) \ relevant
                  = ToSet(found) \ Relevant(scan.disk, scan.manager, ToSet(Aware), found)
      BY DEF relevant
    <3> QED BY <1>1, <1>4, <3>4, <3>5, <3>6, <3>7, <3>8, <3>9 DEF Projects, Early
  <2>4. Engine'
    BY <1>1, <1>4 DEF Engine, Early
  <2>5. Pipes' /\ Ends'
    BY <1>1, <1>4 DEF Pipes, Ends, Ended
  <2> QED BY <2>1, <2>2, <2>3, <2>4, <2>5
<1> QED BY <1>2, <1>3, <1>4 DEF FindProjects

(* One more is resolved, whatever the session answers.                     *)
LEMMA ResolveNextKeeps ==
  ASSUME IInv, ResolveNext
  PROVE  IInv'
<1> USE DEF IInv
<1>1. /\ phase = "resolve" /\ deps.todo # << >>
      /\ UNCHANGED <<scan, phase, load, rules, engine, pipe, reader, temp, result>>
  BY DEF ResolveNext
<1>2. \/ \E new : deps' = [deps EXCEPT !.todo = Tail(@), !.resolved = Append(@, new)]
      \/ \E new : deps' = [deps EXCEPT !.todo = Tail(@), !.unresolved = @ \cup {new}]
  BY DEF ResolveNext
<1>3. /\ Records' /\ deps'.todo = Tail(deps.todo) /\ deps'.found = deps.found
      /\ deps'.skipped = deps.skipped /\ deps'.kept = deps.kept
  BY <1>1, <1>2 DEF Records
<1>4. (scan \in Scans /\ phase \in Phases)' /\ Parsing'
  BY <1>1 DEF Parsing
<1>5. Loading' /\ HasRules'
  BY <1>1, LoadingStays, RulesStay
<1>6. Projects'
  <2>1. Aware' = Aware
    BY <1>1 DEF Aware
  <2>2. IsSequence(Tail(deps.todo)) /\ ToSet(Tail(deps.todo)) \subseteq ToSet(deps.todo)
    BY <1>1, TailOf DEF Projects
  <2> QED BY <1>1, <1>3, <2>1, <2>2 DEF Projects
<1>7. Engine' /\ Pipes' /\ Ends'
  BY <1>1 DEF Engine, Pipes, Ends, Ended
<1> QED BY <1>3, <1>4, <1>5, <1>6, <1>7

LEMMA FilterRulesKeeps ==
  ASSUME IInv, FilterRules
  PROVE  IInv'
<1> USE DEF IInv
<1>1. phase = "resolve" /\ UNCHANGED <<scan, load, rules, engine, pipe, reader>>
  BY DEF FilterRules
<1>2. CASE Fail(FATAL) /\ UNCHANGED deps
  BY <1>1, <1>2, Fails
<1>3. CASE /\ deps' = [deps EXCEPT !.kept = FilterDependencyAware(Aware, deps.resolved)]
           /\ phase' = "plan" /\ UNCHANGED <<session, temp, result>>
  <2>1. (scan \in Scans /\ phase \in Phases)' /\ Records' /\ Parsing'
    BY <1>1, <1>3 DEF Phases, Records, Parsing
  <2>2. Loading' /\ HasRules'
    BY <1>1, <1>3, LoadingStays, RulesStay DEF Phases
  <2>3. Projects'
    <3> DEFINE at == {i \in DOMAIN Aware : ShouldRunOnCore(Aware[i]) /\ Tells(Aware[i], deps.resolved) # {}}
    <3>1. at \in SUBSET DOMAIN Aware /\ {Aware[i] : i \in at} \subseteq ToSet(Aware)
      BY DEF ToSet
    <3>2. FilterDependencyAware(Aware, deps.resolved) = Picked(Aware, at)
      BY DEF FilterDependencyAware
    <3> HIDE DEF at
    <3>3. IsSequence(Picked(Aware, at)) /\ ToSet(Picked(Aware, at)) \subseteq ToSet(Aware)
      BY <3>1, PickedAll, AwareRules DEF HasRules
    <3>4. Aware' = Aware
      BY <1>1 DEF Aware
    <3>5. /\ deps'.kept = Picked(Aware, at) /\ deps'.todo = deps.todo
          /\ deps'.skipped = deps.skipped /\ deps'.found = deps.found
      BY <1>3, <3>2 DEF Records
    <3> QED BY <1>1, <1>3, <3>3, <3>4, <3>5 DEF Projects, Early
  <2>4. Engine'
    BY <1>1, <1>3 DEF Engine, Early
  <2>5. Pipes' /\ Ends'
    BY <1>1, <1>3 DEF Pipes, Ends, Ended
  <2> QED BY <2>1, <2>2, <2>3, <2>4, <2>5
<1> QED BY <1>2, <1>3 DEF FilterRules

-----------------------------------------------------------------------------
(* The steps: semgrep-core                                                 *)

LEMMA StartCoreKeeps ==
  ASSUME IInv, StartCore
  PROVE  IInv'
<1> USE DEF IInv
<1> DEFINE sent == CoreRules
           sizes == [i \in DOMAIN sent |-> BytesOf[sent[i].body]]
           shards == ShardRules(sizes, ShardCount(Len(sent), scan.config.jobs, TotalBytes(sizes)))
           tasks == PlanCoreRun(scan.disk, scan.manager, ToSet(sent))
           given == {sent[i] : i \in UNION ToSet(shards)}
           refusal == Refusal(scan.config, scan.manager.roots)
<1>1. phase = "plan" /\ UNCHANGED <<scan, load, rules, deps, pipe>>
  BY DEF StartCore
<1>2. CASE Fail(refusal.code) /\ UNCHANGED <<engine, reader>>
  BY <1>1, <1>2, Fails
<1>3. CASE DiscoveryFails /\ UNCHANGED <<engine, reader>>
  BY <1>1, <1>3, Fails DEF DiscoveryFails
<1>4. CASE /\ phase' = "dumped" /\ session' = Shut(session)
           /\ result' = [result EXCEPT !.code = OK]
           /\ UNCHANGED <<engine, reader, temp>>
  <2>1. (scan \in Scans /\ phase \in Phases)' /\ Records' /\ Parsing'
    BY <1>1, <1>4 DEF Phases, Records, Parsing
  <2>2. Loading' /\ HasRules'
    BY <1>1, <1>4, LoadingStays, RulesStay
  <2>3. Projects'
    BY <1>1, <1>4, ProjectsStay DEF Early
  <2>4. Engine'
    BY <1>1, <1>4, EngineStays DEF Early
  <2>5. Pipes' /\ Ends'
    BY <1>1, <1>4 DEF Pipes, Ends, Ended, Shut
  <2> QED BY <2>1, <2>2, <2>3, <2>4, <2>5
<1>5. CASE /\ engine' = [engine EXCEPT !.status = "running", !.tasks = tasks,
                            !.todo = {t.path : t \in tasks},
                            !.loaded = given \ Unparsable(given),
                            !.errors = {<<r, NoPath>> : r \in Unparsable(given)}]
           /\ phase' = "scan" /\ UNCHANGED <<session, result>>
  <2>1. given = ToSet(sent)
    <3>1. IsSequence(sent) /\ ToSet(sent) \subseteq ToSet(rules)
      BY CoreRulesAre DEF HasRules, Projects
    <3>2. \A r \in ToSet(sent) : BytesOf[r.body] \in Nat
      BY <3>1, RuleFrom DEF HasRules
    <3>3. scan.config.jobs \in Nat
      BY ScanFacts
    <3> HIDE DEF sent
    <3> QED BY <3>1, <3>2, <3>3, AllGiven
  <2> HIDE DEF given, tasks
  <2>2. (scan \in Scans /\ phase \in Phases)' /\ Records' /\ Parsing'
    BY <1>1, <1>5 DEF Phases, Records, Parsing
  <2>3. Loading' /\ HasRules'
    BY <1>1, <1>5, LoadingStays, RulesStay DEF Phases
  <2>4. Projects'
    BY <1>1, <1>5, ProjectsStay DEF Early
  <2>5. Engine'
    <3>1. CoreRules' = CoreRules
      BY <1>1 DEF CoreRules, Aware, Ordinary
    <3>2. /\ engine'.status = "running" /\ engine'.tasks = tasks /\ engine'.said = 0
          /\ engine'.todo = {t.path : t \in tasks}
          /\ engine'.loaded = ToSet(CoreRules) \ Unparsable(ToSet(CoreRules))
          /\ engine'.errors = {<<r, NoPath>> : r \in Unparsable(ToSet(CoreRules))}
      BY <1>1, <1>5, <2>1 DEF Records, Engine, Early
    <3>3. Looked'
      BY <3>2 DEF Looked
    <3>4. tasks = PlanCoreRun(scan.disk, scan.manager, ToSet(CoreRules))
      BY DEF tasks
    <3>5. /\ engine'.tasks = PlanCoreRun(scan'.disk, scan'.manager, ToSet(CoreRules'))
          /\ engine'.loaded = ToSet(CoreRules') \ Unparsable(ToSet(CoreRules'))
          /\ \A r \in Unparsable(ToSet(CoreRules')) : <<r, NoPath>> \in engine'.errors
      BY <1>1, <3>1, <3>2, <3>4
    <3>6. engine'.said \in 0..JsonParts /\ ~(engine'.said > 0)
      BY <3>2 DEF JsonParts
    <3> QED BY <1>5, <3>2, <3>3, <3>5, <3>6 DEF Engine, Early
  <2>6. Pipes' /\ Ends'
    BY <1>1, <1>5 DEF Pipes, Ends, Ended
  <2> QED BY <2>2, <2>3, <2>4, <2>5, <2>6
<1> QED BY <1>1, <1>2, <1>3, <1>4, <1>5 DEF StartCore

(* In a running scan only the engine and the pipes change: what they must  *)
(* still satisfy.                                                          *)
LEMMA ScanGoesOn ==
  ASSUME IInv, phase = "scan", UNCHANGED <<scan, phase, load, rules, deps, session, temp, result>>,
         Records', Pipes',
         engine'.tasks = engine.tasks, engine'.loaded = engine.loaded,
         engine'.status \in {"running", "exited", "killed"}, engine'.said \in 0..JsonParts,
         engine'.said > 0 => engine'.todo = {}, engine'.status = "exited" => engine'.said = JsonParts,
         engine.errors \subseteq engine'.errors, Looked'
  PROVE  IInv'
<1> USE DEF IInv
<1>1. (scan \in Scans /\ phase \in Phases)' /\ Parsing'
  BY DEF Parsing
<1>2. Loading' /\ HasRules'
  BY LoadingStays, RulesStay
<1>3. Projects'
  BY ProjectsStay
<1>4. Engine'
  <2>1. CoreRules' = CoreRules
    BY DEF CoreRules, Aware, Ordinary
  <2>2. /\ engine.tasks = PlanCoreRun(scan.disk, scan.manager, ToSet(CoreRules))
        /\ engine.loaded = ToSet(CoreRules) \ Unparsable(ToSet(CoreRules))
        /\ \A r \in Unparsable(ToSet(CoreRules)) : <<r, NoPath>> \in engine.errors
    BY DEF Engine
  <2>3. \A r \in Unparsable(ToSet(CoreRules)) : <<r, NoPath>> \in engine'.errors
    BY <2>2
  <2> QED BY <2>1, <2>2, <2>3 DEF Engine, Early
<1>5. Ends'
  BY DEF Ends, Ended
<1> QED BY <1>1, <1>2, <1>3, <1>4, <1>5

LEMMA TokenWritten ==
  ASSUME IInv, NEW token, Writes(token)
  PROVE  Pipes' /\ pipe' = [out |-> pipe'.out, err |-> pipe'.err]
<1> USE DEF IInv
<1>1. /\ Len(pipe.out) < PipeSize /\ pipe'.out = Append(pipe.out, token) /\ pipe'.err = pipe.err
      /\ pipe' = [out |-> pipe'.out, err |-> pipe'.err]
  BY DEF Writes, Records
<1>2. IsSequence(Append(pipe.out, token)) /\ Len(Append(pipe.out, token)) = Len(pipe.out) + 1 /\ Len(pipe.out) \in Nat
  BY Appended DEF Pipes
<1>3. PipeSize \in Nat
  BY ScanFacts
<1>4. Len(pipe.out) + 1 <= PipeSize
  BY <1>1, <1>2, <1>3
<1> QED BY <1>1, <1>2, <1>4 DEF Pipes

LEMMA ScanFileKeeps ==
  ASSUME IInv, ScanFile
  PROVE  IInv'
<1> USE DEF IInv
<1>1. PICK path \in engine.todo : \E slow \in {{}, engine.loaded} :
        LET seen == EngineScan(scan.disk, engine.tasks, engine.loaded, path, slow, scan.manager.respectRulePaths)
        IN  engine' = [engine EXCEPT !.todo = @ \ {path}, !.found = @ \cup seen.found,
                                     !.errors = @ \cup seen.errors]
  BY DEF ScanFile
<1>2. PICK slow \in {{}, engine.loaded} :
        LET seen == EngineScan(scan.disk, engine.tasks, engine.loaded, path, slow, scan.manager.respectRulePaths)
        IN  engine' = [engine EXCEPT !.todo = @ \ {path}, !.found = @ \cup seen.found,
                                     !.errors = @ \cup seen.errors]
  BY <1>1
<1> DEFINE seen == EngineScan(scan.disk, engine.tasks, engine.loaded, path, slow, scan.manager.respectRulePaths)
           ofTask(t) == EngineRules(scan.disk, t, engine.loaded, scan.manager.respectRulePaths)
           run == UNION {ofTask(t) : t \in {u \in engine.tasks : u.path = path}}
<1>3. /\ phase = "scan" /\ engine.status = "running" /\ Writes(Dot)
      /\ UNCHANGED <<scan, phase, load, rules, deps, session, reader, temp, result>>
  BY DEF ScanFile, Running
<1>4. /\ seen.found = {<<r, path>> : r \in {q \in run \ slow : q.body \in scan.disk[path].holds}}
      /\ seen.errors = {<<r, path>> : r \in run \cap slow}
  BY DEF EngineScan
<1> HIDE DEF seen
<1>5. /\ engine'.status = engine.status /\ engine'.loaded = engine.loaded /\ engine'.tasks = engine.tasks
      /\ engine'.said = engine.said /\ engine'.todo = engine.todo \ {path}
      /\ engine'.found = engine.found \cup seen.found /\ engine'.errors = engine.errors \cup seen.errors
      /\ engine' = [status |-> engine'.status, loaded |-> engine'.loaded, tasks |-> engine'.tasks,
                    todo |-> engine'.todo, said |-> engine'.said, extra |-> engine'.extra,
                    warned |-> engine'.warned, found |-> engine'.found, errors |-> engine'.errors]
  BY <1>2 DEF Records, seen
<1>6. ASSUME NEW t \in engine.tasks, t.path \notin engine.todo \ {path}, NEW r \in ofTask(t),
             r.body \in scan.disk[t.path].holds
      PROVE  <<r, t.path>> \in engine'.found \cup engine'.errors
  <2> HIDE DEF ofTask, run
  <2>1. CASE t.path = path
    <3>1. r \in run
      BY <1>6, <2>1 DEF run
    <3> QED BY <1>4, <1>5, <1>6, <2>1, <3>1
  <2>2. CASE t.path # path
    <3>1. <<r, t.path>> \in engine.found \cup engine.errors
      BY <1>3, <1>6, <2>2 DEF Engine, Looked, ofTask
    <3> QED BY <1>5, <3>1
  <2> QED BY <2>1, <2>2
<1>7. Looked'
  BY <1>3, <1>5, <1>6 DEF Looked
<1>8. Pipes' /\ pipe' = [out |-> pipe'.out, err |-> pipe'.err]
  BY <1>3, TokenWritten
<1>9. Records'
  BY <1>3, <1>5, <1>8 DEF Records
<1>10. /\ engine'.said \in 0..JsonParts
       /\ engine'.said > 0 => engine'.todo = {}
       /\ engine.errors \subseteq engine'.errors
  BY <1>5 DEF Engine
<1> QED BY <1>3, <1>5, <1>7, <1>8, <1>9, <1>10, ScanGoesOn

(* The engine says or does something else, or ends.                        *)
LEMMA EngineGoesOn ==
  ASSUME IInv, phase = "scan", UNCHANGED <<scan, phase, load, rules, deps, session, temp, result>>,
         Pipes', pipe' = [out |-> pipe'.out, err |-> pipe'.err],
         NEW status \in {"running", "exited", "killed"}, NEW said \in 0..JsonParts, NEW extra, NEW warned,
         engine' = [engine EXCEPT !.status = status, !.said = said, !.extra = extra, !.warned = warned],
         said > 0 => engine.todo = {}, status = "exited" => said = JsonParts
  PROVE  IInv'
<1> USE DEF IInv
<1>1. /\ engine'.status = status /\ engine'.loaded = engine.loaded /\ engine'.tasks = engine.tasks
      /\ engine'.said = said /\ engine'.todo = engine.todo /\ engine'.found = engine.found
      /\ engine'.errors = engine.errors
      /\ Records'
  BY DEF Records
<1>2. Looked'
  BY <1>1 DEF Engine, Looked
<1> QED BY <1>1, <1>2, ScanGoesOn

LEMMA ExtractTargetsKeeps ==
  ASSUME IInv, ExtractTargets
  PROVE  IInv'
<1> USE DEF IInv
<1>1. /\ phase = "scan" /\ engine.status = "running" /\ Writes(Extra(1))
      /\ UNCHANGED <<scan, phase, load, rules, deps, session, reader, temp, result>>
  BY DEF ExtractTargets, Running
<1>2. engine' = [engine EXCEPT !.status = "running", !.said = engine.said, !.extra = engine.extra + 1,
                               !.warned = engine.warned]
  BY <1>1 DEF ExtractTargets, Records
<1>3. Pipes' /\ pipe' = [out |-> pipe'.out, err |-> pipe'.err]
  BY <1>1, TokenWritten
<1>4. engine.said \in 0..JsonParts /\ (engine.said > 0 => engine.todo = {})
  BY DEF Engine
<1> QED BY <1>1, <1>2, <1>3, <1>4, EngineGoesOn

LEMMA WriteJsonKeeps ==
  ASSUME IInv, WriteJson
  PROVE  IInv'
<1> USE DEF IInv
<1>1. /\ phase = "scan" /\ engine.status = "running" /\ engine.todo = {} /\ engine.said < JsonParts
      /\ Writes(Json(engine.said + 1))
      /\ UNCHANGED <<scan, phase, load, rules, deps, session, reader, temp, result>>
  BY DEF WriteJson, Running
<1>2. engine' = [engine EXCEPT !.status = "running", !.said = engine.said + 1, !.extra = engine.extra,
                               !.warned = engine.warned]
  BY <1>1 DEF WriteJson, Records
<1>3. Pipes' /\ pipe' = [out |-> pipe'.out, err |-> pipe'.err]
  BY <1>1, TokenWritten
<1>4. engine.said + 1 \in 0..JsonParts
  BY <1>1 DEF Engine, JsonParts
<1> QED BY <1>1, <1>2, <1>3, <1>4, EngineGoesOn

LEMMA LogLineKeeps ==
  ASSUME IInv, LogLine
  PROVE  IInv'
<1> USE DEF IInv
<1>1. /\ phase = "scan" /\ engine.status = "running"
      /\ UNCHANGED <<scan, phase, load, rules, deps, session, reader, temp, result>>
  BY DEF LogLine, Running
<1>2. engine' = [engine EXCEPT !.status = "running", !.said = engine.said, !.extra = engine.extra,
                               !.warned = engine.warned + 1]
  BY <1>1 DEF LogLine, Records
<1>3. Pipes' /\ pipe' = [out |-> pipe'.out, err |-> pipe'.err]
  <2>1. CASE UNCHANGED pipe
    BY <2>1 DEF Pipes, Records
  <2>2. CASE Len(pipe.err) < PipeSize /\ pipe' = [pipe EXCEPT !.err = Append(@, engine.warned)]
    <3>1. /\ pipe'.err = Append(pipe.err, engine.warned) /\ pipe'.out = pipe.out
          /\ pipe' = [out |-> pipe'.out, err |-> pipe'.err]
      BY <2>2 DEF Records
    <3>2. /\ IsSequence(Append(pipe.err, engine.warned))
          /\ Len(Append(pipe.err, engine.warned)) = Len(pipe.err) + 1 /\ Len(pipe.err) \in Nat
      BY Appended DEF Pipes
    <3>3. PipeSize \in Nat
      BY ScanFacts
    <3>4. Len(pipe.err) + 1 <= PipeSize
      BY <2>2, <3>2, <3>3
    <3> QED BY <3>1, <3>2, <3>4 DEF Pipes
  <2> QED BY <2>1, <2>2 DEF LogLine
<1>4. engine.said \in 0..JsonParts /\ (engine.said > 0 => engine.todo = {})
  BY DEF Engine
<1> QED BY <1>1, <1>2, <1>3, <1>4, EngineGoesOn

LEMMA EngineEndsKeeps ==
  ASSUME IInv, ExitEngine \/ KillEngine
  PROVE  IInv'
<1> USE DEF IInv
<1>1. /\ phase = "scan"
      /\ UNCHANGED <<scan, phase, load, rules, deps, session, pipe, reader, temp, result>>
  BY DEF ExitEngine, KillEngine, Running
<1>2. Pipes' /\ pipe' = [out |-> pipe'.out, err |-> pipe'.err]
  BY <1>1 DEF Pipes, Records
<1>3. engine.said \in 0..JsonParts /\ (engine.said > 0 => engine.todo = {})
  BY DEF Engine
<1>4. CASE engine.said = JsonParts /\ engine' = [engine EXCEPT !.status = "exited"]
  <2>1. engine' = [engine EXCEPT !.status = "exited", !.said = engine.said, !.extra = engine.extra,
                                 !.warned = engine.warned]
    BY <1>4 DEF Records
  <2>2. engine.said = JsonParts /\ "exited" \in {"running", "exited", "killed"}
    BY <1>4
  <2> QED BY <1>1, <1>2, <1>3, <2>1, <2>2, EngineGoesOn
<1>5. CASE engine' = [engine EXCEPT !.status = "killed"]
  <2>1. engine' = [engine EXCEPT !.status = "killed", !.said = engine.said, !.extra = engine.extra,
                                 !.warned = engine.warned]
    BY <1>5 DEF Records
  <2> QED BY <1>1, <1>2, <1>3, <2>1, EngineGoesOn
<1> QED BY <1>4, <1>5 DEF ExitEngine, KillEngine

LEMMA ReadKeeps ==
  ASSUME IInv, Read \/ ReadLog
  PROVE  IInv'
<1> USE DEF IInv
<1>1. phase = "scan" /\ UNCHANGED <<scan, phase, load, rules, deps, session, engine, temp, result>>
  BY DEF Read, ReadLog
<1>2. PipeSize \in Nat
  BY ScanFacts
<1>3. Pipes' /\ pipe' = [out |-> pipe'.out, err |-> pipe'.err]
  <2>1. CASE pipe.out # << >> /\ pipe' = [pipe EXCEPT !.out = Tail(@)]
    <3>1. /\ IsSequence(Tail(pipe.out)) /\ Len(Tail(pipe.out)) = Len(pipe.out) - 1 /\ Len(pipe.out) \in Nat
      BY <2>1, TailOf DEF Pipes
    <3>2. /\ pipe'.out = Tail(pipe.out) /\ pipe'.err = pipe.err
          /\ pipe' = [out |-> pipe'.out, err |-> pipe'.err]
      BY <2>1 DEF Records
    <3>3. Len(pipe.out) - 1 <= PipeSize
      BY <1>2, <3>1 DEF Pipes
    <3> QED BY <3>1, <3>2, <3>3 DEF Pipes
  <2>2. CASE pipe.err # << >> /\ pipe' = [pipe EXCEPT !.err = Tail(@)]
    <3>1. /\ IsSequence(Tail(pipe.err)) /\ Len(Tail(pipe.err)) = Len(pipe.err) - 1 /\ Len(pipe.err) \in Nat
      BY <2>2, TailOf DEF Pipes
    <3>2. /\ pipe'.err = Tail(pipe.err) /\ pipe'.out = pipe.out
          /\ pipe' = [out |-> pipe'.out, err |-> pipe'.err]
      BY <2>2 DEF Records
    <3>3. Len(pipe.err) - 1 <= PipeSize
      BY <1>2, <3>1 DEF Pipes
    <3> QED BY <3>1, <3>2, <3>3 DEF Pipes
  <2> QED BY <2>1, <2>2 DEF Read, ReadLog
<1>4. /\ engine.tasks = engine'.tasks /\ engine.loaded = engine'.loaded /\ Records'
      /\ Looked'
  BY <1>1, <1>3 DEF Records, Engine, Looked
<1>5. Loading' /\ HasRules'
  BY <1>1, LoadingStays, RulesStay
<1>6. Projects' /\ Engine'
  BY <1>1, ProjectsStay, EngineStays
<1>7. Ends' /\ Parsing'
  BY <1>1 DEF Ends, Ended, Parsing
<1> QED BY <1>1, <1>3, <1>4, <1>5, <1>6, <1>7

(* Only an engine that has said all is believed, and then no file is left. *)
LEMMA EndRunKeeps ==
  ASSUME IInv, EndRun
  PROVE  IInv'
<1> USE DEF IInv
<1> DEFINE end == ReadEnd(reader)
           extracted == Extracted(end, IF engine.status = "exited" THEN 0 ELSE -9)
           verdict == IF extracted = NoError /\ scan.config.outdated THEN Misread(scan.config.engine)
                      ELSE extracted
<1>1. phase = "scan" /\ UNCHANGED <<scan, load, rules, deps, engine, pipe>>
  BY DEF EndRun
<1>2. CASE verdict # NoError /\ Fail(verdict.code)
  BY <1>1, <1>2, Fails
<1>3. CASE /\ verdict = NoError
           /\ result' = [result EXCEPT !.found = engine.found, !.errors = engine.errors, !.todo = Aware]
           /\ phase' = "adjust" /\ temp' = 0 /\ UNCHANGED session
  <2>1. engine.todo = {}
    <3>1. Misread(scan.config.engine) # NoError
      BY DEF Misread, NoError, Err
    <3>2. extracted = NoError
      BY <1>3, <3>1
    <3>3. Raised(FATAL) # NoError
      BY DEF Raised, NoError, Err, FATAL, OK
    <3>4. engine.status = "exited"
      BY <3>2, <3>3 DEF Extracted
    <3> QED BY <3>4 DEF Engine, JsonParts
  <2>2. (scan \in Scans /\ phase \in Phases)' /\ Parsing'
    BY <1>1, <1>3 DEF Phases, Parsing
  <2>3. Records' /\ result'.found = engine.found /\ result'.errors = engine.errors
    BY <1>1, <1>3 DEF Records
  <2>4. Loading' /\ HasRules'
    BY <1>1, <1>3, LoadingStays, RulesStay DEF Phases
  <2>5. Projects'
    BY <1>1, <1>3, ProjectsStay DEF Early
  <2>6. Engine'
    BY <1>1, <1>3, EngineStays DEF Early
  <2>7. Pipes' /\ Ends'
    BY <1>1, <1>3, <2>1, <2>3 DEF Pipes, Ends, Ended
  <2> QED BY <2>2, <2>3, <2>4, <2>5, <2>6, <2>7
<1> QED BY <1>2, <1>3 DEF EndRun

-----------------------------------------------------------------------------
(* The steps: findings                                                     *)

LEMMA AdjustRuleKeeps ==
  ASSUME IInv, AdjustRule
  PROVE  IInv'
<1> USE DEF IInv
<1>1. phase = "adjust" /\ UNCHANGED <<scan, load, rules, deps, engine, pipe, reader>>
  BY DEF AdjustRule
<1>2. CASE Fail(FATAL)
  BY <1>1, <1>2, Fails
<1>3. CASE /\ \E found : result' = [result EXCEPT !.todo = Tail(@), !.sca = @ \cup found]
           /\ UNCHANGED <<phase, temp>>
  <2>1. Records' /\ result'.found = result.found /\ result'.errors = result.errors
    BY <1>1, <1>3 DEF Records
  <2>2. (scan \in Scans /\ phase \in Phases)' /\ Parsing'
    BY <1>1, <1>3 DEF Parsing
  <2>3. Loading' /\ HasRules'
    BY <1>1, <1>3, LoadingStays, RulesStay
  <2>4. Projects' /\ Engine'
    BY <1>1, <1>3, ProjectsStay, EngineStays
  <2>5. Pipes' /\ Ends'
    BY <1>1, <1>3, <2>1 DEF Pipes, Ends, Ended
  <2> QED BY <2>1, <2>2, <2>3, <2>4, <2>5
<1> QED BY <1>2, <1>3 DEF AdjustRule

LEMMA FinishKeeps ==
  ASSUME IInv, Finish
  PROVE  IInv'
<1> USE DEF IInv
<1> DEFINE raised == SkippedValidation(result.errors, scan.mode)
<1>1. phase = "adjust" /\ UNCHANGED <<scan, load, rules, deps, engine, pipe, reader>>
  BY DEF Finish
<1>2. CASE raised # NoError /\ Fail(raised.code)
  BY <1>1, <1>2, Fails
<1>3. CASE /\ raised = NoError
           /\ \E lockfiles, symbols : result' = [result EXCEPT !.code = OK, !.lockfiles = lockfiles,
                                                               !.symbols = symbols]
           /\ phase' = "done" /\ session' = Shut(session) /\ UNCHANGED temp
  <2>1. Records' /\ result'.found = result.found /\ result'.errors = result.errors
    BY <1>1, <1>3 DEF Records
  <2>2. (scan \in Scans /\ phase \in Phases)' /\ Parsing'
    BY <1>1, <1>3 DEF Phases, Parsing
  <2>3. Loading' /\ HasRules'
    BY <1>1, <1>3, LoadingStays, RulesStay DEF Phases
  <2>4. Projects'
    BY <1>1, <1>3, ProjectsStay DEF Early
  <2>5. Engine'
    BY <1>1, <1>3, EngineStays DEF Early
  <2>6. Pipes' /\ Ends'
    BY <1>1, <1>3, <2>1 DEF Pipes, Ends, Ended, Shut
  <2> QED BY <2>1, <2>2, <2>3, <2>4, <2>5, <2>6
<1> QED BY <1>2, <1>3 DEF Finish

LEMMA NothingChanges ==
  ASSUME IInv, UNCHANGED vars
  PROVE  IInv'
<1> USE DEF IInv
<1>1. UNCHANGED <<scan, phase, load, rules, deps, session, engine, pipe, reader, temp, result>>
  BY DEF vars
<1>2. (scan \in Scans /\ phase \in Phases)' /\ Records' /\ Parsing' /\ Pipes' /\ Ends'
  BY <1>1 DEF Records, Parsing, Pipes, Ends
<1>3. Loading' /\ HasRules'
  BY <1>1, LoadingStays, RulesStay
<1>4. Projects' /\ Engine'
  BY <1>1, ProjectsStay, EngineStays
<1> QED BY <1>2, <1>3, <1>4

(* The invariant of a scan: what is loaded, found and looked for so far.   *)
THEOREM ScanInvariant == Spec => []IInv
<1>1. Init => IInv
  BY Starts
<1>2. IInv /\ [Next]_vars => IInv'
  <2> SUFFICES ASSUME IInv, [Next]_vars PROVE IInv'
    OBVIOUS
  <2>1. CASE ReadConfig \/ ParseFile \/ EndConfig \/ DumpPartitions \/ GetRules \/ OpenTargets
    BY <2>1, ReadConfigKeeps, ParseFileKeeps, EndConfigKeeps, DumpPartitionsKeeps, GetRulesKeeps,
       OpenTargetsKeeps
  <2>2. CASE FindProjects \/ ResolveNext \/ FilterRules
    BY <2>2, FindProjectsKeeps, ResolveNextKeeps, FilterRulesKeeps
  <2>3. CASE StartCore \/ ScanFile \/ ExtractTargets \/ LogLine \/ WriteJson
    BY <2>3, StartCoreKeeps, ScanFileKeeps, ExtractTargetsKeeps, LogLineKeeps, WriteJsonKeeps
  <2>4. CASE ExitEngine \/ KillEngine \/ Read \/ ReadLog \/ EndRun
    BY <2>4, EngineEndsKeeps, ReadKeeps, EndRunKeeps
  <2>5. CASE AdjustRule \/ Finish
    BY <2>5, AdjustRuleKeeps, FinishKeeps
  <2>6. CASE Terminated \/ UNCHANGED vars
    BY <2>6, NothingChanges DEF Terminated
  <2> QED BY <2>1, <2>2, <2>3, <2>4, <2>5, <2>6 DEF Next
<1> QED BY <1>1, <1>2, PTL DEF Spec

(* Types; the temporary files are gone and the session is closed when the  *)
(* scan ends, however it ends; the pipes never hold more than they can.    *)
THEOREM CoreTypeCorrect == Spec => []TypeOK
<1>1. ASSUME IInv PROVE TypeOK
  <2> USE <1>1 DEF IInv
  <2>1. ToSet(deps.todo) \cap deps.skipped = {}
    BY DEF Projects, SameSubproject
  <2>2. temp > 0 => phase = "scan"
    BY DEF Ends
  <2> QED BY <2>1, <2>2 DEF TypeOK, Loading, Pipes, Engine, Ends
<1> QED BY <1>1, ScanInvariant, PTL

-----------------------------------------------------------------------------
(* Supply chain                                                            *)

(* What a rule about dependencies wants to see is among the files that     *)
(* filter_changed_subprojects looks at.                                    *)
LEMMA WantedIsCode ==
  ASSUME NEW r \in ToSet(Aware), NEW p, Wants(r, p), NEW e \in Ecosystems(r)
  PROVE  <<p, e>> \in CodeFiles(scan.disk, scan.manager, ToSet(Aware))
<1>1. Product(r) = "sca"
  BY DEF Product, Ecosystems
<1>2. /\ p \in GetAllFiles(scan.disk, scan.manager, "sca", FALSE, scan.manager.gitignore)
      /\ r.langs \cap (LanguagesOf[scan.disk[p].ext] \cup LanguagesOf[scan.disk[p].shebang]) # {}
  BY <1>1 DEF Wants
<1>3. PICK lang \in r.langs : lang \in LanguagesOf[scan.disk[p].ext] \cup LanguagesOf[scan.disk[p].shebang]
  BY <1>2
<1>4. p \in GetFilesForLanguage(scan.disk, scan.manager, lang, "sca")
  BY <1>2, <1>3 DEF GetFilesForLanguage, FilterByLanguage
<1> DEFINE langs == UNION {q.langs : q \in ToSet(Aware)}
           named == UNION {Ecosystems(q) : q \in {v \in ToSet(Aware) : lang \in v.langs}}
<1>5. lang \in langs /\ e \in named
  BY <1>3
<1>6. <<p, e>> \in GetFilesForLanguage(scan.disk, scan.manager, lang, "sca") \X named
  BY <1>4, <1>5
<1> QED BY <1>5, <1>6 DEF CodeFiles

(* If code that a rule about dependencies looks for is in a file of the    *)
(* scan, the subproject closest to that file was not skipped as irrelevant *)
(* (filter_changed_subprojects agrees with                                 *)
(* generate_reachable_sca_findings), in any tree of files.                 *)
THEOREM ProjectsAreSeen == Spec => []CodeSeesItsProject
<1>1. ASSUME IInv PROVE CodeSeesItsProject
  <2> USE <1>1 DEF IInv
  <2> SUFFICES ASSUME NEW r \in ToSet(Aware), NEW p, Wants(r, p), NEW e \in Ecosystems(r),
                      NEW s \in ToSet(Closest(p, e, deps.found)), s \in deps.skipped
               PROVE  FALSE
    BY DEF CodeSeesItsProject
  <2>1. deps.skipped = ToSet(deps.found) \ Relevant(scan.disk, scan.manager, ToSet(Aware), deps.found)
    BY DEF Projects
  <2>2. <<p, e>> \in CodeFiles(scan.disk, scan.manager, ToSet(Aware))
    BY WantedIsCode
  <2> DEFINE closest == UNION {ToSet(Closest(f[1], f[2], deps.found)) :
                                 f \in CodeFiles(scan.disk, scan.manager, ToSet(Aware))}
  <2>3. s \in closest
    BY <2>2
  <2>4. s \in ToSet(deps.found) /\ SameSubproject(s, s)
    BY <2>1 DEF SameSubproject
  <2>5. s \in Relevant(scan.disk, scan.manager, ToSet(Aware), deps.found)
    <3> HIDE DEF closest
    <3> QED BY <2>3, <2>4 DEF Relevant, closest
  <2> QED BY <2>1, <2>5
<1> QED BY <1>1, ScanInvariant, PTL

-----------------------------------------------------------------------------
(* Completeness                                                            *)

(* A rule as the scan has it wants the files of the one it is written as.  *)
LEMMA SameFiles ==
  ASSUME NEW q, NEW w, \A x \in RuleFields : x # "origin" => q[x] = w[x]
  PROVE  /\ Product(q) = Product(w) /\ q.langs = w.langs /\ q.includes = w.includes
         /\ q.excludes = w.excludes /\ q.body = w.body
<1>1. \A x \in {"depends", "product", "langs", "includes", "excludes", "body"} : x \in RuleFields /\ x # "origin"
  BY DEF RuleFields
<1>2. \A x \in {"depends", "product", "langs", "includes", "excludes", "body"} : q[x] = w[x]
  BY <1>1
<1> QED BY <1>2 DEF Product

(* What a rule that the engine has parsed wants is in its run.             *)
LEMMA WantedIsRun ==
  ASSUME NEW set, NEW q \in set, NEW loaded, q \in loaded, NEW p \in DOMAIN scan.disk, Wants(q, p)
  PROVE  \E t \in PlanCoreRun(scan.disk, scan.manager, set) :
           t.path = p /\ q \in EngineRules(scan.disk, t, loaded, scan.manager.respectRulePaths)
<1>1. PICK t \in PlanCoreRun(scan.disk, scan.manager, set) :
        t.path = p /\ t.lang \in q.langs /\ Product(q) \in t.products
  <2>1. Selects(scan.disk, scan.manager, q, p)
    BY DEF Wants, Selects
  <2> QED BY <2>1, Planned
<1>2. scan.manager.respectRulePaths =>
        /\ q.includes # {} => AnyMatches(t.path, q.includes)
        /\ ~AnyMatches(t.path, q.excludes)
  BY <1>1 DEF Wants
<1> QED BY <1>1, <1>2 DEF EngineRules

LEMMA TellsAll ==
  ASSUME IInv, phase = "done", NEW q \in ToSet(CoreRules)
  PROVE  \/ <<q, NoPath>> \in result.errors /\ scan.mode # "NONE"
         \/ \A p \in DOMAIN scan.disk : Wants(q, p) /\ q.body \in scan.disk[p].holds =>
              <<q, p>> \in result.found \cup result.errors
<1> USE DEF IInv
<1>1. /\ engine.tasks = PlanCoreRun(scan.disk, scan.manager, ToSet(CoreRules))
      /\ engine.loaded = ToSet(CoreRules) \ Unparsable(ToSet(CoreRules))
      /\ \A r \in Unparsable(ToSet(CoreRules)) : <<r, NoPath>> \in engine.errors
      /\ Looked
  BY DEF Engine
<1>2. /\ engine.todo = {} /\ result.found = engine.found /\ result.errors = engine.errors
      /\ SkippedValidation(result.errors, scan.mode) = NoError
  BY DEF Ends
<1>3. CASE q \in Unparsable(ToSet(CoreRules))
  <2>1. <<q, NoPath>> \in result.errors
    BY <1>1, <1>2, <1>3
  <2>2. \E e \in result.errors : e[2] = NoPath
    BY <2>1
  <2>3. Err("SemgrepError", MISSING_CONFIG) # NoError
    BY DEF Err, NoError
  <2> QED BY <1>2, <2>1, <2>2, <2>3 DEF SkippedValidation
<1>4. CASE q \notin Unparsable(ToSet(CoreRules))
  <2> SUFFICES ASSUME NEW p \in DOMAIN scan.disk, Wants(q, p), q.body \in scan.disk[p].holds
               PROVE  <<q, p>> \in result.found \cup result.errors
    OBVIOUS
  <2>1. q \in engine.loaded
    BY <1>1, <1>4
  <2>2. \E t \in PlanCoreRun(scan.disk, scan.manager, ToSet(CoreRules)) :
          t.path = p /\ q \in EngineRules(scan.disk, t, engine.loaded, scan.manager.respectRulePaths)
    <3> DEFINE set == ToSet(CoreRules)
               loaded == engine.loaded
    <3>1. q \in set /\ q \in loaded
      BY <2>1
    <3> HIDE DEF set, loaded
    <3>2. \E t \in PlanCoreRun(scan.disk, scan.manager, set) :
            t.path = p /\ q \in EngineRules(scan.disk, t, loaded, scan.manager.respectRulePaths)
      BY <3>1, WantedIsRun
    <3> QED BY <3>2 DEF set, loaded
  <2>3. PICK t \in engine.tasks :
          t.path = p /\ q \in EngineRules(scan.disk, t, engine.loaded, scan.manager.respectRulePaths)
    BY <1>1, <2>2
  <2> QED BY <1>1, <1>2, <2>3 DEF Looked
<1> QED BY <1>3, <1>4

(* A scan that ends well has looked for every rule, of every config file,  *)
(* in every file that the rule selects: what occurs there was found or is  *)
(* reported, whatever thread, process or pipe fails, and however many      *)
(* configs, rules, shards and files there are (parse_config_files,         *)
(* _shard_rules, plan_core_run, _extract_core_output).                     *)
THEOREM ScansAreComplete == Spec => []CompleteOrFailed
<1>1. ASSUME IInv PROVE CompleteOrFailed
  <2> USE <1>1 DEF IInv
  <2> DEFINE told == {<<WithoutMetadata(m[1]), m[2]>> : m \in result.found \cup result.errors}
             awareIds == {r.id : r \in ToSet(Aware)}
             Told(r, p) == \/ <<WithoutMetadata(r), p>> \in told
                           \/ <<WithoutMetadata(r), NoPath>> \in told /\ scan.mode # "NONE"
  <2>1. ASSUME phase = "done", NEW r \in Written, r.depends = {}, r.mode # "join", r.id \notin awareIds
        PROVE  \E w \in Written :
                 /\ WithoutMetadata(w) = WithoutMetadata(r)
                 /\ \A p \in DOMAIN scan.disk : Wants(w, p) /\ w.body \in scan.disk[p].holds => Told(w, p)
    <3>1. PICK q \in ToSet(rules) : WithoutMetadata(q) = WithoutMetadata(r)
      BY <2>1 DEF HasRules
    <3>2. CameFrom(q) /\ DOMAIN q = RuleFields /\ DOMAIN r = RuleFields
      BY RuleFrom, RuleWritten DEF HasRules
    <3>3. q.id = r.id /\ q.depends = r.depends /\ q.mode = r.mode
      BY <3>1, <3>2, SameWithoutMetadata
    <3>4. q \in ToSet(CoreRules)
      <4>1. q \in ToSet(Ordinary)
        BY <2>1, <3>3, AwareRules DEF HasRules
      <4>2. q.id \notin {a.id : a \in ToSet(Aware)}
        BY <2>1, <3>3
      <4>3. IsSequence(rules) /\ IsSequence(deps.kept) /\ ToSet(deps.kept) \subseteq ToSet(Aware)
        BY DEF HasRules, Projects
      <4> QED BY <4>1, <4>2, <4>3, CoreRulesAre
    <3>5. PICK w \in Written : /\ WithoutMetadata(w) = WithoutMetadata(q)
                               /\ \A x \in RuleFields : x # "origin" => q[x] = w[x]
      BY <3>2, RuleFrom
    <3>6. /\ Product(q) = Product(w) /\ q.langs = w.langs /\ q.includes = w.includes
          /\ q.excludes = w.excludes /\ q.body = w.body
      BY <3>5, SameFiles
    <3>7. \A p : Wants(w, p) => Wants(q, p)
      BY <3>6 DEF Wants
    <3>8. ASSUME NEW p, <<q, p>> \in result.found \cup result.errors
          PROVE  <<WithoutMetadata(w), p>> \in told
      <4>1. <<WithoutMetadata(q), p>> \in told
        BY <3>8
      <4> QED BY <3>5, <4>1
    <3> HIDE DEF told
    <3>9. ASSUME NEW p \in DOMAIN scan.disk, Wants(w, p), w.body \in scan.disk[p].holds
          PROVE  Told(w, p)
      <4>1. \/ <<q, NoPath>> \in result.errors /\ scan.mode # "NONE"
            \/ <<q, p>> \in result.found \cup result.errors
        BY <2>1, <3>4, <3>6, <3>7, <3>9, TellsAll
      <4> QED BY <3>8, <4>1
    <3> QED BY <3>1, <3>5, <3>9
  <2> QED BY <2>1 DEF CompleteOrFailed
<1> QED BY <1>1, ScanInvariant, PTL

-----------------------------------------------------------------------------
(* Versions                                                                *)

(* Lexically, for an order given as a set of pairs.                        *)
Lex(before, a, b) ==
  \E i \in 1..Len(b) :
    /\ i - 1 <= Len(a) /\ \A j \in 1..(i - 1) : a[j] = b[j]
    /\ i > Len(a) \/ <<a[i], b[i]>> \in before

LEMMA LexIrreflexive ==
  ASSUME NEW S, NEW before, IsOrder(S, before), NEW a \in Seq(S)
  PROVE  ~Lex(before, a, a)
<1> SUFFICES ASSUME NEW i \in 1..Len(a), i > Len(a) \/ <<a[i], a[i]>> \in before
             PROVE  FALSE
  BY DEF Lex
<1>1. a[i] \in S /\ ~(i > Len(a))
  OBVIOUS
<1> QED BY <1>1 DEF IsOrder

LEMMA LexTotal ==
  ASSUME NEW S, NEW before, IsOrder(S, before), NEW a \in Seq(S), NEW b \in Seq(S), a # b
  PROVE  Lex(before, a, b) \/ Lex(before, b, a)
<1> DEFINE T == {j \in 1..Len(a) : j <= Len(b) /\ a[j] # b[j]}
<1>1. /\ Len(a) \in Nat /\ Len(b) \in Nat /\ DOMAIN a = 1..Len(a) /\ DOMAIN b = 1..Len(b)
      /\ \A j \in 1..Len(a) : a[j] \in S
      /\ \A j \in 1..Len(b) : b[j] \in S
  OBVIOUS
<1>2. CASE T # {}
  <2>1. T \in SUBSET Nat
    BY <1>1
  <2>2. PICK i \in T : \A j \in T : i <= j
    <3> HIDE DEF T
    <3> QED BY <1>2, <2>1, LeastOf
  <2>3. i \in 1..Len(a) /\ i \in 1..Len(b) /\ i - 1 <= Len(a) /\ i - 1 <= Len(b)
    BY <1>1
  <2>4. \A j \in 1..(i - 1) : j \in 1..Len(a) /\ j <= Len(b) /\ ~(i <= j)
    BY <1>1, <2>3
  <2>5. \A j \in 1..(i - 1) : a[j] = b[j]
    BY <2>2, <2>4
  <2>6. <<a[i], b[i]>> \in before \/ <<b[i], a[i]>> \in before
    BY <1>1, <2>2, <2>3 DEF IsOrder
  <2> QED BY <2>3, <2>5, <2>6 DEF Lex
<1>3. CASE T = {}
  <2>1. \A j \in 1..Len(a) : j <= Len(b) => a[j] = b[j]
    BY <1>3
  <2>2. Len(a) # Len(b)
    <3> SUFFICES ASSUME Len(a) = Len(b) PROVE FALSE
      OBVIOUS
    <3>1. \A j \in 1..Len(a) : a[j] = b[j]
      BY <1>1, <2>1
    <3> QED BY <1>1, <3>1
  <2>3. CASE Len(a) < Len(b)
    <3>1. Len(a) + 1 \in 1..Len(b) /\ (Len(a) + 1) - 1 <= Len(a) /\ Len(a) + 1 > Len(a)
      BY <1>1, <2>3
    <3>2. \A j \in 1..((Len(a) + 1) - 1) : a[j] = b[j]
      BY <1>1, <2>1, <2>3
    <3> QED BY <3>1, <3>2 DEF Lex
  <2>4. CASE Len(b) < Len(a)
    <3>1. Len(b) + 1 \in 1..Len(a) /\ (Len(b) + 1) - 1 <= Len(b) /\ Len(b) + 1 > Len(b)
      BY <1>1, <2>4
    <3>2. \A j \in 1..((Len(b) + 1) - 1) : b[j] = a[j]
      BY <1>1, <2>1, <2>4
    <3> QED BY <3>1, <3>2 DEF Lex
  <2> HIDE DEF T
  <2>5. \A m, n \in Nat : m # n => m < n \/ n < m
    OBVIOUS
  <2>6. Len(a) < Len(b) \/ Len(b) < Len(a)
    BY <1>1, <2>2, <2>5
  <2> QED BY <2>3, <2>4, <2>6
<1> QED BY <1>2, <1>3

LEMMA LexTransitive ==
  ASSUME NEW S, NEW before, IsOrder(S, before), NEW a \in Seq(S), NEW b \in Seq(S), NEW c \in Seq(S),
         Lex(before, a, b), Lex(before, b, c)
  PROVE  Lex(before, a, c)
<1>1. /\ Len(a) \in Nat /\ Len(b) \in Nat /\ Len(c) \in Nat
      /\ \A j \in 1..Len(a) : a[j] \in S
      /\ \A j \in 1..Len(b) : b[j] \in S
      /\ \A j \in 1..Len(c) : c[j] \in S
  OBVIOUS
<1>2. PICK i \in 1..Len(b) : /\ i - 1 <= Len(a) /\ \A j \in 1..(i - 1) : a[j] = b[j]
                             /\ i > Len(a) \/ <<a[i], b[i]>> \in before
  BY DEF Lex
<1>3. PICK k \in 1..Len(c) : /\ k - 1 <= Len(b) /\ \A j \in 1..(k - 1) : b[j] = c[j]
                             /\ k > Len(b) \/ <<b[k], c[k]>> \in before
  BY DEF Lex
<1>4. CASE i < k
  <2>1. i \in 1..Len(c) /\ i \in 1..(k - 1)
    BY <1>1, <1>4
  <2>2. \A j \in 1..(i - 1) : j \in 1..(k - 1)
    BY <1>1, <1>4
  <2>3. \A j \in 1..(i - 1) : a[j] = c[j]
    BY <1>2, <1>3, <2>2
  <2>4. b[i] = c[i]
    BY <1>3, <2>1
  <2> QED BY <1>2, <2>1, <2>3, <2>4 DEF Lex
<1>5. CASE k < i
  <2>1. k \in 1..(i - 1) /\ k - 1 <= Len(a) /\ ~(k > Len(b))
    BY <1>1, <1>2, <1>5
  <2>2. \A j \in 1..(k - 1) : j \in 1..(i - 1)
    BY <1>1, <1>5
  <2>3. \A j \in 1..(k - 1) : a[j] = c[j]
    BY <1>2, <1>3, <2>2
  <2>4. a[k] = b[k] /\ <<b[k], c[k]>> \in before
    BY <1>2, <1>3, <2>1
  <2> QED BY <2>1, <2>3, <2>4 DEF Lex
<1>6. CASE i = k
  <2>1. \A j \in 1..(i - 1) : a[j] = c[j]
    BY <1>2, <1>3, <1>6
  <2>2. i \in 1..Len(c) /\ ~(i > Len(b)) /\ <<b[i], c[i]>> \in before
    BY <1>1, <1>3, <1>6
  <2>3. ASSUME ~(i > Len(a)) PROVE <<a[i], c[i]>> \in before
    <3>1. i \in 1..Len(a) /\ <<a[i], b[i]>> \in before
      BY <1>1, <1>2, <2>3
    <3> QED BY <1>1, <2>2, <3>1 DEF IsOrder
  <2> QED BY <1>2, <2>1, <2>2, <2>3 DEF Lex
<1> QED BY <1>1, <1>4, <1>5, <1>6

(* So an order of the parts is one of the sequences.                       *)
LEMMA LexOrders ==
  ASSUME NEW S, NEW before, IsOrder(S, before)
  PROVE  IsOrder(Seq(S), {p \in Seq(S) \X Seq(S) : Lex(before, p[1], p[2])})
<1> DEFINE lex == {p \in Seq(S) \X Seq(S) : Lex(before, p[1], p[2])}
<1>1. \A a, b \in Seq(S) : <<a, b>> \in lex <=> Lex(before, a, b)
  OBVIOUS
<1> HIDE DEF lex
<1>2. \A a \in Seq(S) : <<a, a>> \notin lex
  BY <1>1, LexIrreflexive
<1>3. \A a, b \in Seq(S) : a # b => <<a, b>> \in lex \/ <<b, a>> \in lex
  BY <1>1, LexTotal
<1>4. \A a, b, c \in Seq(S) : <<a, b>> \in lex /\ <<b, c>> \in lex => <<a, c>> \in lex
  BY <1>1, LexTransitive
<1>5. IsOrder(Seq(S), lex)
  BY <1>2, <1>3, <1>4 DEF IsOrder
<1> QED BY <1>5 DEF lex

Numbers == {p \in Int \X Int : p[1] < p[2]}
Tuples == {p \in Seq(Int) \X Seq(Int) : Lex(Numbers, p[1], p[2])}
Keys == Seq(Seq(Int))

LEMMA NumbersOrdered == IsOrder(Int, Numbers)
BY DEF IsOrder, Numbers

LEMMA TuplesOrdered == IsOrder(Seq(Int), Tuples)
BY NumbersOrdered, LexOrders DEF Tuples

LEMMA TupleLessIs ==
  ASSUME NEW a \in Seq(Int), NEW b \in Seq(Int)
  PROVE  TupleLess(a, b) <=> <<a, b>> \in Tuples
<1>1. \A i \in 1..Len(b) : (i > Len(a) \/ a[i] < b[i]) <=> (i > Len(a) \/ <<a[i], b[i]>> \in Numbers)
  <2> TAKE i \in 1..Len(b)
  <2>1. b[i] \in Int /\ (~(i > Len(a)) => a[i] \in Int)
    OBVIOUS
  <2> QED BY <2>1 DEF Numbers
<1>2. TupleLess(a, b) <=> Lex(Numbers, a, b)
  BY <1>1 DEF TupleLess, Lexically, Lex
<1> QED BY <1>2 DEF Tuples

LEMMA KeysCompare ==
  ASSUME NEW a \in Keys, NEW b \in Keys
  PROVE  Lexically(a, b, TupleLess) <=> Lex(Tuples, a, b)
<1>1. \A i \in 1..Len(b) : (i > Len(a) \/ TupleLess(a[i], b[i])) <=> (i > Len(a) \/ <<a[i], b[i]>> \in Tuples)
  <2> TAKE i \in 1..Len(b)
  <2>1. b[i] \in Seq(Int) /\ (~(i > Len(a)) => a[i] \in Seq(Int))
    BY DEF Keys
  <2> QED BY <2>1, TupleLessIs
<1> QED BY <1>1 DEF Lexically, Lex

(* The comparison of versions is a total order of their keys, which are    *)
(* sequences of tuples: exactly one of <, = and > holds, the two sides     *)
(* mirror each other, and what is below something lower is lower           *)
(* (_BaseVersion, _cmpkey).                                                *)
THEOREM VersionsAreOrdered ==
  ASSUME NEW a \in Keys, NEW b \in Keys, NEW c \in Keys
  PROVE  /\ CmpKeys(a, b) \in {-1, 0, 1} /\ (CmpKeys(a, b) < 0 <=> CmpKeys(b, a) > 0)
         /\ CmpKeys(a, b) = 0 <=> a = b
         /\ CmpKeys(a, b) <= 0 /\ CmpKeys(b, c) <= 0 => CmpKeys(a, c) <= 0
<1> DEFINE lower == {p \in Keys \X Keys : Lex(Tuples, p[1], p[2])}
<1>1. IsOrder(Keys, lower)
  BY TuplesOrdered, LexOrders DEF Keys
<1>2. \A x, y \in Keys : CmpKeys(x, y) = IF x = y THEN 0 ELSE IF <<x, y>> \in lower THEN -1 ELSE 1
  BY KeysCompare DEF CmpKeys
<1> HIDE DEF lower
<1>3. \A x, y \in Keys : ~(<<x, y>> \in lower /\ <<y, x>> \in lower)
  BY <1>1 DEF IsOrder
<1>4. CmpKeys(a, b) \in {-1, 0, 1} /\ (CmpKeys(a, b) = 0 <=> a = b)
  <2>1. CmpKeys(a, b) = IF a = b THEN 0 ELSE IF <<a, b>> \in lower THEN -1 ELSE 1
    BY <1>2
  <2>2. CASE a = b
    BY <2>1, <2>2
  <2>3. CASE a # b /\ <<a, b>> \in lower
    BY <2>1, <2>3
  <2>4. CASE a # b /\ <<a, b>> \notin lower
    BY <2>1, <2>4
  <2> QED BY <2>2, <2>3, <2>4
<1>5. CmpKeys(a, b) < 0 <=> CmpKeys(b, a) > 0
  <2>1. CASE a = b
    <3>1. CmpKeys(a, b) = 0 /\ CmpKeys(b, a) = 0
      BY <2>1 DEF CmpKeys
    <3> QED BY <3>1
  <2>2. CASE a # b
    <3>1. <<a, b>> \in lower <=> <<b, a>> \notin lower
      BY <1>1, <1>3, <2>2 DEF IsOrder
    <3> QED BY <1>2, <2>2, <3>1
  <2> QED BY <2>1, <2>2
<1>6. ASSUME CmpKeys(a, b) <= 0, CmpKeys(b, c) <= 0 PROVE CmpKeys(a, c) <= 0
  <2>1. (a = b \/ <<a, b>> \in lower) /\ (b = c \/ <<b, c>> \in lower)
    BY <1>2, <1>6
  <2>2. a = c \/ <<a, c>> \in lower
    BY <1>1, <2>1 DEF IsOrder
  <2> QED BY <1>2, <2>2
<1> QED BY <1>4, <1>5, <1>6

LEMMA Flattened ==
  ASSUME NEW S, NEW seqs \in Seq(Seq(S))
  PROVE  FlattenSeq(seqs) \in Seq(S)
<1> DEFINE N == Len(seqs)
           And(all, i) == all \o seqs[i]
           G(f, n) == f = [i \in 1..n |-> IF i = 1 THEN seqs[i] ELSE And(f[i - 1], i)]
           M == {n \in Nat : \E f : G(f, n)}
           flatten == CHOOSE f : G(f, N)
           T == {n \in Nat : n + 1 <= N => flatten[n + 1] \in Seq(S)}
<1>1. N \in Nat /\ \A i \in 1..N : seqs[i] \in Seq(S)
  OBVIOUS
<1>2. CASE N = 0
  <2>1. seqs = << >>
    BY <1>2
  <2>2. FlattenSeq(seqs) = << >>
    BY <1>2, <2>1 DEF FlattenSeq
  <2> QED BY <2>2
<1>3. CASE N # 0
  <2>1. FlattenSeq(seqs) = flatten[N]
    BY <1>3 DEF FlattenSeq
  <2> HIDE DEF N, And
  <2>2. 0 \in M
    <3>1. G([i \in 1..0 |-> 0], 0)
      OBVIOUS
    <3> QED BY <3>1
  <2>3. \A n \in Nat : n \in M => n + 1 \in M
    <3> SUFFICES ASSUME NEW n \in Nat, n \in M PROVE n + 1 \in M
      OBVIOUS
    <3>0. PICK f : G(f, n)
      OBVIOUS
    <3> DEFINE g == [i \in 1..(n + 1) |-> IF i = 1 THEN seqs[i] ELSE And(f[i - 1], i)]
    <3>1. \A i \in 1..n : g[i] = f[i]
      BY <3>0
    <3>2. \A i \in 1..(n + 1) : i # 1 => i - 1 \in 1..n
      OBVIOUS
    <3>3. \A i \in 1..(n + 1) : i # 1 => g[i - 1] = f[i - 1]
      BY <3>1, <3>2
    <3>4. G(g, n + 1)
      BY <3>3
    <3>5. \E h : G(h, n + 1)
      <4> HIDE DEF g, G
      <4> QED BY <3>4
    <3> HIDE DEF G
    <3> QED BY <3>5
  <2>4. \A n \in Nat : n \in M
    BY <2>2, <2>3, Induction
  <2>5. G(flatten, N)
    BY <1>1, <2>4
  <2> HIDE DEF flatten
  <2>6. 0 \in T
    BY <1>1, <2>5
  <2>7. \A n \in Nat : n \in T => n + 1 \in T
    <3> SUFFICES ASSUME NEW n \in Nat, n + 2 <= N, flatten[n + 1] \in Seq(S)
                 PROVE  flatten[n + 2] \in Seq(S)
      BY <1>1
    <3>1. n + 2 \in 1..N /\ n + 2 # 1 /\ (n + 2) - 1 = n + 1
      BY <1>1
    <3>2. flatten[n + 2] = And(flatten[n + 1], n + 2)
      BY <2>5, <3>1
    <3>3. seqs[n + 2] \in Seq(S)
      BY <1>1, <3>1
    <3> QED BY <3>2, <3>3 DEF And
  <2>8. \A n \in Nat : n \in T
    <3> HIDE DEF T
    <3> QED BY <2>6, <2>7, Induction
  <2>9. N - 1 \in Nat /\ (N - 1) + 1 = N
    BY <1>1, <1>3
  <2> QED BY <2>1, <2>8, <2>9
<1> QED BY <1>2, <1>3

(* A version of PEP 440, and its key.                                      *)
Versions ==
  [kind : {"pep440"}, epoch : Nat, release : Seq(Nat), pre : {<< >>} \cup (Nat \X Nat),
   post : {<< >>} \cup {<<n>> : n \in Nat}, dev : {<< >>} \cup {<<n>> : n \in Nat},
   local : Seq(Seq(Int))]

(* The last number of a release that is not zero.                          *)
LEMMA LastNonZero ==
  ASSUME NEW release \in Seq(Nat)
  PROVE  LET last == {i \in DOMAIN release : release[i] # 0}
         IN  \E k \in {0} \cup last : \A i \in last : i <= k
<1> DEFINE last == {i \in DOMAIN release : release[i] # 0}
           left == {Len(release) - i : i \in last}
<1>1. Len(release) \in Nat /\ last \in SUBSET (1..Len(release))
  OBVIOUS
<1>2. CASE last = {}
  BY <1>2
<1>3. CASE last # {}
  <2>1. left \in SUBSET Nat /\ left # {}
    BY <1>1, <1>3
  <2>2. PICK l \in left : \A m \in left : l <= m
    <3> HIDE DEF left
    <3> QED BY <2>1, LeastOf
  <2>3. PICK k \in last : l = Len(release) - k
    OBVIOUS
  <2>4. \A i \in last : i \in Nat /\ Len(release) - k <= Len(release) - i
    BY <1>1, <2>2, <2>3
  <2>5. \A i \in last : i <= k
    BY <1>1, <2>3, <2>4
  <2> QED BY <2>5
<1> QED BY <1>2, <1>3

LEMMA WithoutZerosIs ==
  ASSUME NEW release \in Seq(Nat)
  PROVE  WithoutZeros(release) \in Seq(Nat)
<1> DEFINE last == {i \in DOMAIN release : release[i] # 0}
           n == CHOOSE k \in {0} \cup last : \A i \in last : i <= k
<1>1. Len(release) \in Nat /\ last \in SUBSET (1..Len(release))
  OBVIOUS
<1>2. \E k \in {0} \cup last : \A i \in last : i <= k
  BY LastNonZero
<1>3. n \in {0} \cup last
  <2> HIDE DEF last
  <2> QED BY <1>2
<1> HIDE DEF n
<1>4. n \in 0..Len(release)
  BY <1>1, <1>3
<1>5. SubSeq(release, 1, n) \in Seq(Nat)
  BY <1>4
<1> QED BY <1>5 DEF WithoutZeros, n

LEMMA HeadDecides ==
  ASSUME NEW a \in Seq(Int), NEW b \in Seq(Int), Len(a) > 0, Len(b) > 0, a[1] < b[1]
  PROVE  TupleLess(a, b)
<1>1. 1 \in 1..Len(b) /\ 1 - 1 <= Len(a) /\ \A j \in 1..(1 - 1) : a[j] = b[j]
  OBVIOUS
<1> QED BY <1>1 DEF TupleLess, Lexically

LEMMA PlaceDecides ==
  ASSUME NEW a \in Keys, NEW b \in Keys, NEW i \in Nat, 1 <= i, i <= Len(a), i <= Len(b),
         \A j \in 1..(i - 1) : a[j] = b[j], TupleLess(a[i], b[i])
  PROVE  CmpKeys(a, b) < 0
<1>1. Len(a) \in Nat /\ Len(b) \in Nat /\ i \in 1..Len(b) /\ i - 1 <= Len(a) /\ a[i] \in Seq(Int)
  BY DEF Keys
<1>2. Lexically(a, b, TupleLess)
  BY <1>1 DEF Lexically
<1>3. a # b
  <2>1. ~TupleLess(a[i], a[i])
    BY <1>1, TupleLessIs, TuplesOrdered DEF IsOrder
  <2> QED BY <2>1
<1> QED BY <1>2, <1>3 DEF CmpKeys

PrePart(v) ==
  IF v.pre # << >> THEN <<1>> \o v.pre
  ELSE IF v.post = << >> /\ v.dev # << >> THEN <<0>> ELSE <<2>>
PostPart(v) == IF v.post = << >> THEN <<0>> ELSE <<1>> \o v.post
DevPart(v) == IF v.dev = << >> THEN <<1>> ELSE <<0>> \o v.dev
LocalPart(v) == IF v.local = << >> THEN <<0>> ELSE <<1>> \o FlattenSeq(v.local)

LEMMA FirstOfJoined ==
  ASSUME NEW n \in Int, NEW s \in Seq(Int)
  PROVE  /\ <<n>> \o s \in Seq(Int) /\ Len(<<n>> \o s) > 0 /\ (<<n>> \o s)[1] = n
         /\ <<n>> \in Seq(Int) /\ Len(<<n>>) > 0 /\ <<n>>[1] = n
OBVIOUS

LEMMA StagesOf ==
  ASSUME NEW v \in Versions
  PROVE  /\ v.pre \in Seq(Int) /\ v.post \in Seq(Int) /\ v.dev \in Seq(Int)
         /\ FlattenSeq(v.local) \in Seq(Int)
<1>1. << >> \in Seq(Int) /\ \A n \in Nat : <<n>> \in Seq(Int)
  OBVIOUS
<1>2. ASSUME NEW m \in Nat, NEW n \in Nat PROVE <<m, n>> \in Seq(Int)
  OBVIOUS
<1>3. /\ v.pre \in {<< >>} \cup (Nat \X Nat)
      /\ v.post \in {<< >>} \cup {<<n>> : n \in Nat} /\ v.dev \in {<< >>} \cup {<<n>> : n \in Nat}
  BY DEF Versions
<1>4. v.pre \in Seq(Int)
  <2>1. CASE v.pre = << >>
    BY <1>1, <2>1
  <2>2. CASE v.pre \in Nat \X Nat
    <3>1. PICK m \in Nat, n \in Nat : v.pre = <<m, n>>
      BY <2>2
    <3> QED BY <1>2, <3>1
  <2> QED BY <1>3, <2>1, <2>2
<1>5. v.post \in Seq(Int) /\ v.dev \in Seq(Int)
  BY <1>1, <1>3
<1>6. FlattenSeq(v.local) \in Seq(Int)
  BY Flattened DEF Versions
<1> QED BY <1>4, <1>5, <1>6

LEMMA KeyParts ==
  ASSUME NEW v \in Versions
  PROVE  /\ CmpKey(v) \in Keys /\ Len(CmpKey(v)) = 6
         /\ CmpKey(v)[1] = <<v.epoch>> /\ CmpKey(v)[2] = WithoutZeros(v.release)
         /\ CmpKey(v)[3] = PrePart(v) /\ CmpKey(v)[4] = PostPart(v)
         /\ CmpKey(v)[5] = DevPart(v) /\ CmpKey(v)[6] = LocalPart(v)
<1>1. /\ v.epoch \in Nat /\ v.release \in Seq(Nat)
      /\ v.pre \in Seq(Int) /\ v.post \in Seq(Int) /\ v.dev \in Seq(Int)
      /\ FlattenSeq(v.local) \in Seq(Int)
  BY StagesOf DEF Versions
<1>3. WithoutZeros(v.release) \in Seq(Int)
  <2>1. WithoutZeros(v.release) \in Seq(Nat)
    BY <1>1, WithoutZerosIs
  <2> QED BY <2>1
<1>4. PrePart(v) \in Seq(Int)
  BY <1>1, FirstOfJoined DEF PrePart
<1>5. PostPart(v) \in Seq(Int) /\ DevPart(v) \in Seq(Int)
  BY <1>1, FirstOfJoined DEF PostPart, DevPart
<1>6. LocalPart(v) \in Seq(Int)
  BY <1>1, FirstOfJoined DEF LocalPart
<1>7. <<v.epoch>> \in Seq(Int)
  BY <1>1
<1>8. CmpKey(v) = <<<<v.epoch>>, WithoutZeros(v.release), PrePart(v), PostPart(v), DevPart(v), LocalPart(v)>>
  BY DEF CmpKey, PrePart, PostPart, DevPart, LocalPart
<1> DEFINE S == Seq(Int)
<1>9. ASSUME NEW a \in S, NEW b \in S, NEW c \in S, NEW d \in S, NEW e \in S, NEW f \in S
      PROVE  LET k == <<a, b, c, d, e, f>>
             IN  /\ k \in Seq(S) /\ Len(k) = 6 /\ k[1] = a /\ k[2] = b /\ k[3] = c /\ k[4] = d
                 /\ k[5] = e /\ k[6] = f
  <2> HIDE DEF S
  <2> QED BY <1>9
<1> QED BY <1>3, <1>4, <1>5, <1>6, <1>7, <1>8, <1>9 DEF Keys

(* A zero at the end of a release is no part of its key.                   *)
LEMMA ZeroEnds ==
  ASSUME NEW release \in Seq(Nat)
  PROVE  WithoutZeros(Append(release, 0)) = WithoutZeros(release)
<1> DEFINE last == {i \in DOMAIN release : release[i] # 0}
           longer == Append(release, 0)
           after == {i \in DOMAIN longer : longer[i] # 0}
           n == CHOOSE k \in {0} \cup last : \A i \in last : i <= k
<1>1. /\ Len(release) \in Nat /\ longer \in Seq(Nat) /\ DOMAIN longer = 1..(Len(release) + 1)
      /\ DOMAIN release = 1..Len(release) /\ longer[Len(release) + 1] = 0
      /\ \A i \in 1..Len(release) : longer[i] = release[i]
  OBVIOUS
<1>2. after = last
  <2> HIDE DEF longer
  <2> QED BY <1>1
<1>3. n \in {0} \cup last
  <2>1. \E k \in {0} \cup last : \A i \in last : i <= k
    BY LastNonZero
  <2> HIDE DEF last
  <2> QED BY <2>1
<1>4. n \in 0..Len(release)
  <2> HIDE DEF n
  <2> QED BY <1>1, <1>3
<1>5. WithoutZeros(release) = SubSeq(release, 1, n)
  BY DEF WithoutZeros
<1>6. WithoutZeros(longer) = SubSeq(longer, 1, n)
  <2>1. WithoutZeros(longer) = SubSeq(longer, 1, CHOOSE k \in {0} \cup after : \A i \in after : i <= k)
    BY DEF WithoutZeros
  <2> HIDE DEF last, after, longer
  <2> QED BY <1>2, <2>1
<1>7. SubSeq(longer, 1, n) = SubSeq(release, 1, n)
  <2> HIDE DEF n, longer
  <2> QED BY <1>1, <1>4
<1> QED BY <1>5, <1>6, <1>7

(* Two versions with the same epoch and release, compared by the parts of  *)
(* their keys that follow.                                                 *)
LEMMA StageDecides ==
  ASSUME NEW v \in Versions, NEW w \in Versions, v.epoch = w.epoch, v.release = w.release,
         NEW i \in 3..6, \A j \in 3..(i - 1) : CmpKey(v)[j] = CmpKey(w)[j],
         TupleLess(CmpKey(v)[i], CmpKey(w)[i])
  PROVE  CmpKeys(CmpKey(v), CmpKey(w)) < 0
<1> DEFINE a == CmpKey(v)
           b == CmpKey(w)
<1>1. /\ a \in Keys /\ b \in Keys /\ Len(a) = 6 /\ Len(b) = 6
      /\ a[1] = b[1] /\ a[2] = b[2]
  BY KeyParts
<1>2. i \in Nat /\ 1 <= i /\ i <= 6 /\ \A j \in 3..(i - 1) : a[j] = b[j]
  OBVIOUS
<1>3. TupleLess(a[i], b[i])
  OBVIOUS
<1> HIDE DEF a, b
<1>4. \A j \in 1..(i - 1) : a[j] = b[j]
  BY <1>1, <1>2
<1>5. CmpKeys(a, b) < 0
  BY <1>1, <1>2, <1>3, <1>4, PlaceDecides
<1> QED BY <1>5 DEF a, b

(* The key of a version that _cmpkey returns puts its releases in the      *)
(* order PEP 440 gives them: a pre-release or development release is below *)
(* the release it leads to, a post-release above the one it follows, a     *)
(* local version above its public one, and a release with a zero more is   *)
(* the same release.                                                       *)
THEOREM StagesAreOrdered ==
  ASSUME NEW v \in Versions
  PROVE  LET Sooner(a, b) == CmpKeys(CmpKey(a), CmpKey(b)) < 0
             plain == [v EXCEPT !.pre = << >>, !.post = << >>, !.dev = << >>, !.local = << >>]
             led == [v EXCEPT !.pre = << >>, !.dev = << >>, !.local = << >>]
         IN  /\ IsPrerelease(v) => Sooner(v, led)
             /\ IsPostrelease(v) => Sooner(plain, led)
             /\ v.local # << >> => Sooner(Public(v), v)
             /\ CmpKey([v EXCEPT !.release = Append(v.release, 0)]) = CmpKey(v)
<1> DEFINE plain == [v EXCEPT !.pre = << >>, !.post = << >>, !.dev = << >>, !.local = << >>]
           led == [v EXCEPT !.pre = << >>, !.dev = << >>, !.local = << >>]
           longer == [v EXCEPT !.release = Append(v.release, 0)]
<1>1. << >> \in Seq(Seq(Int))
  OBVIOUS
<1>2. /\ plain \in Versions /\ plain.epoch = v.epoch /\ plain.release = v.release
      /\ plain.pre = << >> /\ plain.post = << >> /\ plain.dev = << >> /\ plain.local = << >>
  BY <1>1 DEF Versions
<1>3. /\ led \in Versions /\ led.epoch = v.epoch /\ led.release = v.release
      /\ led.pre = << >> /\ led.post = v.post /\ led.dev = << >> /\ led.local = << >>
  BY <1>1 DEF Versions
<1>4. /\ Public(v) \in Versions /\ Public(v).epoch = v.epoch /\ Public(v).release = v.release
      /\ Public(v).pre = v.pre /\ Public(v).post = v.post /\ Public(v).dev = v.dev
      /\ Public(v).local = << >>
  BY <1>1 DEF Versions, Public, IsLegacy
<1> HIDE DEF plain, led
<1>5. /\ v.pre \in Seq(Int) /\ v.post \in Seq(Int) /\ v.dev \in Seq(Int)
      /\ FlattenSeq(v.local) \in Seq(Int)
  BY StagesOf
<1>6. ASSUME IsPrerelease(v) PROVE CmpKeys(CmpKey(v), CmpKey(led)) < 0
  <2>1. v.pre # << >> \/ v.dev # << >>
    BY <1>6 DEF IsPrerelease
  <2>2. CASE v.pre # << >> \/ v.post = << >>
    <3>1. PrePart(led) = <<2>>
      BY <1>3 DEF PrePart
    <3>2. PrePart(v) \in {<<1>> \o v.pre, <<0>>}
      BY <2>1, <2>2 DEF PrePart
    <3>3. TupleLess(PrePart(v), PrePart(led))
      <4>1. PrePart(v) \in Seq(Int) /\ Len(PrePart(v)) > 0 /\ PrePart(v)[1] \in {0, 1}
        <5>1. CASE PrePart(v) = <<1>> \o v.pre
          BY <5>1, <1>5, FirstOfJoined
        <5>2. CASE PrePart(v) = <<0>>
          BY <5>2, FirstOfJoined
        <5> QED BY <3>2, <5>1, <5>2
      <4>2. PrePart(led) \in Seq(Int) /\ Len(PrePart(led)) > 0 /\ PrePart(led)[1] = 2
        BY <3>1, FirstOfJoined
      <4>3. PrePart(v)[1] < PrePart(led)[1]
        BY <4>1, <4>2
      <4> QED BY <4>1, <4>2, <4>3, HeadDecides
    <3>4. TupleLess(CmpKey(v)[3], CmpKey(led)[3])
      BY <1>3, <3>3, KeyParts
    <3>5. 3 \in 3..6 /\ \A j \in 3..(3 - 1) : CmpKey(v)[j] = CmpKey(led)[j]
      OBVIOUS
    <3> QED BY <1>3, <3>4, <3>5, StageDecides
  <2>3. CASE v.pre = << >> /\ v.post # << >>
    <3>1. PrePart(v) = PrePart(led) /\ PostPart(v) = PostPart(led)
      BY <1>3, <2>3 DEF PrePart, PostPart
    <3>2. DevPart(v) = <<0>> \o v.dev /\ DevPart(led) = <<1>>
      BY <1>3, <2>1, <2>3 DEF DevPart
    <3>3. TupleLess(DevPart(v), DevPart(led))
      <4>1. DevPart(v) \in Seq(Int) /\ Len(DevPart(v)) > 0 /\ DevPart(v)[1] = 0
        BY <3>2, <1>5, FirstOfJoined
      <4>2. DevPart(led) \in Seq(Int) /\ Len(DevPart(led)) > 0 /\ DevPart(led)[1] = 1
        BY <3>2, FirstOfJoined
      <4>3. DevPart(v)[1] < DevPart(led)[1]
        BY <4>1, <4>2
      <4> QED BY <4>1, <4>2, <4>3, HeadDecides
    <3>4. /\ CmpKey(v)[3] = CmpKey(led)[3] /\ CmpKey(v)[4] = CmpKey(led)[4]
          /\ TupleLess(CmpKey(v)[5], CmpKey(led)[5])
      BY <1>3, <3>1, <3>3, KeyParts
    <3>5. 5 \in 3..6 /\ \A j \in 3..(5 - 1) : j = 3 \/ j = 4
      OBVIOUS
    <3>6. \A j \in 3..(5 - 1) : CmpKey(v)[j] = CmpKey(led)[j]
      BY <3>4, <3>5
    <3> QED BY <1>3, <3>4, <3>5, <3>6, StageDecides
  <2> QED BY <2>1, <2>2, <2>3
<1>7. ASSUME IsPostrelease(v) PROVE CmpKeys(CmpKey(plain), CmpKey(led)) < 0
  <2>1. PrePart(plain) = PrePart(led)
    BY <1>2, <1>3 DEF PrePart
  <2>2. PostPart(plain) = <<0>> /\ PostPart(led) = <<1>> \o v.post
    BY <1>2, <1>3, <1>7 DEF PostPart, IsPostrelease
  <2>3. TupleLess(PostPart(plain), PostPart(led))
    <3>1. PostPart(plain) \in Seq(Int) /\ Len(PostPart(plain)) > 0 /\ PostPart(plain)[1] = 0
      BY <2>2, FirstOfJoined
    <3>2. PostPart(led) \in Seq(Int) /\ Len(PostPart(led)) > 0 /\ PostPart(led)[1] = 1
      BY <2>2, <1>5, FirstOfJoined
    <3>3. PostPart(plain)[1] < PostPart(led)[1]
      BY <3>1, <3>2
    <3> QED BY <3>1, <3>2, <3>3, HeadDecides
  <2>4. CmpKey(plain)[3] = CmpKey(led)[3] /\ TupleLess(CmpKey(plain)[4], CmpKey(led)[4])
    BY <1>2, <1>3, <2>1, <2>3, KeyParts
  <2>5. 4 \in 3..6 /\ \A j \in 3..(4 - 1) : j = 3
    OBVIOUS
  <2>6. \A j \in 3..(4 - 1) : CmpKey(plain)[j] = CmpKey(led)[j]
    BY <2>4, <2>5
  <2>7. plain.epoch = led.epoch /\ plain.release = led.release
    BY <1>2, <1>3
  <2> QED BY <1>2, <1>3, <2>4, <2>5, <2>6, <2>7, StageDecides
<1>8. ASSUME v.local # << >> PROVE CmpKeys(CmpKey(Public(v)), CmpKey(v)) < 0
  <2> DEFINE w == Public(v)
  <2> HIDE DEF w
  <2>0. /\ w \in Versions /\ w.epoch = v.epoch /\ w.release = v.release /\ w.pre = v.pre
        /\ w.post = v.post /\ w.dev = v.dev /\ w.local = << >>
    BY <1>4 DEF w
  <2>1. PrePart(w) = PrePart(v) /\ PostPart(w) = PostPart(v) /\ DevPart(w) = DevPart(v)
    BY <2>0 DEF PrePart, PostPart, DevPart
  <2>2. LocalPart(w) = <<0>> /\ LocalPart(v) = <<1>> \o FlattenSeq(v.local)
    BY <2>0, <1>8 DEF LocalPart
  <2>3. TupleLess(LocalPart(w), LocalPart(v))
    <3>1. LocalPart(w) \in Seq(Int) /\ Len(LocalPart(w)) > 0 /\ LocalPart(w)[1] = 0
      BY <2>2, FirstOfJoined
    <3>2. LocalPart(v) \in Seq(Int) /\ Len(LocalPart(v)) > 0 /\ LocalPart(v)[1] = 1
      BY <2>2, <1>5, FirstOfJoined
    <3>3. LocalPart(w)[1] < LocalPart(v)[1]
      BY <3>1, <3>2
    <3> QED BY <3>1, <3>2, <3>3, HeadDecides
  <2>4. /\ CmpKey(w)[3] = CmpKey(v)[3] /\ CmpKey(w)[4] = CmpKey(v)[4] /\ CmpKey(w)[5] = CmpKey(v)[5]
        /\ TupleLess(CmpKey(w)[6], CmpKey(v)[6])
    BY <2>0, <2>1, <2>3, KeyParts
  <2>5. 6 \in 3..6 /\ \A j \in 3..(6 - 1) : j = 3 \/ j = 4 \/ j = 5
    OBVIOUS
  <2>6. \A j \in 3..(6 - 1) : CmpKey(w)[j] = CmpKey(v)[j]
    BY <2>4, <2>5
  <2>7. CmpKeys(CmpKey(w), CmpKey(v)) < 0
    BY <2>0, <2>4, <2>5, <2>6, StageDecides
  <2> QED BY <2>7 DEF w
<1>9. CmpKey(longer) = CmpKey(v)
  <2>1. v.release \in Seq(Nat)
    BY DEF Versions
  <2>2. WithoutZeros(Append(v.release, 0)) = WithoutZeros(v.release)
    BY <2>1, ZeroEnds
  <2>3. /\ longer.epoch = v.epoch /\ longer.release = Append(v.release, 0) /\ longer.pre = v.pre
        /\ longer.post = v.post /\ longer.dev = v.dev /\ longer.local = v.local
    BY DEF Versions
  <2> HIDE DEF longer
  <2> QED BY <2>2, <2>3 DEF CmpKey
<1> QED BY <1>6, <1>7, <1>8, <1>9 DEF plain, led

-----------------------------------------------------------------------------
(* Ranges                                                                  *)

(* Specifiers that bound a version, none of them above a pre-release.      *)
Bounds ==
  {s \in [op : {"==", ">=", "<=", "<", ">"}, version : Versions, wild : {FALSE}] :
     s.version.local = << >> /\ (s.op = ">" => ~IsPrerelease(s.version))}

(* What a package index lists besides pre-releases.                        *)
Releases == {v \in Versions : ~IsPrerelease(v) /\ v.local = << >>}

AtMost(a, b) == CmpKeys(a, b) <= 0

LEMMA AtMostIs ==
  ASSUME NEW a \in Keys, NEW b \in Keys
  PROVE  /\ AtMost(a, b) \in BOOLEAN /\ (AtMost(a, b) \/ AtMost(b, a))
         /\ AtMost(a, b) /\ AtMost(b, a) <=> a = b
         /\ CmpKeys(a, b) = 0 <=> a = b
         /\ CmpKeys(a, b) >= 0 <=> AtMost(b, a)
         /\ CmpKeys(a, b) < 0 <=> ~AtMost(b, a)
         /\ CmpKeys(a, b) > 0 <=> ~AtMost(a, b)
<1>1. /\ CmpKeys(a, b) \in Int /\ CmpKeys(b, a) \in Int
      /\ CmpKeys(a, b) < 0 <=> CmpKeys(b, a) > 0
      /\ CmpKeys(b, a) < 0 <=> CmpKeys(a, b) > 0
      /\ CmpKeys(a, b) = 0 <=> a = b
  <2>1. CmpKeys(a, b) \in {-1, 0, 1} /\ CmpKeys(b, a) \in {-1, 0, 1}
    BY VersionsAreOrdered
  <2>2. CmpKeys(a, b) \in Int /\ CmpKeys(b, a) \in Int
    BY <2>1
  <2>3. CmpKeys(a, b) < 0 <=> CmpKeys(b, a) > 0
    BY VersionsAreOrdered
  <2>4. CmpKeys(b, a) < 0 <=> CmpKeys(a, b) > 0
    BY VersionsAreOrdered
  <2>5. CmpKeys(a, b) = 0 <=> a = b
    BY VersionsAreOrdered
  <2> QED BY <2>2, <2>3, <2>4, <2>5
<1> QED BY <1>1 DEF AtMost

LEMMA AtMostTransitive ==
  ASSUME NEW a \in Keys, NEW b \in Keys, NEW c \in Keys, AtMost(a, b), AtMost(b, c)
  PROVE  AtMost(a, c)
BY VersionsAreOrdered DEF AtMost

(* What lies between two keys with one base has that base.                 *)
LEMMA BaseBetween ==
  ASSUME NEW a \in Keys, NEW b \in Keys, NEW c \in Keys,
         Len(a) = 6, Len(b) = 6, Len(c) = 6, AtMost(a, b), AtMost(b, c),
         a[1] = c[1], a[2] = c[2]
  PROVE  b[1] = a[1] /\ b[2] = a[2]
<1>1. \A x, y \in Seq(Int) : x = y \/ TupleLess(x, y) \/ TupleLess(y, x)
  BY TuplesOrdered, TupleLessIs DEF IsOrder
<1>2. \A i \in 1..6 : a[i] \in Seq(Int) /\ b[i] \in Seq(Int) /\ c[i] \in Seq(Int)
  <2> DEFINE S == Seq(Int)
  <2>1. ASSUME NEW k \in Seq(S), Len(k) = 6 PROVE \A i \in 1..6 : k[i] \in S
    <3> HIDE DEF S
    <3>1. TAKE i \in 1..6
    <3>2. i \in 1..Len(k)
      BY <2>1
    <3> QED BY <3>2
  <2>2. a \in Seq(S) /\ b \in Seq(S) /\ c \in Seq(S)
    BY DEF Keys
  <2> QED BY <2>1, <2>2
<1>3. ~(CmpKeys(b, a) < 0) /\ ~(CmpKeys(c, b) < 0)
  BY AtMostIs
<1>4. ASSUME NEW i \in {1, 2}, i = 2 => b[1] = a[1]
      PROVE  b[i] = a[i]
  <2>1. i \in Nat /\ 1 <= i /\ i <= 6 /\ i \in 1..6 /\ a[i] = c[i]
    BY <1>4
  <2>2. (\A j \in 1..(i - 1) : b[j] = a[j]) /\ (\A j \in 1..(i - 1) : c[j] = b[j])
    <3>1. \A j \in 1..(i - 1) : i = 2 /\ j = 1
      BY <1>4
    <3> QED BY <1>4, <3>1
  <2>3. ~TupleLess(b[i], a[i])
    BY <1>3, <2>1, <2>2, PlaceDecides
  <2>4. ~TupleLess(c[i], b[i])
    BY <1>3, <2>1, <2>2, PlaceDecides
  <2> QED BY <1>1, <1>2, <2>1, <2>3, <2>4
<1>5. b[1] = a[1]
  BY <1>4
<1>6. b[2] = a[2]
  BY <1>4, <1>5
<1> QED BY <1>5, <1>6

LEMMA SameBaseIs ==
  ASSUME NEW v \in Versions, NEW w \in Versions
  PROVE  SameBase(v, w) <=> CmpKey(v)[1] = CmpKey(w)[1] /\ CmpKey(v)[2] = CmpKey(w)[2]
<1>1. <<v.epoch>> = <<w.epoch>> <=> v.epoch = w.epoch
  OBVIOUS
<1> QED BY <1>1, KeyParts DEF SameBase

(* What one bound asks of a release.                                       *)
LEMMA BoundAsks ==
  ASSUME NEW s \in Bounds, NEW v \in Releases, NEW prereleases
  PROVE  SpecifierContains(s, v, prereleases) <=>
           /\ Satisfies(s.op, CmpKeys(CmpKey(v), CmpKey(s.version)))
           /\ s.op = ">" => ~(~IsPostrelease(s.version) /\ IsPostrelease(v) /\ SameBase(v, s.version))
<1> DEFINE sign == CmpKeys(CmpKey(v), CmpKey(s.version))
<1>1. /\ s.op \in {"==", ">=", "<=", "<", ">"} /\ s.wild = FALSE /\ s.version \in Versions
      /\ s.version.local = << >>
  BY DEF Bounds
<1>2. v \in Versions /\ ~IsPrerelease(v) /\ v.local = << >>
  BY DEF Releases
<1>3. ~IsLegacy(v) /\ ~IsLegacy(s.version)
  BY <1>1, <1>2 DEF Versions, IsLegacy
<1>4. IsSpecifier(s)
  BY <1>1, <1>3 DEF IsSpecifier
<1>5. CmpKey(Comparable(s, v)) = CmpKey(v)
  <2>1. Public(v) = v
    BY <1>2, <1>3 DEF Public, Versions
  <2> QED BY <2>1 DEF Comparable
<1>6. SpecifierContains(s, v, prereleases) <=> CompareSign(s, v, sign)
  BY <1>1, <1>2, <1>3, <1>4, <1>5 DEF SpecifierContains, IsLegacySpecifier, Compare
<1> HIDE DEF sign
<1>7. CASE s.op = "=="
  BY <1>1, <1>6, <1>7 DEF CompareSign, CompareEqual, Satisfies, sign
<1>8. CASE s.op \in {">=", "<="}
  BY <1>6, <1>8 DEF CompareSign, sign
<1>9. CASE s.op = "<"
  BY <1>2, <1>6, <1>9 DEF CompareSign, CompareLessThan, Satisfies, sign
<1>10. CASE s.op = ">"
  BY <1>2, <1>6, <1>10 DEF CompareSign, CompareGreaterThan, Satisfies, sign
<1> QED BY <1>1, <1>7, <1>8, <1>9, <1>10

(* A range of a rule is an interval of releases: one that lies between two *)
(* of a range is in it, whatever post-release parts and zeros they have    *)
(* (SpecifierSet.filter).  Above a pre-release this is not so, for > then  *)
(* leaves out the post-releases of its version and not the version itself. *)
THEOREM RangesAreIntervals ==
  ASSUME NEW specs \in SUBSET Bounds, NEW u \in Releases, NEW v \in Releases, NEW w \in Releases,
         CmpKeys(CmpKey(u), CmpKey(v)) <= 0, CmpKeys(CmpKey(v), CmpKey(w)) <= 0,
         InSpecifierSet(specs, u), InSpecifierSet(specs, w)
  PROVE  InSpecifierSet(specs, v)
<1>1. /\ u \in Versions /\ v \in Versions /\ w \in Versions
      /\ ~IsPrerelease(u) /\ u.local = << >> /\ ~IsLegacy(u) /\ ~IsLegacy(v)
  BY DEF Releases, Versions, IsLegacy
<1>2. CASE specs = {}
  BY <1>1, <1>2 DEF InSpecifierSet
<1>3. CASE specs # {}
  <2> DEFINE flag == Prereleases(specs)
  <2>1. SUFFICES ASSUME NEW s \in specs PROVE SpecifierContains(s, v, flag)
    BY <1>3 DEF InSpecifierSet
  <2>2. SpecifierContains(s, u, flag) /\ SpecifierContains(s, w, flag)
    BY <1>3 DEF InSpecifierSet
  <2> HIDE DEF flag
  <2>3. s \in Bounds /\ s.version \in Versions /\ s.op \in {"==", ">=", "<=", "<", ">"}
    BY DEF Bounds
  <2> DEFINE a == CmpKey(u)
             b == CmpKey(v)
             c == CmpKey(w)
             k == CmpKey(s.version)
  <2>4. /\ a \in Keys /\ b \in Keys /\ c \in Keys /\ k \in Keys
        /\ Len(a) = 6 /\ Len(b) = 6 /\ Len(c) = 6 /\ Len(k) = 6
    BY <1>1, <2>3, KeyParts
  <2>5. AtMost(a, b) /\ AtMost(b, c)
    BY DEF AtMost
  <2>6. Satisfies(s.op, CmpKeys(a, k)) /\ Satisfies(s.op, CmpKeys(c, k))
    BY <2>2, <2>3, BoundAsks
  <2>7. SUFFICES /\ Satisfies(s.op, CmpKeys(b, k))
                 /\ s.op = ">" => ~(~IsPostrelease(s.version) /\ IsPostrelease(v)
                                      /\ SameBase(v, s.version))
    BY <2>3, BoundAsks
  <2>8. s.op = ">" => ~(~IsPostrelease(s.version) /\ IsPostrelease(u) /\ SameBase(u, s.version))
    BY <2>2, <2>3, BoundAsks
  <2>9. CASE s.op = ">"
    <3>0. ~IsPrerelease(s.version) /\ s.version.local = << >>
      BY <2>3, <2>9 DEF Bounds
    <3> HIDE DEF a, b, c, k
    <3>1. ~AtMost(a, k)
      BY <2>4, <2>6, <2>9, AtMostIs DEF Satisfies
    <3>2. AtMost(k, a)
      BY <2>4, <3>1, AtMostIs
    <3>3. ~AtMost(b, k)
      BY <2>4, <2>5, <3>1, AtMostTransitive
    <3>4. Satisfies(s.op, CmpKeys(b, k))
      BY <2>4, <2>9, <3>3, AtMostIs DEF Satisfies
    <3>5. ASSUME ~IsPostrelease(s.version), IsPostrelease(v), SameBase(v, s.version) PROVE FALSE
      <4>1. k[1] = b[1] /\ k[2] = b[2]
        BY <1>1, <2>3, <3>5, SameBaseIs DEF b, k
      <4>2. a[1] = k[1] /\ a[2] = k[2]
        BY <2>4, <2>5, <3>2, <4>1, BaseBetween
      <4>3. SameBase(u, s.version)
        BY <1>1, <2>3, <4>2, SameBaseIs DEF a, k
      <4>4. ~IsPostrelease(u)
        BY <2>8, <2>9, <3>5, <4>3
      <4>5. /\ u.pre = << >> /\ u.post = << >> /\ u.dev = << >> /\ u.local = << >>
            /\ s.version.pre = << >> /\ s.version.post = << >> /\ s.version.dev = << >>
            /\ s.version.local = << >>
        BY <1>1, <2>3, <3>0, <3>5, <4>4 DEF IsPrerelease, IsPostrelease, IsLegacy, Versions
      <4>6. CmpKey(u) = CmpKey(s.version)
        BY <4>3, <4>5 DEF CmpKey, SameBase
      <4>7. a = k
        BY <4>6 DEF a, k
      <4> QED BY <2>4, <3>1, <4>7, AtMostIs
    <3> QED BY <3>4, <3>5 DEF b, k
  <2>10. CASE s.op # ">"
    <3>1. SUFFICES Satisfies(s.op, CmpKeys(b, k))
      BY <2>10
    <3> HIDE DEF a, b, c, k
    <3>2. CASE s.op = "=="
      <4>1. a = k /\ c = k
        BY <2>4, <2>6, <3>2, AtMostIs DEF Satisfies
      <4>2. b = k
        BY <2>4, <2>5, <4>1, AtMostIs
      <4>3. CmpKeys(b, k) = 0
        BY <2>4, <4>2, AtMostIs
      <4> QED BY <3>2, <4>3 DEF Satisfies
    <3>3. CASE s.op = ">="
      <4>1. AtMost(k, a)
        BY <2>4, <2>6, <3>3, AtMostIs DEF Satisfies
      <4>2. AtMost(k, b)
        BY <2>4, <2>5, <4>1, AtMostTransitive
      <4>3. CmpKeys(b, k) >= 0
        BY <2>4, <4>2, AtMostIs
      <4> QED BY <3>3, <4>3 DEF Satisfies
    <3>4. CASE s.op = "<="
      <4>1. AtMost(c, k)
        BY <2>6, <3>4 DEF Satisfies, AtMost
      <4>2. AtMost(b, k)
        BY <2>4, <2>5, <4>1, AtMostTransitive
      <4> QED BY <3>4, <4>2 DEF Satisfies, AtMost
    <3>5. CASE s.op = "<"
      <4>1. ~AtMost(k, c)
        BY <2>4, <2>6, <3>5, AtMostIs DEF Satisfies
      <4>2. ~AtMost(k, b)
        BY <2>4, <2>5, <4>1, AtMostTransitive
      <4>3. CmpKeys(b, k) < 0
        BY <2>4, <4>2, AtMostIs
      <4> QED BY <3>5, <4>3 DEF Satisfies
    <3> QED BY <2>3, <2>10, <3>2, <3>3, <3>4, <3>5
  <2> QED BY <2>9, <2>10
<1> QED BY <1>2, <1>3

=============================================================================
