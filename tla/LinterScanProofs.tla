-------------------------- MODULE LinterScanProofs --------------------------
(***************************************************************************)
(* Proofs about LinterScan, for any repositories, command lines and        *)
(* failures: the numbering of the findings, the checkout the user gets     *)
(* back, and what the exit code tells.                                     *)
(***************************************************************************)
EXTENDS LinterScan, FiniteSetTheorems, WellFoundedInduction, TLAPS

Trees == IsTree(work) /\ IsTree(start) /\ IsTree(commits.base) /\ IsTree(commits.head)

(* What the user should have: the checkout of the start, and the edits     *)
(* that no reset was about to destroy.                                     *)
Wanted == StartWith(edits \ lost)

Before == {"config", "handler", "scan", "decide", "strategy", "add worktree"}

(* What the checkout, its branch, the worktree and the directory are at    *)
(* each point.  A checkout is reset only if it is that of the commit, so   *)
(* the reset of the clean-up brings back what the user should have.        *)
Repo ==
  /\ pc \in Before => /\ branch = "head" /\ cwd = "checkout" /\ worktree = "none"
                      /\ restored = "yes" /\ work = Wanted
  /\ Resetting => /\ cwd = "checkout" /\ worktree = "none" /\ restored = "yes"
                  /\ commits.head = Wanted
  /\ pc \in {"chdir", "checkout", "remove worktree"} \/ (pc = "baseline" /\ cwd = "worktree") =>
       branch = "head" /\ work = Wanted /\ restored = "yes"
  /\ pc = "chdir" => cwd = "checkout"
  /\ pc = "checkout" => cwd = "worktree"
  /\ pc \in {"filter", "fix", "output", "done"} =>
       /\ cwd = "checkout"
       /\ restored = "yes" => branch = "head" /\ worktree = "none" /\ work = Wanted

(* What the user edited, and what the checkout has, are files it had at    *)
(* first or files of the base.                                             *)
Edits == LET known == Files(start) \cup Files(commits.base)
         IN  edits \subseteq known /\ Files(work) \subseteq known /\ lost \subseteq edits

(* An error of semgrep-core, or the one LoadRules reports before it raises.*)
OfCore(e) == e.kind # "SemgrepError" /\ e.code \in {OK, FATAL, TARGET_PARSE_FAILURE}

Errors ==
  /\ \A e \in structured.all : OfCore(e) \/ (raised # NoCode /\ e = Raised(raised))
  /\ structured.all # {} => structured.last \in structured.all
  /\ Raised(raised) \in structured.all => structured.last = Raised(raised)
  /\ raised # NoCode => pc \in {"restore", "remove worktree", "output", "done"}
  /\ pc \in {"restore", "remove worktree"} => raised \in {NoCode, FATAL}

Filtered ==
  pc \in {"fix", "output", "done"} /\ raised = NoCode => filtered = FilterIgnored(matches, KeepIgnored)

Fields == {"rule", "path", "line", "ctx", "ignored", "fix", "index"}

(* A set of finding records; what it has for one piece of code, and the    *)
(* numbers of these.                                                       *)
AreMatches(set) == \A m \in set : DOMAIN m = Fields

Found(set, p, rule, ctx) == {m \in set : m.path = p /\ m.rule = rule /\ m.ctx = ctx}
Indices(set, p, rule, ctx) == {m.index : m \in Found(set, p, rule, ctx)}

(* Git knows the added files and the old names of the renamed ones.        *)
Status ==
  opts.baseline /\ raised = NoCode /\ pc \notin {"config", "handler"} =>
    /\ status.added \cap Files(commits.base) = {}
    /\ \A n \in DOMAIN status.renamed : status.renamed[n] \in Files(commits.base) \ status.added

(* Of the code that the scan of the checkout reports it reports every      *)
(* occurrence, numbered without a gap, and without errors it reports all.  *)
Full(p, rule, ctx) ==
  Indices(matches, p, rule, ctx) = 0 .. (Occurrences(start, p, rule, ctx) - 1)

HeadFound ==
  /\ \A m \in matches : m.rule # JoinRule => Full(m.path, m.rule, m.ctx)
  /\ structured.all = {} =>
       \A p \in HeadTargets \cap Files(start) : \A i \in DOMAIN start[p] :
         start[p][i].rule \in SearchRules => Full(p, start[p][i].rule, start[p][i].ctx)

Compared ==
  /\ pc = "baseline" /\ cwd = "checkout" /\ edits = {} => work = commits.base
  /\ opts.baseline /\ edits = {} /\ raised = NoCode =>
       /\ pc \in {"decide", "strategy", "reset", "add worktree", "chdir", "checkout", "baseline"} => HeadFound
       /\ pc \in {"restore", "remove worktree", "filter", "fix", "output", "done"} => OnlyNew /\ AllNew

IInv ==
  /\ TypeOK /\ Trees /\ Repo /\ Edits /\ Errors /\ Filtered /\ ExitTells
  /\ AreMatches(matches) /\ Status /\ Compared

-----------------------------------------------------------------------------
(* The numbering of findings                                               *)

KeysAreUnique(set) == \A m, n \in set : CiUniqueKey(m) = CiUniqueKey(n) => m = n

(* The earlier arrivals of the same code, whose number is the index.       *)
Copies(arrived, i) == {j \in 1 .. (i - 1) : SameCode(arrived[j], arrived[i])}
Numbered(arrived, i) == [arrived[i] EXCEPT !.index = Cardinality(Copies(arrived, i))]

LEMMA Arrivals ==
  ASSUME NEW set, IsFiniteSet(set), NEW arrived \in SetToSeqs(set)
  PROVE  /\ Cardinality(set) \in Nat /\ arrived \in [1 .. Cardinality(set) -> set]
         /\ \A i, j \in 1 .. Cardinality(set) : arrived[i] = arrived[j] => i = j
         /\ AddAll(arrived) = {Numbered(arrived, i) : i \in 1 .. Cardinality(set)}
<1> DEFINE N == Cardinality(set)
<1>1. N \in Nat
  BY FS_CardinalityType
<1>2. arrived \in [1 .. N -> set] /\ \A i, j \in 1 .. N : arrived[i] = arrived[j] => i = j
  BY DEF SetToSeqs
<1>3. Len(arrived) = N
  BY <1>1, <1>2
<1> QED BY <1>1, <1>2, <1>3 DEF AddAll, Numbered, Copies

LEMMA NumberedFields ==
  ASSUME NEW m, DOMAIN m = Fields, NEW k
  PROVE  LET n == [m EXCEPT !.index = k]
         IN  /\ DOMAIN n = Fields /\ n.index = k
             /\ n.rule = m.rule /\ n.path = m.path /\ n.ctx = m.ctx
BY DEF Fields

LEMMA CopiesGrow ==
  ASSUME NEW n \in Nat, NEW arrived, NEW i \in 1 .. n
  PROVE  /\ IsFiniteSet(Copies(arrived, i)) /\ Cardinality(Copies(arrived, i)) \in Nat
         /\ \A set : IsFiniteSet(set) /\ Copies(arrived, i) \subseteq set /\ i \in set =>
              Cardinality(Copies(arrived, i)) < Cardinality(set)
         /\ \A j \in 1 .. n : i < j /\ SameCode(arrived[i], arrived[j]) =>
              Cardinality(Copies(arrived, i)) < Cardinality(Copies(arrived, j))
<1>1. \A j \in 1 .. n : IsFiniteSet(Copies(arrived, j))
  <2> SUFFICES ASSUME NEW j \in 1 .. n PROVE IsFiniteSet(Copies(arrived, j))
    OBVIOUS
  <2>1. IsFiniteSet(1 .. (j - 1))
    BY FS_Interval
  <2> QED BY <2>1, FS_Subset DEF Copies
<1>2. i \notin Copies(arrived, i)
  BY DEF Copies
<1>3. \A j \in 1 .. n : i < j /\ SameCode(arrived[i], arrived[j]) =>
        Copies(arrived, i) \subseteq Copies(arrived, j) /\ i \in Copies(arrived, j)
  BY DEF SameCode, Copies
<1>4. ASSUME NEW set, IsFiniteSet(set), Copies(arrived, i) \subseteq set, i \in set
      PROVE  Cardinality(Copies(arrived, i)) < Cardinality(set)
  <2>1. /\ Cardinality(Copies(arrived, i) \cup {i}) = Cardinality(Copies(arrived, i)) + 1
        /\ Cardinality(Copies(arrived, i)) \in Nat /\ Cardinality(set) \in Nat
    BY <1>1, <1>2, <1>4, FS_AddElement, FS_CardinalityType
  <2>2. Copies(arrived, i) \cup {i} \subseteq set
    BY <1>4
  <2>3. Cardinality(Copies(arrived, i) \cup {i}) <= Cardinality(set)
    BY <1>4, <2>2, FS_Subset
  <2> QED BY <2>1, <2>3
<1> QED BY <1>1, <1>3, <1>4, FS_CardinalityType

(* Findings that arrive in any order, each once, get keys of their own.    *)
LEMMA AddAllKeys ==
  ASSUME NEW set, IsFiniteSet(set), AreMatches(set), NEW arrived \in SetToSeqs(set)
  PROVE  /\ KeysAreUnique(AddAll(arrived)) /\ AreMatches(AddAll(arrived))
         /\ \A m \in AddAll(arrived) : \E n \in set : m.rule = n.rule /\ m.path = n.path /\ m.ctx = n.ctx
<1> DEFINE N == Cardinality(set)
<1>1. /\ N \in Nat /\ arrived \in [1 .. N -> set]
      /\ AddAll(arrived) = {Numbered(arrived, i) : i \in 1 .. N}
  BY Arrivals
<1>2. ASSUME NEW i \in 1 .. N
      PROVE  /\ arrived[i] \in set /\ DOMAIN Numbered(arrived, i) = Fields
             /\ Numbered(arrived, i).index = Cardinality(Copies(arrived, i))
             /\ Numbered(arrived, i).rule = arrived[i].rule
             /\ Numbered(arrived, i).path = arrived[i].path
             /\ Numbered(arrived, i).ctx = arrived[i].ctx
  <2>1. arrived[i] \in set /\ DOMAIN arrived[i] = Fields
    BY <1>1 DEF AreMatches
  <2> QED BY <2>1, NumberedFields DEF Numbered
<1> HIDE DEF N
<1>3. KeysAreUnique(AddAll(arrived))
  <2> SUFFICES ASSUME NEW i \in 1 .. N, NEW j \in 1 .. N,
                      CiUniqueKey(Numbered(arrived, i)) = CiUniqueKey(Numbered(arrived, j))
               PROVE  i = j
    BY <1>1 DEF KeysAreUnique
  <2>1. SameCode(arrived[i], arrived[j]) /\ SameCode(arrived[j], arrived[i])
        /\ Cardinality(Copies(arrived, i)) = Cardinality(Copies(arrived, j))
    BY <1>2 DEF CiUniqueKey, SameCode
  <2>2. Cardinality(Copies(arrived, i)) \in Nat /\ Cardinality(Copies(arrived, j)) \in Nat
    BY <1>1, CopiesGrow
  <2>3. ~(i < j) /\ ~(j < i)
    BY <1>1, <2>1, <2>2, CopiesGrow
  <2> QED BY <1>1, <2>3
<1>4. AreMatches(AddAll(arrived))
  BY <1>1, <1>2 DEF AreMatches
<1>5. \A m \in AddAll(arrived) : \E n \in set : m.rule = n.rule /\ m.path = n.path /\ m.ctx = n.ctx
  BY <1>1, <1>2
<1> QED BY <1>3, <1>4, <1>5

(* As many as there are, the copies are numbered from 0 without a gap.     *)
LEMMA NumbersHaveNoGap ==
  ASSUME NEW set, IsFiniteSet(set), AreMatches(set), NEW arrived \in SetToSeqs(set),
         NEW p, NEW rule, NEW ctx
  PROVE  /\ Cardinality(Found(set, p, rule, ctx)) \in Nat
         /\ Indices(AddAll(arrived), p, rule, ctx) = 0 .. (Cardinality(Found(set, p, rule, ctx)) - 1)
<1> DEFINE N == Cardinality(set)
           found == Found(set, p, rule, ctx)
           n == Cardinality(found)
           at == {i \in 1 .. N : arrived[i] \in found}
           number == [i \in at |-> Cardinality(Copies(arrived, i))]
<1>1. /\ N \in Nat /\ arrived \in [1 .. N -> set]
      /\ \A i, j \in 1 .. N : arrived[i] = arrived[j] => i = j
      /\ AddAll(arrived) = {Numbered(arrived, i) : i \in 1 .. N}
  BY Arrivals
<1>2. IsFiniteSet(found) /\ n \in Nat
  BY FS_Subset, FS_CardinalityType DEF Found
<1>3. arrived \in Surjection(1 .. N, set)
  <2>1. arrived \in Injection(1 .. N, set)
    BY <1>1 DEF Injection, IsInjective
  <2>2. Cardinality(1 .. N) = N
    BY <1>1, FS_Interval
  <2> QED BY <2>1, <2>2, FS_Injection
<1>4. IsFiniteSet(at) /\ Cardinality(at) = n
  <2> DEFINE f == [i \in at |-> arrived[i]]
  <2>1. f \in Injection(at, found)
    BY <1>1 DEF Injection, IsInjective
  <2>2. f \in Surjection(at, found)
    BY <1>3 DEF Surjection, Found
  <2> HIDE DEF f, at, found
  <2> QED BY <1>2, <2>1, <2>2, FS_Injection
<1>5. \A i \in at : /\ i \in 1 .. N /\ arrived[i].path = p /\ arrived[i].rule = rule /\ arrived[i].ctx = ctx
  BY DEF Found
<1>6. \A i \in at, j \in 1 .. N : SameCode(arrived[j], arrived[i]) => j \in at
  BY <1>1, <1>5 DEF SameCode, Found
<1>7. \A i, j \in at : SameCode(arrived[i], arrived[j])
  BY <1>5 DEF SameCode
<1> HIDE DEF N, found, n
<1>8. \A i \in at : Copies(arrived, i) \subseteq at
  BY <1>1, <1>5, <1>6 DEF Copies
<1> HIDE DEF at
<1>9. \A i \in at : Cardinality(Copies(arrived, i)) \in 0 .. (n - 1)
  BY <1>1, <1>2, <1>4, <1>5, <1>8, CopiesGrow
<1>10. \A i, j \in at : Cardinality(Copies(arrived, i)) = Cardinality(Copies(arrived, j)) => i = j
  <2> SUFFICES ASSUME NEW i \in at, NEW j \in at,
                      Cardinality(Copies(arrived, i)) = Cardinality(Copies(arrived, j))
               PROVE  i = j
    OBVIOUS
  <2>1. Cardinality(Copies(arrived, i)) \in Nat /\ Cardinality(Copies(arrived, j)) \in Nat
    BY <1>1, <1>5, CopiesGrow
  <2>2. /\ i \in 1 .. N /\ j \in 1 .. N
        /\ SameCode(arrived[i], arrived[j]) /\ SameCode(arrived[j], arrived[i])
    BY <1>5, <1>7
  <2>3. ~(i < j) /\ ~(j < i)
    BY <1>1, <2>1, <2>2, CopiesGrow
  <2> QED BY <1>1, <2>2, <2>3
<1>11. number \in Injection(at, 0 .. (n - 1))
  BY <1>9, <1>10 DEF Injection, IsInjective
<1>12. IsFiniteSet(0 .. (n - 1)) /\ Cardinality(0 .. (n - 1)) = n
  BY <1>2, FS_Interval
<1>13. number \in Surjection(at, 0 .. (n - 1))
  <2> HIDE DEF number
  <2> QED BY <1>4, <1>11, <1>12, FS_Injection
<1>14. {Cardinality(Copies(arrived, i)) : i \in at} = 0 .. (n - 1)
  BY <1>9, <1>13 DEF Surjection
<1>15. Indices(AddAll(arrived), p, rule, ctx) = {Cardinality(Copies(arrived, i)) : i \in at}
  <2>1. ASSUME NEW i \in 1 .. N
        PROVE  /\ arrived[i] \in set
               /\ Numbered(arrived, i).index = Cardinality(Copies(arrived, i))
               /\ Numbered(arrived, i).rule = arrived[i].rule
               /\ Numbered(arrived, i).path = arrived[i].path
               /\ Numbered(arrived, i).ctx = arrived[i].ctx
    <3>1. arrived[i] \in set /\ DOMAIN arrived[i] = Fields
      BY <1>1 DEF AreMatches
    <3> QED BY <3>1, NumberedFields DEF Numbered
  <2>2. Found(AddAll(arrived), p, rule, ctx) = {Numbered(arrived, i) : i \in at}
    BY <1>1, <2>1 DEF Found, at, found
  <2> QED BY <1>5, <2>1, <2>2 DEF Indices
<1> QED BY <1>2, <1>14, <1>15 DEF n, found

LEMMA FileIsFinite ==
  ASSUME NEW tree, IsTree(tree), NEW p \in Files(tree)
  PROVE  IsFiniteSet(DOMAIN tree[p])
<1>1. tree[p] \in Seq(Lines)
  BY DEF IsTree, Files
<1>2. DOMAIN tree[p] = 1 .. Len(tree[p]) /\ Len(tree[p]) \in Nat
  BY <1>1
<1> QED BY <1>2, FS_Interval

LEMMA LinesAreFinite ==
  ASSUME NEW tree, IsTree(tree), NEW targets
  PROVE  IsFiniteSet(LinesOf(tree, targets))
<1> DEFINE Of(p) == {<<p, i>> : i \in DOMAIN tree[p]}
           Paths == targets \cap Files(tree)
<1>1. IsFiniteSet(Paths)
  BY FS_Intersection DEF IsTree
<1>2. ASSUME NEW p \in Paths
      PROVE  IsFiniteSet(Of(p))
  <2>3. IsFiniteSet(DOMAIN tree[p])
    BY FileIsFinite
  <2>4. Of(p) \subseteq {p} \X DOMAIN tree[p]
    OBVIOUS
  <2>5. IsFiniteSet({p} \X DOMAIN tree[p])
    BY <2>3, FS_Singleton, FS_Product
  <2> QED BY <2>4, <2>5, FS_Subset
<1>3. IsFiniteSet({Of(p) : p \in Paths})
  <2>1. [p \in Paths |-> Of(p)] \in Surjection(Paths, {Of(p) : p \in Paths})
    BY DEF Surjection
  <2> QED BY <1>1, <2>1, FS_Surjection
<1>4. IsFiniteSet(UNION {Of(p) : p \in Paths})
  <2>1. \A set \in {Of(p) : p \in Paths} : IsFiniteSet(set)
    BY <1>2
  <2> HIDE DEF Of, Paths
  <2> QED BY <1>3, <2>1, FS_UNION
<1> QED BY <1>4 DEF LinesOf

LEMMA CoreFindings ==
  ASSUME NEW tree, IsTree(tree), NEW targets, NEW rules, NEW errors
  PROVE  LET found == CoreMatches(tree, targets, rules, errors)
         IN  IsFiniteSet(found) /\ AreMatches(found) /\ \A m \in found : m.rule \in rules
<1> DEFINE some == {k \in LinesOf(tree, targets) :
                      /\ tree[k[1]][k[2]].rule \in rules
                      /\ k[1] \notin FileWidePaths(errors)
                      /\ <<k[1], tree[k[1]][k[2]].rule>> \notin RuleScopedPaths(errors)}
           Of(l) == Match(tree[l[1]][l[2]].rule, l[1], l[2], tree[l[1]][l[2]])
<1>1. CoreMatches(tree, targets, rules, errors) = {Of(l) : l \in some}
  BY DEF CoreMatches
<1>2. IsFiniteSet(some)
  BY LinesAreFinite, FS_Subset
<1>3. \A l \in some : DOMAIN Of(l) = Fields /\ Of(l).rule \in rules
  BY DEF Match, Fields
<1> HIDE DEF some, Of
<1>4. [l \in some |-> Of(l)] \in Surjection(some, {Of(l) : l \in some})
  BY DEF Surjection
<1> QED BY <1>1, <1>2, <1>3, <1>4, FS_Surjection DEF AreMatches

LEMMA JoinFindings ==
  ASSUME NEW tree, IsTree(tree), NEW roots
  PROVE  LET found == JoinMatches(tree, roots)
         IN  IsFiniteSet(found) /\ AreMatches(found) /\ \A m \in found : m.rule = JoinRule
<1> DEFINE some == MatchOnConditions(tree, Collection(tree, roots, JoinLeft), Collection(tree, roots, JoinRight))
<1>1. JoinMatches(tree, roots) = {JsonToRuleMatch(tree, r) : r \in some}
  BY DEF JoinMatches
<1>2. IsFiniteSet(some)
  <2>1. some \subseteq LinesOf(tree, roots)
    BY DEF MatchOnConditions, Collection
  <2> QED BY <2>1, LinesAreFinite, FS_Subset
<1>3. \A l : DOMAIN JsonToRuleMatch(tree, l) = Fields /\ JsonToRuleMatch(tree, l).rule = JoinRule
  BY DEF JsonToRuleMatch, Match, Fields
<1> HIDE DEF some
<1>4. [l \in some |-> JsonToRuleMatch(tree, l)] \in Surjection(some, {JsonToRuleMatch(tree, l) : l \in some})
  BY DEF Surjection
<1> QED BY <1>1, <1>2, <1>3, <1>4, FS_Surjection DEF AreMatches

(* Whether semgrep-core ran the rule on the file and could say so.         *)
Scanned(tree, targets, rules, errors, p, rule) ==
  /\ p \in targets \cap Files(tree) /\ rule \in rules
  /\ p \notin FileWidePaths(errors) /\ <<p, rule>> \notin RuleScopedPaths(errors)

(* semgrep-core finds every line of the rule, once.                        *)
LEMMA CoreCounts ==
  ASSUME NEW tree, IsTree(tree), NEW targets, NEW rules, NEW errors, NEW p, NEW rule, NEW ctx
  PROVE  Cardinality(Found(CoreMatches(tree, targets, rules, errors), p, rule, ctx))
           = IF Scanned(tree, targets, rules, errors, p, rule) THEN Occurrences(tree, p, rule, ctx) ELSE 0
<1> DEFINE core == CoreMatches(tree, targets, rules, errors)
           found == Found(core, p, rule, ctx)
           at == {i \in DOMAIN tree[p] : tree[p][i].rule = rule /\ tree[p][i].ctx = ctx}
           f == [i \in at |-> Match(rule, p, i, tree[p][i])]
<1>1. core = {Match(tree[l[1]][l[2]].rule, l[1], l[2], tree[l[1]][l[2]]) :
                l \in {k \in LinesOf(tree, targets) :
                         Scanned(tree, targets, rules, errors, k[1], tree[k[1]][k[2]].rule)}}
  <2>1. \A k \in LinesOf(tree, targets) : k[1] \in targets \cap Files(tree)
    BY DEF LinesOf
  <2> QED BY <2>1 DEF CoreMatches, Scanned
<1>2. \A r, q, i, l : /\ Match(r, q, i, l).rule = r /\ Match(r, q, i, l).path = q
                      /\ Match(r, q, i, l).line = i /\ Match(r, q, i, l).ctx = l.ctx
  BY DEF Match
<1>3. CASE ~Scanned(tree, targets, rules, errors, p, rule)
  <2>1. found = {}
    BY <1>1, <1>2, <1>3 DEF Found
  <2> QED BY <1>3, <2>1, FS_EmptySet
<1>4. CASE Scanned(tree, targets, rules, errors, p, rule)
  <2>1. p \in targets \cap Files(tree)
    BY <1>4 DEF Scanned
  <2>2. IsFiniteSet(at)
    <3>1. IsFiniteSet(DOMAIN tree[p])
      BY <2>1, FileIsFinite
    <3> QED BY <3>1, FS_Subset
  <2>3. \A l : l \in LinesOf(tree, targets) <=>
          \E q \in targets \cap Files(tree) : \E i \in DOMAIN tree[q] : l = <<q, i>>
    BY DEF LinesOf
  <2>4. \A i \in at : f[i] \in found
    <3> SUFFICES ASSUME NEW i \in at PROVE Match(rule, p, i, tree[p][i]) \in found
      OBVIOUS
    <3> DEFINE l == <<p, i>>
    <3>1. l \in LinesOf(tree, targets) /\ tree[p][i].rule = rule /\ tree[p][i].ctx = ctx
      BY <2>1, <2>3
    <3>2. Match(rule, p, i, tree[p][i]) \in core
      BY <1>1, <1>4, <3>1
    <3> QED BY <1>2, <3>1, <3>2 DEF Found
  <2>5. \A m \in found : \E i \in at : f[i] = m
    <3> SUFFICES ASSUME NEW m \in found PROVE \E i \in at : f[i] = m
      OBVIOUS
    <3>1. m \in core /\ m.path = p /\ m.rule = rule /\ m.ctx = ctx
      BY DEF Found
    <3>2. PICK l \in LinesOf(tree, targets) : m = Match(tree[l[1]][l[2]].rule, l[1], l[2], tree[l[1]][l[2]])
      BY <1>1, <3>1
    <3>3. PICK q \in targets \cap Files(tree) : \E i \in DOMAIN tree[q] : l = <<q, i>>
      BY <2>3
    <3>4. PICK i \in DOMAIN tree[q] : l = <<q, i>>
      BY <3>3
    <3>5. m = Match(tree[q][i].rule, q, i, tree[q][i])
      BY <3>2, <3>4
    <3>6. q = p /\ tree[q][i].rule = rule /\ tree[q][i].ctx = ctx
      BY <1>2, <3>1, <3>5
    <3> QED BY <3>4, <3>5, <3>6
  <2>6. \A i, j \in at : f[i] = f[j] => i = j
    BY <1>2
  <2>7. f \in [at -> found]
    BY <2>4
  <2> HIDE DEF f, at, found
  <2>8. f \in Injection(at, found)
    <3>1. DOMAIN f = at
      BY <2>7
    <3> QED BY <2>6, <2>7, <3>1 DEF Injection, IsInjective
  <2>9. f \in Surjection(at, found)
    BY <2>5, <2>7 DEF Surjection
  <2>10. Cardinality(found) = Cardinality(at)
    BY <2>2, <2>8, <2>9, FS_Surjection
  <2> QED BY <1>4, <2>1, <2>10 DEF Occurrences, at, found
<1> QED BY <1>3, <1>4

LEMMA OccurrencesType ==
  ASSUME NEW tree, IsTree(tree), NEW p, NEW rule, NEW ctx
  PROVE  Occurrences(tree, p, rule, ctx) \in Nat
<1>1. CASE p \in Files(tree)
  <2>1. IsFiniteSet({i \in DOMAIN tree[p] : tree[p][i].rule = rule /\ tree[p][i].ctx = ctx})
    BY <1>1, FileIsFinite, FS_Subset
  <2> QED BY <1>1, <2>1, FS_CardinalityType DEF Occurrences
<1>2. CASE p \notin Files(tree)
  BY <1>2 DEF Occurrences
<1> QED BY <1>1, <1>2

LEMMA RunParts ==
  ASSUME NEW tree, NEW targets, NEW roots, NEW rules, NEW errors,
         NEW found \in RunRules(tree, targets, roots, rules, errors)
  PROVE  \E a \in SetToSeqs(CoreMatches(tree, targets, rules \ ({JoinRule} \cup Unparsed(errors)), errors)),
            j \in SetToSeqs(IF JoinRule \in rules /\ opts.join = "valid" THEN JoinMatches(tree, roots) ELSE {}) :
           found = AddAll(a) \cup AddAll(j)
BY DEF RunRules

(* A run of the rules numbers the copies of a piece of code from 0.        *)
LEMMA RunNumbers ==
  ASSUME NEW tree, IsTree(tree), NEW targets, NEW roots, NEW rules, NEW errors,
         NEW found \in RunRules(tree, targets, roots, rules, errors),
         NEW p, NEW rule, rule # JoinRule, NEW ctx
  PROVE  /\ Occurrences(tree, p, rule, ctx) \in Nat
         /\ Indices(found, p, rule, ctx)
              = IF Scanned(tree, targets, rules \ Unparsed(errors), errors, p, rule)
                THEN 0 .. (Occurrences(tree, p, rule, ctx) - 1) ELSE {}
<1> DEFINE parsed == rules \ Unparsed(errors)
           core == CoreMatches(tree, targets, rules \ ({JoinRule} \cup Unparsed(errors)), errors)
           joined == IF JoinRule \in rules /\ opts.join = "valid" THEN JoinMatches(tree, roots) ELSE {}
<1>1. PICK a \in SetToSeqs(core), j \in SetToSeqs(joined) : found = AddAll(a) \cup AddAll(j)
  BY RunParts
<1>2. IsFiniteSet(core) /\ AreMatches(core)
  BY CoreFindings
<1>3. IsFiniteSet(joined) /\ AreMatches(joined) /\ \A m \in joined : m.rule = JoinRule
  BY JoinFindings, FS_EmptySet DEF AreMatches
<1>4. Cardinality(Found(core, p, rule, ctx))
        = IF Scanned(tree, targets, parsed, errors, p, rule) THEN Occurrences(tree, p, rule, ctx) ELSE 0
  <2>1. Scanned(tree, targets, rules \ ({JoinRule} \cup Unparsed(errors)), errors, p, rule)
          <=> Scanned(tree, targets, parsed, errors, p, rule)
    BY DEF Scanned
  <2> QED BY <2>1, CoreCounts
<1> HIDE DEF core, joined
<1>5. \A m \in AddAll(j) : m.rule # rule
  BY <1>3, AddAllKeys
<1>6. Indices(found, p, rule, ctx) = Indices(AddAll(a), p, rule, ctx)
  <2>1. Found(found, p, rule, ctx) = Found(AddAll(a), p, rule, ctx)
    BY <1>1, <1>5 DEF Found
  <2> QED BY <2>1 DEF Indices
<1>7. Indices(found, p, rule, ctx) = 0 .. (Cardinality(Found(core, p, rule, ctx)) - 1)
  BY <1>2, <1>6, NumbersHaveNoGap
<1>8. Occurrences(tree, p, rule, ctx) \in Nat
  BY OccurrencesType
<1>9. 0 .. (0 - 1) = {}
  OBVIOUS
<1> QED BY <1>4, <1>7, <1>8, <1>9

(* Findings with keys of their own are as many as their numbers.           *)
LEMMA KeysCount ==
  ASSUME NEW set, KeysAreUnique(set), NEW p, NEW rule, NEW ctx, IsFiniteSet(Indices(set, p, rule, ctx))
  PROVE  Cardinality(Found(set, p, rule, ctx)) = Cardinality(Indices(set, p, rule, ctx))
<1> DEFINE found == Found(set, p, rule, ctx)
           f == [m \in found |-> m.index]
<1>1. \A m, n \in found : m.index = n.index => m = n
  BY DEF Found, KeysAreUnique, CiUniqueKey
<1>2. f \in Injection(found, Indices(set, p, rule, ctx))
  BY <1>1 DEF Injection, IsInjective, Indices
<1>3. f \in Surjection(found, Indices(set, p, rule, ctx))
  BY DEF Surjection, Indices
<1> HIDE DEF f, found
<1> QED BY <1>2, <1>3, FS_Injection DEF found

(* What is left of n numbers when k of them are taken away.                *)
LEMMA Remainder ==
  ASSUME NEW n \in Nat, NEW k \in Nat
  PROVE  LET left == (0 .. (n - 1)) \ (0 .. (k - 1))
         IN  IsFiniteSet(left) /\ Cardinality(left) = IF k >= n THEN 0 ELSE n - k
<1>1. (0 .. (n - 1)) \ (0 .. (k - 1)) = k .. (n - 1)
  OBVIOUS
<1>2. n - 1 \in Int
  OBVIOUS
<1>3. IsFiniteSet(k .. (n - 1)) /\ Cardinality(k .. (n - 1)) = IF k > n - 1 THEN 0 ELSE (n - 1) - k + 1
  BY <1>2, FS_Interval
<1>4. (IF k > n - 1 THEN 0 ELSE (n - 1) - k + 1) = (IF k >= n THEN 0 ELSE n - k)
  OBVIOUS
<1> QED BY <1>1, <1>3, <1>4

(* Findings of search rules and of the join rule have different keys.      *)
LEMMA RunKeys ==
  ASSUME NEW tree, IsTree(tree), NEW targets, NEW roots, NEW rules, NEW errors,
         NEW found \in RunRules(tree, targets, roots, rules, errors)
  PROVE  KeysAreUnique(found) /\ AreMatches(found)
<1> DEFINE core == CoreMatches(tree, targets, rules \ ({JoinRule} \cup Unparsed(errors)), errors)
           joined == IF JoinRule \in rules /\ opts.join = "valid" THEN JoinMatches(tree, roots) ELSE {}
<1>1. PICK a \in SetToSeqs(core), j \in SetToSeqs(joined) : found = AddAll(a) \cup AddAll(j)
  BY RunParts
<1>2. IsFiniteSet(core) /\ AreMatches(core) /\ \A m \in core : m.rule # JoinRule
  BY CoreFindings
<1>3. IsFiniteSet(joined) /\ AreMatches(joined) /\ \A m \in joined : m.rule = JoinRule
  BY JoinFindings, FS_EmptySet DEF AreMatches
<1> HIDE DEF core, joined
<1>4. KeysAreUnique(AddAll(a)) /\ AreMatches(AddAll(a)) /\ \A m \in AddAll(a) : m.rule # JoinRule
  BY <1>2, AddAllKeys
<1>5. KeysAreUnique(AddAll(j)) /\ AreMatches(AddAll(j)) /\ \A m \in AddAll(j) : m.rule = JoinRule
  BY <1>3, AddAllKeys
<1>6. \A m, n : CiUniqueKey(m) = CiUniqueKey(n) => m.rule = n.rule
  BY DEF CiUniqueKey
<1> QED BY <1>1, <1>4, <1>5, <1>6 DEF KeysAreUnique, AreMatches

-----------------------------------------------------------------------------
(* The errors                                                              *)

LEMMA Greatest ==
  ASSUME NEW n \in Nat, NEW set \in SUBSET (1 .. n), set # {}
  PROVE  \E i \in set : \A j \in set : j <= i
<1> DEFINE left == {n - i : i \in set}
<1>1. left \subseteq Nat /\ left # {}
  <2>1. \A i \in set : i \in 1 .. n
    OBVIOUS
  <2>2. \A i \in 1 .. n : n - i \in Nat
    OBVIOUS
  <2> QED BY <2>1, <2>2
<1> HIDE DEF left
<1>2. PICK k \in left : \A i \in left : <<i, k>> \notin OpToRel(<, Nat)
  BY <1>1, NatLessThanWellFounded, WFMin
<1>3. \A i \in left : ~(i < k)
  BY <1>1, <1>2 DEF OpToRel
<1>4. PICK i \in set : k = n - i
  BY <1>2 DEF left
<1>5. \A j \in set : ~(n - j < n - i)
  BY <1>3, <1>4 DEF left
<1>6. \A j \in set : j <= i
  BY <1>5
<1> QED BY <1>6

LEMMA ReportedErrors ==
  ASSUME NEW structured0, NEW set, NEW errors \in Seq(set),
         structured0.all # {} => structured0.last \in structured0.all
  PROVE  LET after == HandleErrors(structured0, errors)
         IN  /\ after.all = structured0.all \cup ToSet(errors)
             /\ after.all # {} => after.last \in after.all
<1> DEFINE Listed == {i \in DOMAIN errors :
                        /\ errors[i] \notin structured0.all
                        /\ \A j \in DOMAIN errors : errors[j] = errors[i] => i <= j}
           after == HandleErrors(structured0, errors)
<1>1. /\ after.all = structured0.all \cup ToSet(errors)
      /\ after.last = IF Listed = {} THEN structured0.last
                      ELSE errors[CHOOSE i \in Listed : \A j \in Listed : j <= i]
  BY DEF HandleErrors
<1>2. DOMAIN errors = 1 .. Len(errors) /\ Len(errors) \in Nat
  OBVIOUS
<1>3. CASE Listed # {}
  <2>1. Listed \subseteq 1 .. Len(errors)
    BY <1>2
  <2> HIDE DEF Listed
  <2>2. \E i \in Listed : \A j \in Listed : j <= i
    BY <1>2, <1>3, <2>1, Greatest
  <2>3. (CHOOSE i \in Listed : \A j \in Listed : j <= i) \in DOMAIN errors
    BY <1>2, <2>1, <2>2
  <2>4. after.last \in ToSet(errors)
    BY <1>1, <1>3, <2>3 DEF ToSet
  <2> QED BY <1>1, <2>4
<1>4. CASE Listed = {}
  <2>1. CASE structured0.all # {}
    BY <1>1, <1>4, <2>1
  <2>2. CASE structured0.all = {}
    <3>1. ASSUME DOMAIN errors # {} PROVE FALSE
      <4> DEFINE left == DOMAIN errors
      <4>1. left \subseteq Nat /\ left # {}
        BY <1>2, <3>1
      <4>2. PICK k \in left : \A i \in left : <<i, k>> \notin OpToRel(<, Nat)
        BY <4>1, NatLessThanWellFounded, WFMin
      <4>3. \A i \in left : i \in Nat /\ ~(i < k)
        BY <4>1, <4>2 DEF OpToRel
      <4>4. k \in Nat /\ \A i \in left : k <= i
        BY <4>1, <4>3
      <4>5. k \in Listed
        BY <2>2, <4>2, <4>4
      <4> QED BY <1>4, <4>5
    <3>2. ToSet(errors) = {}
      BY <3>1 DEF ToSet
    <3> QED BY <1>1, <2>2, <3>2
  <2> QED BY <2>1, <2>2
<1> QED BY <1>1, <1>3, <1>4

(* One error: it is the last one, unless it was there.                     *)
LEMMA OneError ==
  ASSUME NEW structured0, NEW e
  PROVE  LET after == HandleErrors(structured0, <<e>>)
         IN  /\ after.all = structured0.all \cup {e}
             /\ after.last = IF e \in structured0.all THEN structured0.last ELSE e
<1> DEFINE Listed == {i \in DOMAIN <<e>> :
                        /\ <<e>>[i] \notin structured0.all
                        /\ \A j \in DOMAIN <<e>> : <<e>>[j] = <<e>>[i] => i <= j}
           after == HandleErrors(structured0, <<e>>)
<1>1. DOMAIN <<e>> = {1} /\ <<e>>[1] = e
  OBVIOUS
<1>2. ToSet(<<e>>) = {e}
  BY <1>1 DEF ToSet
<1>3. Listed = IF e \in structured0.all THEN {} ELSE {1}
  BY <1>1
<1>4. /\ after.all = structured0.all \cup ToSet(<<e>>)
      /\ after.last = IF Listed = {} THEN structured0.last
                      ELSE <<e>>[CHOOSE i \in Listed : \A j \in Listed : j <= i]
  BY DEF HandleErrors
<1> HIDE DEF Listed
<1>5. CASE e \in structured0.all
  BY <1>2, <1>3, <1>4, <1>5
<1>6. CASE e \notin structured0.all
  <2>1. (CHOOSE i \in Listed : \A j \in Listed : j <= i) = 1
    BY <1>3, <1>6
  <2> QED BY <1>1, <1>2, <1>3, <1>4, <1>6, <2>1
<1> QED BY <1>5, <1>6

(* What semgrep-core reports becomes errors of its kinds.                  *)
LEMMA CoreReports ==
  ASSUME NEW failures \in Failures
  PROVE  LET errors == [i \in DOMAIN failures |-> CoreErrorToSemgrepError(failures[i])]
         IN  errors \in Seq(ToSet(errors)) /\ \A e \in ToSet(errors) : OfCore(e)
<1> DEFINE errors == [i \in DOMAIN failures |-> CoreErrorToSemgrepError(failures[i])]
<1>1. failures \in Seq(CoreErrors)
  BY ScanAssumption
<1>2. DOMAIN failures = 1 .. Len(failures) /\ Len(failures) \in Nat
  BY <1>1
<1>3. ASSUME NEW i \in DOMAIN failures
      PROVE  OfCore(CoreErrorToSemgrepError(failures[i]))
  <2>1. DOMAIN failures[i] = {"kind", "level", "rule", "path", "code"} /\ failures[i].kind # "SemgrepError"
    BY <1>1 DEF CoreErrors
  <2> QED BY <2>1 DEF OfCore, CoreErrorToSemgrepError, OK, FATAL, TARGET_PARSE_FAILURE
<1>4. \A e \in ToSet(errors) : OfCore(e)
  BY <1>3 DEF ToSet
<1>5. errors \in [1 .. Len(failures) -> ToSet(errors)]
  BY <1>2 DEF ToSet
<1>6. errors \in Seq(ToSet(errors))
  <2> HIDE DEF errors
  <2> QED BY <1>2, <1>5
<1> QED BY <1>4, <1>6

(* A rule that could be parsed for semgrep-core counts as parsed.          *)
LEMMA KindsStay ==
  ASSUME NEW failures \in Failures, Unparsed(failures) = {}
  PROVE  Unparsed([i \in DOMAIN failures |-> CoreErrorToSemgrepError(failures[i])]) = {}
<1> DEFINE errors == [i \in DOMAIN failures |-> CoreErrorToSemgrepError(failures[i])]
<1>1. failures \in Seq(CoreErrors)
  BY ScanAssumption
<1>2. ASSUME NEW i \in DOMAIN failures
      PROVE  CoreErrorToSemgrepError(failures[i]).kind # "RuleParseError"
  <2>1. DOMAIN failures[i] = {"kind", "level", "rule", "path", "code"}
    BY <1>1 DEF CoreErrors
  <2>2. failures[i].kind # "RuleParseError"
    BY DEF Unparsed, ToSet
  <2> QED BY <2>1, <2>2 DEF CoreErrorToSemgrepError
<1>3. \A e \in ToSet(errors) : e.kind # "RuleParseError"
  BY <1>2 DEF ToSet
<1> HIDE DEF errors
<1>4. Unparsed(errors) = {}
  BY <1>3 DEF Unparsed
<1> QED BY <1>4 DEF errors

(* So does the join rule.                                                  *)
LEMMA JoinReports ==
  JoinErrors \in Seq(ToSet(JoinErrors)) /\ \A e \in ToSet(JoinErrors) : OfCore(e)
<1> DEFINE e == [Raised(FATAL) EXCEPT !.kind = "InvalidConditionError"]
<1>1. OfCore(e)
  BY DEF OfCore, Raised, FATAL, OK, TARGET_PARSE_FAILURE
<1>2. CASE opts.join = "valid"
  BY <1>2 DEF JoinErrors, ToSet
<1>3. CASE opts.join # "valid"
  <2>1. JoinErrors = <<e>>
    BY <1>3 DEF JoinErrors
  <2> HIDE DEF e
  <2>2. DOMAIN <<e>> = {1} /\ <<e>>[1] = e
    OBVIOUS
  <2>3. ToSet(<<e>>) = {e}
    BY <2>2 DEF ToSet
  <2> QED BY <1>1, <2>1, <2>3
<1> QED BY <1>2, <1>3

LEMMA RaisedCodes ==
  \A c : /\ Raised(c).kind = "SemgrepError" /\ Raised(c).code = c /\ Raised(c).level = "error"
         /\ ~OfCore(Raised(c))
         /\ \A d : Raised(c) = Raised(d) => c = d
BY DEF Raised, OfCore

-----------------------------------------------------------------------------
(* The steps                                                               *)

LEMMA StartWithNothing == IsTree(start) => StartWith({}) = start
BY DEF IsTree, StartWith, Files

(* An edit is lost, or the user should have it.                            *)
LEMMA EditKept ==
  ASSUME IInv, NEW p \in Files(work), Edit(p)
  PROVE  IF Resetting THEN Wanted' = Wanted ELSE work = Wanted => work' = Wanted'
<1>1. /\ p \notin edits /\ edits' = edits \cup {p} /\ start' = start
      /\ work' = [work EXCEPT ![p] = Append(@, EditLine)]
      /\ lost' = IF Resetting THEN lost \cup {p} ELSE lost
  BY DEF Edit
<1>2. lost \subseteq edits
  BY DEF IInv, Edits
<1>3. CASE Resetting
  <2>1. edits' \ lost' = edits \ lost
    BY <1>1, <1>2, <1>3
  <2> QED BY <1>1, <1>3, <2>1 DEF Wanted, StartWith, Files
<1>4. ASSUME ~Resetting, work = Wanted
      PROVE  work' = Wanted'
  <2> DEFINE kept == edits \ lost
  <2>1. edits' \ lost' = kept \cup {p} /\ p \notin kept
    BY <1>1, <1>2, <1>4
  <2>2. work = [q \in DOMAIN start |-> IF q \in kept THEN Append(start[q], EditLine) ELSE start[q]]
    BY <1>4 DEF Wanted, StartWith, Files
  <2>3. Wanted' = [q \in DOMAIN start |-> IF q \in kept \cup {p} THEN Append(start[q], EditLine) ELSE start[q]]
    BY <1>1, <2>1 DEF Wanted, StartWith, Files
  <2> HIDE DEF kept
  <2>4. work[p] = start[p]
    BY <2>1, <2>2 DEF Files
  <2> QED BY <1>1, <2>1, <2>2, <2>3, <2>4
<1> QED BY <1>3, <1>4

(* The checkout is as it is said to be at each point.                      *)
LEMMA RepoStep == IInv /\ [Next]_vars => Repo'
<1> SUFFICES ASSUME IInv, [Next]_vars PROVE Repo'
  OBVIOUS
<1> USE DEF IInv, Repo, Resetting, Before
<1>0. UNCHANGED <<start, edits, lost>> => Wanted' = Wanted
  BY DEF Wanted, StartWith, Files
<1>1. CASE LoadRules
  BY <1>0, <1>1 DEF LoadRules, Goto, Raise, repoVars, matchVars, outVars
<1>2. CASE OpenBaseline
  BY <1>0, <1>2 DEF OpenBaseline, Goto, Raise, repoVars, matchVars, outVars
<1>3. CASE ScanHead
  BY <1>0, <1>3 DEF ScanHead, Goto, Raise, repoVars, matchVars, outVars
<1>4. CASE Decide
  BY <1>0, <1>4 DEF Decide, Goto, Raise, repoVars, matchVars, outVars
<1>5. CASE ChooseStrategy
  BY <1>0, <1>5 DEF ChooseStrategy, IsRepoClean, Goto, Raise, repoVars, matchVars, outVars
<1>6. CASE ResetToBase
  BY <1>0, <1>6 DEF ResetToBase, Goto, Raise, repoVars, matchVars, outVars
<1>7. CASE AddWorktree
  BY <1>0, <1>7 DEF AddWorktree, Goto, Raise, repoVars, matchVars, outVars
<1>8. CASE ChangeDirectory
  BY <1>0, <1>8 DEF ChangeDirectory, Goto, Raise, repoVars, matchVars, outVars
<1>9. CASE CheckOut
  BY <1>0, <1>9 DEF CheckOut, Goto, Raise, repoVars, matchVars, outVars
<1>10. CASE ScanBaseline
  <2>1. pc = "baseline" /\ pc' = CleanUp /\ UNCHANGED <<repoVars, restored>>
    BY <1>0, <1>10 DEF ScanBaseline, Goto
  <2>2. cwd \in {"checkout", "worktree"}
    BY DEF TypeOK
  <2>3. CASE cwd = "worktree"
    BY <1>0, <2>1, <2>3 DEF CleanUp, repoVars
  <2>4. CASE cwd = "checkout"
    BY <1>0, <2>1, <2>4 DEF CleanUp, repoVars
  <2> QED BY <2>2, <2>3, <2>4
<1>11. CASE RestoreHead
  BY <1>0, <1>11 DEF RestoreHead, AfterBaseline, Goto, Raise, repoVars, matchVars, outVars
<1>12. CASE RemoveWorktree
  BY <1>0, <1>12 DEF RemoveWorktree, AfterBaseline, Goto, Raise, repoVars, matchVars, outVars
<1>13. CASE FilterNosem
  BY <1>0, <1>13 DEF FilterNosem, Goto, Raise, repoVars, matchVars, outVars
<1>14. CASE ApplyFixes
  BY <1>0, <1>14 DEF ApplyFixes, Goto, Raise, repoVars, matchVars, outVars
<1>15. CASE Output
  BY <1>0, <1>15 DEF Output, Goto, Raise, repoVars, matchVars, outVars
<1>16. ASSUME NEW p \in Files(work), Edit(p)
      PROVE  Repo'
  <2>1. /\ UNCHANGED <<commits, branch, worktree, cwd, restored, pc>> /\ Resetting' = Resetting
        /\ IF Resetting THEN Wanted' = Wanted ELSE work = Wanted => work' = Wanted'
    BY <1>16, EditKept DEF Edit
  <2> QED BY <2>1
<1>17. CASE UNCHANGED vars
  BY <1>0, <1>17 DEF vars, Goto, Raise, repoVars, matchVars, outVars
<1> QED
  BY <1>1, <1>2, <1>3, <1>4, <1>5, <1>6, <1>7, <1>8, <1>9, <1>10, <1>11, <1>12, <1>13, <1>14,
     <1>15, <1>16, <1>17
  DEF Next

(* The checkout stays a tree, of files that were there.                    *)
LEMMA TreesStep == IInv /\ [Next]_vars => (Trees /\ Edits)'
<1> SUFFICES ASSUME IInv, [Next]_vars PROVE Trees' /\ Edits'
  OBVIOUS
<1> USE DEF IInv, Trees, Edits
<1>1. CASE LoadRules
  <2>1. UNCHANGED repoVars
    BY <1>1 DEF LoadRules
  <2> QED BY <2>1 DEF repoVars
<1>2. CASE OpenBaseline
  <2>1. UNCHANGED repoVars
    BY <1>2 DEF OpenBaseline
  <2> QED BY <2>1 DEF repoVars
<1>3. CASE ScanHead
  <2>1. UNCHANGED repoVars
    BY <1>3 DEF ScanHead
  <2> QED BY <2>1 DEF repoVars
<1>4. CASE Decide
  <2>1. UNCHANGED repoVars
    BY <1>4 DEF Decide
  <2> QED BY <2>1 DEF repoVars
<1>5. CASE ChooseStrategy
  <2>1. UNCHANGED repoVars
    BY <1>5 DEF ChooseStrategy
  <2> QED BY <2>1 DEF repoVars
<1>6. CASE ResetToBase
  <2>1. work' \in {work, commits.base} /\ UNCHANGED <<commits, start, edits, lost>>
    BY <1>6 DEF ResetToBase
  <2> QED BY <2>1
<1>7. CASE AddWorktree
  BY <1>7 DEF AddWorktree
<1>8. CASE ChangeDirectory
  BY <1>8 DEF ChangeDirectory
<1>9. CASE CheckOut
  BY <1>9 DEF CheckOut
<1>10. CASE ScanBaseline
  <2>1. UNCHANGED repoVars
    BY <1>10 DEF ScanBaseline
  <2> QED BY <2>1 DEF repoVars
<1>11. CASE RestoreHead
  <2>1. work' \in {work, commits.head} /\ UNCHANGED <<commits, start, edits, lost>>
    BY <1>11 DEF RestoreHead
  <2>2. commits.head = Wanted
    BY <1>11 DEF RestoreHead, Repo, Resetting
  <2>3. Files(start) = Files(commits.head)
    BY <2>2 DEF Wanted, StartWith, Files
  <2> QED BY <2>1, <2>3
<1>12. CASE RemoveWorktree
  BY <1>12 DEF RemoveWorktree
<1>13. CASE FilterNosem
  <2>1. UNCHANGED repoVars
    BY <1>13 DEF FilterNosem
  <2> QED BY <2>1 DEF repoVars
<1>14. CASE ApplyFixes
  <2>1. UNCHANGED repoVars
    BY <1>14 DEF ApplyFixes
  <2> QED BY <2>1 DEF repoVars
<1>15. CASE Output
  <2>1. UNCHANGED repoVars
    BY <1>15 DEF Output
  <2> QED BY <2>1 DEF repoVars
<1>16. ASSUME NEW p \in Files(work), Edit(p)
      PROVE  (Trees /\ Edits)'
  <2>1. /\ work' = [work EXCEPT ![p] = Append(@, EditLine)] /\ edits' = edits \cup {p}
        /\ lost' \in {lost, lost \cup {p}} /\ UNCHANGED <<commits, start>>
    BY <1>16 DEF Edit
  <2>2. EditLine \in Lines
    BY DEF Lines
  <2>3. work \in [Files(work) -> Seq(Lines)] /\ IsFiniteSet(Files(work))
    BY DEF IsTree
  <2>4. Append(work[p], EditLine) \in Seq(Lines)
    BY <2>2, <2>3
  <2>5. Files(work') = Files(work)
    BY <2>1 DEF Files
  <2>6. work' \in [Files(work) -> Seq(Lines)]
    BY <2>1, <2>3, <2>4 DEF Files
  <2>7. IsTree(work')
    BY <2>3, <2>5, <2>6 DEF IsTree
  <2> QED BY <2>1, <2>5, <2>7
<1>17. CASE UNCHANGED vars
  BY <1>17 DEF vars, repoVars
<1> QED
  BY <1>1, <1>2, <1>3, <1>4, <1>5, <1>6, <1>7, <1>8, <1>9, <1>10, <1>11, <1>12, <1>13, <1>14,
     <1>15, <1>16, <1>17
  DEF Next

(* Every error was reported by semgrep-core, or is the one that was raised. *)
LEMMA ErrorsStep == IInv /\ [Next]_vars => Errors'
<1> SUFFICES ASSUME IInv, [Next]_vars PROVE Errors'
  OBVIOUS
<1> USE DEF IInv
<1>1. CASE LoadRules
  <2>1. CASE opts.config = "invalid"
    <3>1. /\ structured' = HandleErrors(structured, <<Raised(MISSING_CONFIG)>>)
          /\ raised' = MISSING_CONFIG /\ pc' = "output" /\ raised = NoCode
      BY <1>1, <2>1 DEF LoadRules, Raise, Errors
    <3>2. /\ structured'.all = structured.all \cup {Raised(MISSING_CONFIG)}
          /\ Raised(MISSING_CONFIG) \notin structured.all => structured'.last = Raised(MISSING_CONFIG)
      BY <3>1, OneError
    <3>3. Raised(MISSING_CONFIG) \notin structured.all /\ \A e \in structured.all : OfCore(e)
      BY <3>1, RaisedCodes DEF Errors
    <3>4. MISSING_CONFIG # NoCode
      BY DEF MISSING_CONFIG, NoCode
    <3> QED BY <3>1, <3>2, <3>3, <3>4 DEF Errors
  <2>2. CASE opts.config # "invalid"
    BY <1>1, <2>2 DEF LoadRules, Goto, Errors
  <2> QED BY <2>1, <2>2
<1>2. CASE OpenBaseline
  <2>1. /\ UNCHANGED structured /\ raised = NoCode
        /\ \/ raised' = raised
           \/ raised' = FATAL /\ pc' \in {"restore", "remove worktree", "output"}
    BY <1>2 DEF OpenBaseline, Goto, Raise, matchVars, outVars, Errors
  <2> QED BY <2>1, RaisedCodes DEF Errors
<1>3. CASE ScanHead
  <2>1. raised = NoCode
    BY <1>3 DEF ScanHead, Errors
  <2>2. \A e \in structured.all : OfCore(e)
    BY <2>1 DEF Errors
  <2>3. ASSUME NEW code, Raise(code, "output"), UNCHANGED structured
        PROVE  Errors'
    BY <2>2, <2>3, RaisedCodes DEF Errors, Raise
  <2> DEFINE joined == HandleErrors(structured, JoinErrors)
  <2>4. /\ \A e \in joined.all : OfCore(e)
        /\ joined.all # {} => joined.last \in joined.all
    <3>1. /\ joined.all = structured.all \cup ToSet(JoinErrors)
          /\ joined.all # {} => joined.last \in joined.all
      BY JoinReports, ReportedErrors DEF Errors
    <3> QED BY <2>2, <3>1, JoinReports
  <2> HIDE DEF joined
  <2>5. CASE Raise(MISSING_CONFIG, "output") /\ structured' = joined
    BY <2>4, <2>5, RaisedCodes DEF Errors, Raise
  <2>6. ASSUME NEW failures \in Failures, pc' = "decide", UNCHANGED raised,
               structured' = HandleErrors(joined, [i \in DOMAIN failures |-> CoreErrorToSemgrepError(failures[i])])
        PROVE  Errors'
    <3> DEFINE errors == [i \in DOMAIN failures |-> CoreErrorToSemgrepError(failures[i])]
    <3>1. errors \in Seq(ToSet(errors)) /\ \A e \in ToSet(errors) : OfCore(e)
      BY CoreReports
    <3>2. structured' = HandleErrors(joined, errors)
      BY <2>6
    <3> HIDE DEF errors
    <3>3. /\ structured'.all = joined.all \cup ToSet(errors)
          /\ structured'.all # {} => structured'.last \in structured'.all
      BY <2>4, <3>1, <3>2, ReportedErrors
    <3> QED BY <2>1, <2>4, <2>6, <3>1, <3>3, RaisedCodes DEF Errors
  <2> QED BY <1>3, <2>3, <2>5, <2>6 DEF ScanHead, Goto, joined
<1>4. CASE Decide
  <2>1. /\ UNCHANGED structured /\ raised = NoCode
        /\ \/ raised' = raised
           \/ raised' = FATAL /\ pc' \in {"restore", "remove worktree", "output"}
    BY <1>4 DEF Decide, Goto, Raise, matchVars, outVars, Errors
  <2> QED BY <2>1, RaisedCodes DEF Errors
<1>5. CASE ChooseStrategy
  <2>1. /\ UNCHANGED structured /\ raised = NoCode
        /\ \/ raised' = raised
           \/ raised' = FATAL /\ pc' \in {"restore", "remove worktree", "output"}
    BY <1>5 DEF ChooseStrategy, Goto, Raise, matchVars, outVars, Errors
  <2> QED BY <2>1, RaisedCodes DEF Errors
<1>6. CASE ResetToBase
  <2>1. /\ UNCHANGED structured /\ raised = NoCode
        /\ \/ raised' = raised
           \/ raised' = FATAL /\ pc' \in {"restore", "remove worktree", "output"}
    BY <1>6 DEF ResetToBase, Goto, Raise, matchVars, outVars, Errors
  <2> QED BY <2>1, RaisedCodes DEF Errors
<1>7. CASE AddWorktree
  <2>1. /\ UNCHANGED structured /\ raised = NoCode
        /\ \/ raised' = raised
           \/ raised' = FATAL /\ pc' \in {"restore", "remove worktree", "output"}
    BY <1>7 DEF AddWorktree, Goto, Raise, matchVars, outVars, Errors
  <2> QED BY <2>1, RaisedCodes DEF Errors
<1>8. CASE ChangeDirectory
  <2>1. /\ UNCHANGED structured /\ raised = NoCode
        /\ \/ raised' = raised
           \/ raised' = FATAL /\ pc' \in {"restore", "remove worktree", "output"}
    BY <1>8 DEF ChangeDirectory, Goto, Raise, matchVars, outVars, Errors
  <2> QED BY <2>1, RaisedCodes DEF Errors
<1>9. CASE CheckOut
  <2>1. /\ UNCHANGED structured /\ raised = NoCode
        /\ \/ raised' = raised
           \/ raised' = FATAL /\ pc' \in {"restore", "remove worktree", "output"}
    BY <1>9 DEF CheckOut, Goto, Raise, matchVars, outVars, Errors
  <2> QED BY <2>1, RaisedCodes DEF Errors
<1>10. CASE ScanBaseline
  <2>1. pc' \in {"restore", "remove worktree"} /\ raised = NoCode
    BY <1>10 DEF ScanBaseline, Goto, CleanUp, Errors
  <2>2. \A e \in structured.all : OfCore(e)
    BY <2>1 DEF Errors
  <2>3. CASE raised' = FATAL /\ UNCHANGED structured
    BY <2>1, <2>2, <2>3, RaisedCodes DEF Errors
  <2>4. ASSUME NEW failures \in Failures,
               structured' = HandleErrors(structured, [i \in DOMAIN failures |-> CoreErrorToSemgrepError(failures[i])]),
               UNCHANGED raised
        PROVE  Errors'
    <3> DEFINE errors == [i \in DOMAIN failures |-> CoreErrorToSemgrepError(failures[i])]
    <3>1. errors \in Seq(ToSet(errors)) /\ \A e \in ToSet(errors) : OfCore(e)
      BY CoreReports
    <3>2. structured' = HandleErrors(structured, errors)
      BY <2>4
    <3> HIDE DEF errors
    <3>3. /\ structured'.all = structured.all \cup ToSet(errors)
          /\ structured'.all # {} => structured'.last \in structured'.all
      BY <3>1, <3>2, ReportedErrors DEF Errors
    <3> QED BY <2>1, <2>2, <2>4, <3>1, <3>3, RaisedCodes DEF Errors
  <2> QED BY <1>10, <2>3, <2>4 DEF ScanBaseline
<1>11. CASE RestoreHead
  <2>1. /\ UNCHANGED structured /\ raised \in {NoCode, FATAL}
        /\ \/ raised' = raised /\ pc' = AfterBaseline(raised)
           \/ raised' = FATAL /\ pc' = "output"
    BY <1>11 DEF RestoreHead, Goto, Raise, Errors
  <2>2. CASE raised = NoCode
    BY <2>1, <2>2, RaisedCodes DEF Errors, AfterBaseline
  <2>3. CASE raised = FATAL
    BY <2>1, <2>3, RaisedCodes DEF Errors, AfterBaseline, FATAL, NoCode
  <2> QED BY <2>1, <2>2, <2>3
<1>12. CASE RemoveWorktree
  <2>1. UNCHANGED <<structured, raised>> /\ (raised # NoCode => pc' = "output")
    BY <1>12 DEF RemoveWorktree, AfterBaseline, Goto, outVars
  <2> QED BY <2>1 DEF Errors
<1>13. CASE FilterNosem
  <2>1. /\ UNCHANGED structured /\ raised = NoCode
        /\ \/ raised' = raised
           \/ raised' = FATAL /\ pc' \in {"restore", "remove worktree", "output"}
    BY <1>13 DEF FilterNosem, Goto, Raise, matchVars, outVars, Errors
  <2> QED BY <2>1, RaisedCodes DEF Errors
<1>14. CASE ApplyFixes
  <2>1. /\ UNCHANGED structured /\ raised = NoCode
        /\ \/ raised' = raised
           \/ raised' = FATAL /\ pc' \in {"restore", "remove worktree", "output"}
    BY <1>14 DEF ApplyFixes, Goto, Raise, matchVars, outVars, Errors
  <2> QED BY <2>1, RaisedCodes DEF Errors
<1>15. CASE Output
  <2>1. /\ pc' = "done" /\ UNCHANGED raised
        /\ structured' = IF raised = NoCode THEN structured ELSE HandleErrors(structured, <<Raised(raised)>>)
    BY <1>15 DEF Output, Goto
  <2>2. CASE raised = NoCode
    BY <2>1, <2>2 DEF Errors
  <2>3. CASE raised # NoCode
    <3>1. /\ structured'.all = structured.all \cup {Raised(raised)}
          /\ structured'.last = IF Raised(raised) \in structured.all THEN structured.last ELSE Raised(raised)
      BY <2>1, <2>3, OneError
    <3> QED BY <2>1, <2>3, <3>1 DEF Errors
  <2> QED BY <2>2, <2>3
<1>16. ASSUME NEW p \in Files(work), Edit(p)
      PROVE  Errors'
  <2>1. UNCHANGED <<structured, raised, pc>>
    BY <1>16 DEF Edit, outVars
  <2> QED BY <2>1 DEF Errors
<1>17. CASE UNCHANGED vars
  BY <1>17 DEF vars, outVars, Errors
<1> QED
  BY <1>1, <1>2, <1>3, <1>4, <1>5, <1>6, <1>7, <1>8, <1>9, <1>10, <1>11, <1>12, <1>13, <1>14,
     <1>15, <1>16, <1>17
  DEF Next
(* Unless something was raised, the output has the filtered findings.      *)
LEMMA FilteredStep == IInv /\ [Next]_vars => Filtered'
<1> SUFFICES ASSUME IInv, [Next]_vars PROVE Filtered'
  OBVIOUS
<1> USE DEF IInv, Filtered
<1>0. FATAL # NoCode /\ MISSING_CONFIG # NoCode
  BY DEF FATAL, MISSING_CONFIG, NoCode
<1>1. CASE LoadRules
  <2>1. pc' \notin {"fix", "output", "done"} \/ raised' # NoCode
    BY <1>1 DEF LoadRules, Goto, Raise, AfterBaseline, CleanUp, FATAL, MISSING_CONFIG, NoCode
  <2> QED BY <2>1
<1>2. CASE OpenBaseline
  <2>1. pc' \notin {"fix", "output", "done"} \/ raised' # NoCode
    BY <1>2 DEF OpenBaseline, Goto, Raise, AfterBaseline, CleanUp, FATAL, MISSING_CONFIG, NoCode
  <2> QED BY <2>1
<1>3. CASE ScanHead
  <2>1. pc' \notin {"fix", "output", "done"} \/ raised' # NoCode
    BY <1>0, <1>3 DEF ScanHead, Goto, Raise
  <2> QED BY <2>1
<1>4. CASE Decide
  <2>1. pc' \notin {"fix", "output", "done"} \/ raised' # NoCode
    BY <1>4 DEF Decide, Goto, Raise, AfterBaseline, CleanUp, FATAL, MISSING_CONFIG, NoCode
  <2> QED BY <2>1
<1>5. CASE ChooseStrategy
  <2>1. pc' \notin {"fix", "output", "done"} \/ raised' # NoCode
    BY <1>0, <1>5 DEF ChooseStrategy, Goto, Raise
  <2> QED BY <2>1
<1>6. CASE ResetToBase
  <2>1. pc' \notin {"fix", "output", "done"} \/ raised' # NoCode
    BY <1>6 DEF ResetToBase, Goto, Raise, AfterBaseline, CleanUp, FATAL, MISSING_CONFIG, NoCode
  <2> QED BY <2>1
<1>7. CASE AddWorktree
  <2>1. pc' \notin {"fix", "output", "done"} \/ raised' # NoCode
    BY <1>7 DEF AddWorktree, Goto, Raise, AfterBaseline, CleanUp, FATAL, MISSING_CONFIG, NoCode
  <2> QED BY <2>1
<1>8. CASE ChangeDirectory
  <2>1. pc' \notin {"fix", "output", "done"} \/ raised' # NoCode
    BY <1>8 DEF ChangeDirectory, Goto, Raise, AfterBaseline, CleanUp, FATAL, MISSING_CONFIG, NoCode
  <2> QED BY <2>1
<1>9. CASE CheckOut
  <2>1. pc' \notin {"fix", "output", "done"} \/ raised' # NoCode
    BY <1>9 DEF CheckOut, Goto, Raise, AfterBaseline, CleanUp, FATAL, MISSING_CONFIG, NoCode
  <2> QED BY <2>1
<1>10. CASE ScanBaseline
  <2>1. pc' \notin {"fix", "output", "done"} \/ raised' # NoCode
    BY <1>10 DEF ScanBaseline, Goto, Raise, AfterBaseline, CleanUp, FATAL, MISSING_CONFIG, NoCode
  <2> QED BY <2>1
<1>11. CASE RestoreHead
  <2>1. pc' \notin {"fix", "output", "done"} \/ raised' # NoCode
    BY <1>11 DEF RestoreHead, Goto, Raise, AfterBaseline, CleanUp, FATAL, MISSING_CONFIG, NoCode
  <2> QED BY <2>1
<1>12. CASE RemoveWorktree
  <2>1. pc' \notin {"fix", "output", "done"} \/ raised' # NoCode
    BY <1>12 DEF RemoveWorktree, Goto, Raise, AfterBaseline, CleanUp, FATAL, MISSING_CONFIG, NoCode, outVars
  <2> QED BY <2>1
<1>13. CASE FilterNosem
  <2>1. filtered' = FilterIgnored(matches, KeepIgnored) /\ UNCHANGED <<matches, opts>>
    BY <1>13 DEF FilterNosem, matchVars
  <2> QED BY <2>1 DEF KeepIgnored
<1>14. CASE ApplyFixes
  <2>1. pc = "fix" /\ UNCHANGED <<matches, opts, filtered, raised>>
    BY <1>14 DEF ApplyFixes, matchVars
  <2> QED BY <2>1 DEF KeepIgnored
<1>15. CASE Output
  <2>1. pc = "output" /\ UNCHANGED <<matches, opts, filtered, raised>>
    BY <1>15 DEF Output, matchVars
  <2> QED BY <2>1 DEF KeepIgnored
<1>16. ASSUME NEW p \in Files(work), Edit(p)
      PROVE  Filtered'
  <2>1. UNCHANGED <<matches, opts, filtered, raised, pc>>
    BY <1>16 DEF Edit, matchVars, outVars
  <2> QED BY <2>1 DEF KeepIgnored
<1>17. CASE UNCHANGED vars
  <2>1. UNCHANGED <<matches, opts, filtered, raised, pc>>
    BY <1>17 DEF vars, matchVars, outVars
  <2> QED BY <2>1 DEF KeepIgnored
<1> QED
  BY <1>1, <1>2, <1>3, <1>4, <1>5, <1>6, <1>7, <1>8, <1>9, <1>10, <1>11, <1>12, <1>13, <1>14,
     <1>15, <1>16, <1>17
  DEF Next

(* The parts of TypeOK that the other lemmas do not have.                  *)
Scalars ==
  /\ opts \in Options /\ branch \in {"head", "base"}
  /\ worktree \in {"none", "added", "ready"} /\ cwd \in {"checkout", "worktree"}
  /\ raised \in {NoCode, FATAL, MISSING_CONFIG} /\ pc \in Phases

LEMMA ScalarsStep == IInv /\ [Next]_vars => Scalars'
<1> SUFFICES ASSUME IInv, [Next]_vars PROVE Scalars'
  OBVIOUS
<1> USE DEF IInv, TypeOK, Scalars, Phases
<1>1. CASE LoadRules
  BY <1>1 DEF LoadRules, Goto, Raise, repoVars, matchVars, outVars
<1>2. CASE OpenBaseline
  BY <1>2 DEF OpenBaseline, Goto, Raise, repoVars, matchVars, outVars
<1>3. CASE ScanHead
  <2>1. /\ pc' \in {"output", "decide"} /\ raised' \in {raised, FATAL, MISSING_CONFIG}
        /\ UNCHANGED <<opts, branch, worktree, cwd>>
    BY <1>3 DEF ScanHead, Goto, Raise, repoVars
  <2> QED BY <2>1
<1>4. CASE Decide
  BY <1>4 DEF Decide, Goto, Raise, repoVars, matchVars, outVars
<1>5. CASE ChooseStrategy
  BY <1>5 DEF ChooseStrategy, Goto, Raise, repoVars, matchVars, outVars
<1>6. CASE ResetToBase
  BY <1>6 DEF ResetToBase, Goto, Raise, repoVars, matchVars, outVars
<1>7. CASE AddWorktree
  BY <1>7 DEF AddWorktree, Goto, Raise, repoVars, matchVars, outVars
<1>8. CASE ChangeDirectory
  BY <1>8 DEF ChangeDirectory, Goto, Raise, repoVars, matchVars, outVars
<1>9. CASE CheckOut
  BY <1>9 DEF CheckOut, Goto, Raise, repoVars, matchVars, outVars
<1>10. CASE ScanBaseline
  <2>1. /\ pc' \in {"restore", "remove worktree"} /\ raised' \in {raised, FATAL}
        /\ UNCHANGED <<opts, branch, worktree, cwd>>
    BY <1>10 DEF ScanBaseline, Goto, CleanUp, repoVars
  <2> QED BY <2>1
<1>11. CASE RestoreHead
  <2>1. /\ pc' \in {"output", "filter"} /\ raised' \in {raised, FATAL} /\ branch' \in {branch, "head"}
        /\ UNCHANGED <<opts, worktree, cwd>>
    BY <1>11 DEF RestoreHead, Goto, Raise, AfterBaseline
  <2> QED BY <2>1
<1>12. CASE RemoveWorktree
  <2>1. /\ pc' \in {"output", "filter"} /\ cwd' = "checkout" /\ worktree' \in {worktree, "none"}
        /\ UNCHANGED <<opts, branch, raised>>
    BY <1>12 DEF RemoveWorktree, Goto, AfterBaseline, outVars
  <2> QED BY <2>1
<1>13. CASE FilterNosem
  BY <1>13 DEF FilterNosem, Goto, Raise, repoVars, matchVars, outVars
<1>14. CASE ApplyFixes
  BY <1>14 DEF ApplyFixes, Goto, Raise, repoVars, matchVars, outVars
<1>15. CASE Output
  BY <1>15 DEF Output, Goto, Raise, repoVars, matchVars, outVars
<1>16. ASSUME NEW p \in Files(work), Edit(p)
      PROVE  Scalars'
  BY <1>16 DEF Edit, Goto, Raise, repoVars, matchVars, outVars
<1>17. CASE UNCHANGED vars
  BY <1>17 DEF vars, Goto, Raise, repoVars, matchVars, outVars
<1> QED
  BY <1>1, <1>2, <1>3, <1>4, <1>5, <1>6, <1>7, <1>8, <1>9, <1>10, <1>11, <1>12, <1>13, <1>14,
     <1>15, <1>16, <1>17
  DEF Next

(* The findings of a scan keep keys of their own.                          *)
LEMMA KeysStep == IInv /\ [Next]_vars => KeysAreUnique(matches') /\ AreMatches(matches')
<1> SUFFICES ASSUME IInv, [Next]_vars PROVE KeysAreUnique(matches') /\ AreMatches(matches')
  OBVIOUS
<1> USE DEF IInv, TypeOK
<1>1. CASE LoadRules
  BY <1>1 DEF LoadRules, matchVars, KeysAreUnique, AreMatches
<1>2. CASE OpenBaseline
  BY <1>2 DEF OpenBaseline, matchVars, KeysAreUnique, AreMatches
<1>3. CASE ScanHead
  <2>1. CASE UNCHANGED matches
    BY <2>1 DEF KeysAreUnique, AreMatches
  <2>2. ASSUME NEW errors, matches' \in RunRules(work, HeadTargets, Files(work), SearchRules \cup {JoinRule}, errors)
        PROVE  KeysAreUnique(matches') /\ AreMatches(matches')
    BY <2>2, RunKeys DEF Trees
  <2> QED BY <1>3, <2>1, <2>2 DEF ScanHead
<1>4. CASE Decide
  BY <1>4 DEF Decide, matchVars, KeysAreUnique, AreMatches
<1>5. CASE ChooseStrategy
  BY <1>5 DEF ChooseStrategy, matchVars, KeysAreUnique, AreMatches
<1>6. CASE ResetToBase
  BY <1>6 DEF ResetToBase, matchVars, KeysAreUnique, AreMatches
<1>7. CASE AddWorktree
  BY <1>7 DEF AddWorktree, matchVars, KeysAreUnique, AreMatches
<1>8. CASE ChangeDirectory
  BY <1>8 DEF ChangeDirectory, matchVars, KeysAreUnique, AreMatches
<1>9. CASE CheckOut
  BY <1>9 DEF CheckOut, matchVars, KeysAreUnique, AreMatches
<1>10. CASE ScanBaseline
  <2>1. matches' \subseteq matches
    BY <1>10 DEF ScanBaseline, RemoveMatchesInBaseline
  <2> QED BY <2>1 DEF KeysAreUnique, AreMatches
<1>11. CASE RestoreHead
  BY <1>11 DEF RestoreHead, matchVars, KeysAreUnique, AreMatches
<1>12. CASE RemoveWorktree
  BY <1>12 DEF RemoveWorktree, matchVars, KeysAreUnique, AreMatches
<1>13. CASE FilterNosem
  BY <1>13 DEF FilterNosem, matchVars, KeysAreUnique, AreMatches
<1>14. CASE ApplyFixes
  BY <1>14 DEF ApplyFixes, matchVars, KeysAreUnique, AreMatches
<1>15. CASE Output
  BY <1>15 DEF Output, matchVars, KeysAreUnique, AreMatches
<1>16. ASSUME NEW p \in Files(work), Edit(p)
      PROVE  KeysAreUnique(matches') /\ AreMatches(matches')
  BY <1>16 DEF Edit, matchVars, KeysAreUnique, AreMatches
<1>17. CASE UNCHANGED vars
  BY <1>17 DEF vars, matchVars, KeysAreUnique, AreMatches
<1> QED
  BY <1>1, <1>2, <1>3, <1>4, <1>5, <1>6, <1>7, <1>8, <1>9, <1>10, <1>11, <1>12, <1>13, <1>14,
     <1>15, <1>16, <1>17
  DEF Next

(* What git said stays.                                                    *)
LEMMA StatusStep == IInv /\ [Next]_vars => Status'
<1> SUFFICES ASSUME IInv, [Next]_vars PROVE Status'
  OBVIOUS
<1> USE DEF IInv
<1>1. CASE LoadRules
  <2>1. pc' = "handler" \/ raised' # NoCode
    BY <1>1 DEF LoadRules, Goto, Raise, NoCode, MISSING_CONFIG
  <2> QED BY <2>1 DEF Status
<1>2. CASE OpenBaseline
  <2>1. CASE raised' # NoCode \/ ~opts.baseline
    BY <1>2, <2>1 DEF OpenBaseline, Status
  <2>2. CASE raised' = NoCode /\ opts.baseline
    <3>1. PICK r \in Renamings(commits.base, commits.head) : status' = GitStatus(commits.base, commits.head, r)
      BY <1>2, <2>2 DEF OpenBaseline, Raise, NoCode, FATAL
    <3>2. \A n \in DOMAIN r : r[n] \in Files(commits.base) \ Files(commits.head)
      BY DEF Renamings
    <3>3. /\ status'.added = Files(commits.head) \ Files(commits.base)
          /\ status'.renamed = r
      BY <3>1 DEF GitStatus
    <3>4. UNCHANGED <<opts, commits>>
      BY <1>2 DEF OpenBaseline, repoVars
    <3> QED BY <3>2, <3>3, <3>4 DEF Status
  <2> QED BY <2>1, <2>2
<1>3. CASE ScanHead
  <2>0. FATAL # NoCode /\ MISSING_CONFIG # NoCode
    BY DEF FATAL, MISSING_CONFIG, NoCode
  <2>1. /\ UNCHANGED <<opts, status, commits>> /\ pc \notin {"config", "handler"}
        /\ raised' = NoCode => raised = NoCode
    BY <1>3, <2>0 DEF ScanHead, Goto, Raise, repoVars, matchVars
  <2> QED BY <2>1 DEF Status
<1>4. CASE Decide
  <2>1. /\ UNCHANGED <<opts, status, commits>> /\ pc \notin {"config", "handler"}
        /\ raised' = NoCode => raised = NoCode
    BY <1>4 DEF Decide, Goto, Raise, repoVars, matchVars, outVars, NoCode, FATAL, MISSING_CONFIG
  <2> QED BY <2>1 DEF Status
<1>5. CASE ChooseStrategy
  <2>0. FATAL # NoCode /\ MISSING_CONFIG # NoCode
    BY DEF FATAL, MISSING_CONFIG, NoCode
  <2>1. /\ UNCHANGED <<opts, status, commits>> /\ pc \notin {"config", "handler"}
        /\ raised' = NoCode => raised = NoCode
    BY <1>5, <2>0 DEF ChooseStrategy, Goto, Raise, repoVars, matchVars
  <2> QED BY <2>1 DEF Status
<1>6. CASE ResetToBase
  <2>1. /\ UNCHANGED <<opts, status, commits>> /\ pc \notin {"config", "handler"}
        /\ raised' = NoCode => raised = NoCode
    BY <1>6 DEF ResetToBase, Goto, Raise, repoVars, matchVars, outVars, NoCode, FATAL, MISSING_CONFIG
  <2> QED BY <2>1 DEF Status
<1>7. CASE AddWorktree
  <2>1. UNCHANGED <<opts, status, commits>> /\ pc \notin {"config", "handler"}
    BY <1>7 DEF AddWorktree, matchVars
  <2>2. raised' = raised \/ raised' = FATAL
    BY <1>7 DEF AddWorktree, Raise
  <2>3. FATAL # NoCode
    BY DEF FATAL, NoCode
  <2> QED BY <2>1, <2>2, <2>3 DEF Status
<1>8. CASE ChangeDirectory
  <2>1. UNCHANGED <<opts, status, commits>> /\ pc \notin {"config", "handler"}
    BY <1>8 DEF ChangeDirectory, matchVars
  <2>2. raised' = raised \/ raised' = FATAL
    BY <1>8 DEF ChangeDirectory, Raise
  <2>3. FATAL # NoCode
    BY DEF FATAL, NoCode
  <2> QED BY <2>1, <2>2, <2>3 DEF Status
<1>9. CASE CheckOut
  <2>1. UNCHANGED <<opts, status, commits>> /\ pc \notin {"config", "handler"}
    BY <1>9 DEF CheckOut, matchVars
  <2>2. raised' = raised \/ raised' = FATAL
    BY <1>9 DEF CheckOut, Raise
  <2>3. FATAL # NoCode
    BY DEF FATAL, NoCode
  <2> QED BY <2>1, <2>2, <2>3 DEF Status
<1>10. CASE ScanBaseline
  <2>1. /\ UNCHANGED <<opts, status, commits>> /\ pc \notin {"config", "handler"}
        /\ raised' = NoCode => raised = NoCode
    BY <1>10 DEF ScanBaseline, Goto, Raise, repoVars, matchVars, outVars, NoCode, FATAL, MISSING_CONFIG
  <2> QED BY <2>1 DEF Status
<1>11. CASE RestoreHead
  <2>1. /\ UNCHANGED <<opts, status, commits>> /\ pc \notin {"config", "handler"}
        /\ raised' = NoCode => raised = NoCode
    BY <1>11 DEF RestoreHead, Goto, Raise, repoVars, matchVars, outVars, NoCode, FATAL, MISSING_CONFIG
  <2> QED BY <2>1 DEF Status
<1>12. CASE RemoveWorktree
  <2>1. /\ UNCHANGED <<opts, status, commits>> /\ pc \notin {"config", "handler"}
        /\ raised' = NoCode => raised = NoCode
    BY <1>12 DEF RemoveWorktree, Goto, Raise, repoVars, matchVars, outVars, NoCode, FATAL, MISSING_CONFIG
  <2> QED BY <2>1 DEF Status
<1>13. CASE FilterNosem
  <2>1. /\ UNCHANGED <<opts, status, commits>> /\ pc \notin {"config", "handler"}
        /\ raised' = NoCode => raised = NoCode
    BY <1>13 DEF FilterNosem, Goto, Raise, repoVars, matchVars, outVars, NoCode, FATAL, MISSING_CONFIG
  <2> QED BY <2>1 DEF Status
<1>14. CASE ApplyFixes
  <2>1. /\ UNCHANGED <<opts, status, commits>> /\ pc \notin {"config", "handler"}
        /\ raised' = NoCode => raised = NoCode
    BY <1>14 DEF ApplyFixes, Goto, Raise, repoVars, matchVars, outVars, NoCode, FATAL, MISSING_CONFIG
  <2> QED BY <2>1 DEF Status
<1>15. CASE Output
  <2>1. /\ UNCHANGED <<opts, status, commits>> /\ pc \notin {"config", "handler"}
        /\ raised' = NoCode => raised = NoCode
    BY <1>15 DEF Output, Goto, Raise, repoVars, matchVars, outVars, NoCode, FATAL, MISSING_CONFIG
  <2> QED BY <2>1 DEF Status
<1>16. ASSUME NEW p \in Files(work), Edit(p)
      PROVE  Status'
  <2>1. UNCHANGED <<opts, status, commits, raised, pc>>
    BY <1>16 DEF Edit, matchVars, outVars
  <2> QED BY <2>1 DEF Status
<1>17. CASE UNCHANGED vars
  <2>1. UNCHANGED <<opts, status, commits, raised, pc>>
    BY <1>17 DEF vars, repoVars, matchVars, outVars
  <2> QED BY <2>1 DEF Status
<1> QED
  BY <1>1, <1>2, <1>3, <1>4, <1>5, <1>6, <1>7, <1>8, <1>9, <1>10, <1>11, <1>12, <1>13, <1>14,
     <1>15, <1>16, <1>17
  DEF Next

(* The findings of the scan of the checkout.                               *)
LEMMA HeadStep ==
  ASSUME IInv, ScanHead, opts.baseline, edits = {}, raised' = NoCode
  PROVE  HeadFound' /\ pc' = "decide"
<1>1. PICK failures \in Failures :
        LET errors == [i \in DOMAIN failures |-> CoreErrorToSemgrepError(failures[i])]
        IN  /\ matches' \in RunRules(work, HeadTargets, Files(work), SearchRules \cup {JoinRule}, errors)
            /\ structured' = HandleErrors(HandleErrors(structured, JoinErrors), errors) /\ pc' = "decide"
  <2>1. MISSING_CONFIG # NoCode /\ FATAL # NoCode
    BY DEF NoCode, MISSING_CONFIG, FATAL
  <2> QED BY <2>1 DEF ScanHead, Raise, Goto
<1> DEFINE errors == [i \in DOMAIN failures |-> CoreErrorToSemgrepError(failures[i])]
<1>2. errors \in Seq(ToSet(errors))
  BY CoreReports
<1>3. /\ matches' \in RunRules(work, HeadTargets, Files(work), SearchRules \cup {JoinRule}, errors)
      /\ structured' = HandleErrors(HandleErrors(structured, JoinErrors), errors) /\ pc' = "decide"
  BY <1>1
<1> HIDE DEF errors
<1>4. work = start /\ IsTree(start)
  <2>1. work = Wanted /\ lost = {} /\ IsTree(start)
    BY DEF IInv, Trees, Repo, Before, Edits, ScanHead
  <2> QED BY <2>1, StartWithNothing DEF Wanted
<1>5. /\ UNCHANGED <<start, commits>> /\ HeadTargets' = HeadTargets /\ SearchRules' = SearchRules
  BY DEF ScanHead, repoVars, HeadTargets, SearchRules
<1>6. \A p, rule, ctx : rule # JoinRule =>
        Indices(matches', p, rule, ctx)
          = IF Scanned(start, HeadTargets, (SearchRules \cup {JoinRule}) \ Unparsed(errors), errors, p, rule)
            THEN 0 .. (Occurrences(start, p, rule, ctx) - 1) ELSE {}
  BY <1>3, <1>4, RunNumbers
<1>7. ASSUME NEW m \in matches', m.rule # JoinRule
      PROVE  Full(m.path, m.rule, m.ctx)'
  <2>1. m.index \in Indices(matches', m.path, m.rule, m.ctx)
    BY DEF Indices, Found
  <2> QED BY ZenonT(40), <1>5, <1>6, <1>7, <2>1 DEF Full, Occurrences
<1>8. ASSUME structured'.all = {}, NEW p \in HeadTargets \cap Files(start), NEW i \in DOMAIN start[p],
             start[p][i].rule \in SearchRules
      PROVE  Full(p, start[p][i].rule, start[p][i].ctx)'
  <2>1. ToSet(errors) = {}
    <3> DEFINE joined == HandleErrors(structured, JoinErrors)
    <3>1. joined.all # {} => joined.last \in joined.all
      BY JoinReports, ReportedErrors DEF IInv, Errors
    <3> HIDE DEF joined
    <3>2. structured' = HandleErrors(joined, errors)
      BY <1>3 DEF joined
    <3>3. structured'.all = joined.all \cup ToSet(errors)
      BY <1>2, <3>1, <3>2, ReportedErrors
    <3> QED BY <1>8, <3>3
  <2>2. Scanned(start, HeadTargets, (SearchRules \cup {JoinRule}) \ Unparsed(errors), errors, p, start[p][i].rule)
    BY <1>8, <2>1 DEF Scanned, FileWidePaths, RuleScopedPaths, Unparsed
  <2>3. start[p][i].rule # JoinRule
    BY <1>4, ScanAssumption DEF IsTree, Files
  <2> QED BY <1>5, <1>6, <2>2, <2>3 DEF Full, Occurrences
<1> QED BY <1>3, <1>5, <1>7, <1>8 DEF HeadFound

(* What is compared with the baseline: the number of a finding stands for  *)
(* it under the old name of its file.                                      *)
LEMMA IndicesLeft ==
  ASSUME NEW head, AreMatches(head), NEW base, NEW renamed, NEW errors, NEW p, NEW rule, NEW ctx,
         p \notin FileWidePaths(errors), <<p, rule>> \notin RuleScopedPaths(errors)
  PROVE  Indices(RemoveMatchesInBaseline(head, base, renamed, errors), p, rule, ctx)
           = Indices(head, p, rule, ctx)
             \ Indices(base, IF p \in DOMAIN renamed THEN renamed[p] ELSE p, rule, ctx)
<1> DEFINE q == IF p \in DOMAIN renamed THEN renamed[p] ELSE p
           keys == {CiUniqueKey(b) : b \in base}
           left == RemoveMatchesInBaseline(head, base, renamed, errors)
<1>1. ASSUME NEW m \in Found(head, p, rule, ctx)
      PROVE  PathChangedKey(m, renamed) = <<rule, q, ctx, m.index>>
  <2>1. DOMAIN m = Fields /\ m.path = p /\ m.rule = rule /\ m.ctx = ctx
    BY DEF Found, AreMatches
  <2>2. [m EXCEPT !.path = IF @ \in DOMAIN renamed THEN renamed[@] ELSE @] = [m EXCEPT !.path = q]
    BY <2>1
  <2> DEFINE n == [m EXCEPT !.path = q]
  <2>3. n.path = q /\ n.rule = rule /\ n.ctx = ctx /\ n.index = m.index
    BY <2>1 DEF Fields
  <2> QED BY <2>2, <2>3 DEF PathChangedKey, CiUniqueKey
<1>2. \A i : <<rule, q, ctx, i>> \in keys <=> i \in Indices(base, q, rule, ctx)
  <2> HIDE DEF q
  <2> QED BY DEF CiUniqueKey, Indices, Found
<1>3. Found(left, p, rule, ctx) = {m \in Found(head, p, rule, ctx) : PathChangedKey(m, renamed) \notin keys}
  BY DEF RemoveMatchesInBaseline, Found
<1> HIDE DEF q, keys, left
<1>4. Indices(left, p, rule, ctx) = {i \in Indices(head, p, rule, ctx) : i \notin Indices(base, q, rule, ctx)}
  BY <1>1, <1>2, <1>3 DEF Indices
<1> QED BY <1>4 DEF q, left

(* What a scan reports in full it reports as often as it occurs.           *)
LEMMA FullCount ==
  ASSUME IInv, NEW p, NEW rule, NEW ctx, Full(p, rule, ctx)
  PROVE  /\ Occurrences(start, p, rule, ctx) \in Nat
         /\ Reported(p, rule, ctx) = Occurrences(start, p, rule, ctx)
<1> DEFINE n == Occurrences(start, p, rule, ctx)
<1>1. n \in Nat
  BY OccurrencesType DEF IInv, Trees
<1>2. IsFiniteSet(0 .. (n - 1)) /\ Cardinality(0 .. (n - 1)) = n
  <2> HIDE DEF n
  <2>1. n - 1 \in Int
    BY <1>1
  <2>2. /\ IsFiniteSet(0 .. (n - 1))
        /\ Cardinality(0 .. (n - 1)) = IF 0 > n - 1 THEN 0 ELSE (n - 1) - 0 + 1
    BY <2>1, FS_Interval
  <2> QED BY <1>1, <2>2
<1>3. KeysAreUnique(matches)
  BY DEF IInv, TypeOK, KeysAreUnique
<1>4. Cardinality(Found(matches, p, rule, ctx)) = n
  BY <1>2, <1>3, KeysCount DEF Full
<1> QED BY <1>1, <1>4 DEF Reported, Found

LEMMA OldNames ==
  ASSUME IInv, opts.baseline, raised = NoCode, pc \notin {"config", "handler"}, NEW m \in matches,
         OldName(m.path) \in Files(commits.base)
  PROVE  OldName(m.path) \in BaselineTargets
<1>1. Status
  BY DEF IInv
<1>2. CASE m.path \in DOMAIN status.renamed
  BY <1>1, <1>2 DEF Status, OldName, BaselineTargets
<1>3. CASE m.path \notin DOMAIN status.renamed
  BY <1>1, <1>3 DEF Status, OldName, BaselineTargets
<1> QED BY <1>2, <1>3

(* Nothing to compare: no finding is in a file that the base has.          *)
LEMMA SkippedBaseline ==
  ASSUME IInv, pc = "decide", opts.baseline, edits = {}, raised = NoCode,
         matches = {} \/ BaselineTargets = {}
  PROVE  OnlyNew /\ AllNew
<1>1. HeadFound
  BY DEF IInv, Compared
<1>2. ASSUME NEW m \in matches, m.rule # JoinRule
      PROVE  Reported(m.path, m.rule, m.ctx) <= New(m.path, m.rule, m.ctx)
  <2> DEFINE n == Occurrences(start, m.path, m.rule, m.ctx)
  <2>1. n \in Nat /\ Reported(m.path, m.rule, m.ctx) = n
    BY <1>1, <1>2, FullCount DEF HeadFound
  <2>2. OldName(m.path) \notin Files(commits.base)
    BY OldNames
  <2>3. Occurrences(commits.base, OldName(m.path), m.rule, m.ctx) = 0
    BY <2>2 DEF Occurrences
  <2>4. New(m.path, m.rule, m.ctx) = n - 0
    BY <2>3 DEF New
  <2> HIDE DEF n
  <2> QED BY <2>1, <2>4
<1>3. ASSUME structured.all = {}, NEW p \in HeadTargets \cap Files(start), NEW i \in DOMAIN start[p],
             start[p][i].rule \in SearchRules
      PROVE  Reported(p, start[p][i].rule, start[p][i].ctx) >= New(p, start[p][i].rule, start[p][i].ctx)
  <2> DEFINE n == Occurrences(start, p, start[p][i].rule, start[p][i].ctx)
             k == Occurrences(commits.base, OldName(p), start[p][i].rule, start[p][i].ctx)
  <2>1. n \in Nat /\ Reported(p, start[p][i].rule, start[p][i].ctx) = n
    BY <1>1, <1>3, FullCount DEF HeadFound
  <2>2. k \in Nat
    BY OccurrencesType DEF IInv, Trees
  <2>3. New(p, start[p][i].rule, start[p][i].ctx) = n - k
    BY DEF New
  <2> HIDE DEF n, k
  <2> QED BY <2>1, <2>2, <2>3
<1> QED BY <1>2, <1>3 DEF OnlyNew, AllNew

(* What the scan of the baseline leaves of one piece of code.              *)
LEMMA LeftOver ==
  ASSUME IInv, NEW targets, NEW roots, NEW rules, NEW errors,
         NEW found \in RunRules(commits.base, targets, roots, rules, errors),
         Unparsed(errors) = {}, NEW p, NEW rule, NEW ctx, rule # JoinRule, Full(p, rule, ctx),
         p \notin FileWidePaths(errors), <<p, rule>> \notin RuleScopedPaths(errors)
  PROVE  LET left == RemoveMatchesInBaseline(matches, found, status.renamed, errors)
             n == Occurrences(start, p, rule, ctx)
             k == IF Scanned(commits.base, targets, rules, errors, OldName(p), rule)
                  THEN Occurrences(commits.base, OldName(p), rule, ctx) ELSE 0
         IN  /\ n \in Nat /\ k \in Nat
             /\ Found(left, p, rule, ctx) # {} => k < n
             /\ Cardinality(Found(left, p, rule, ctx)) = IF k >= n THEN 0 ELSE n - k
<1> DEFINE left == RemoveMatchesInBaseline(matches, found, status.renamed, errors)
           n == Occurrences(start, p, rule, ctx)
           k == IF Scanned(commits.base, targets, rules, errors, OldName(p), rule)
                THEN Occurrences(commits.base, OldName(p), rule, ctx) ELSE 0
<1>1. IsTree(commits.base) /\ IsTree(start) /\ AreMatches(matches)
  BY DEF IInv, Trees
<1>2. n \in Nat /\ k \in Nat
  BY <1>1, OccurrencesType
<1>3. Indices(matches, p, rule, ctx) = 0 .. (n - 1)
  BY DEF Full
<1>4. Indices(found, OldName(p), rule, ctx) = 0 .. (k - 1)
  <2> DEFINE q == OldName(p)
  <2>1. Indices(found, q, rule, ctx)
          = IF Scanned(commits.base, targets, rules, errors, q, rule)
            THEN 0 .. (Occurrences(commits.base, q, rule, ctx) - 1) ELSE {}
    <3> HIDE DEF q
    <3> DEFINE parsed == rules \ Unparsed(errors)
    <3>1. parsed = rules
      OBVIOUS
    <3>2. Indices(found, q, rule, ctx)
            = IF Scanned(commits.base, targets, parsed, errors, q, rule)
              THEN 0 .. (Occurrences(commits.base, q, rule, ctx) - 1) ELSE {}
      BY <1>1, RunNumbers
    <3> HIDE DEF parsed
    <3> QED BY <3>1, <3>2
  <2>2. 0 .. (0 - 1) = {}
    OBVIOUS
  <2> QED BY <2>1, <2>2
<1>5. Indices(left, p, rule, ctx) = Indices(matches, p, rule, ctx) \ Indices(found, OldName(p), rule, ctx)
  BY <1>1, IndicesLeft DEF OldName
<1>6. Indices(left, p, rule, ctx) = (0 .. (n - 1)) \ (0 .. (k - 1))
  BY <1>3, <1>4, <1>5
<1>7. KeysAreUnique(left)
  <2>1. left \subseteq matches
    BY DEF RemoveMatchesInBaseline
  <2> HIDE DEF left
  <2> QED BY <2>1 DEF IInv, TypeOK, KeysAreUnique
<1> HIDE DEF left, n, k
<1>8. /\ IsFiniteSet(Indices(left, p, rule, ctx))
      /\ Cardinality(Indices(left, p, rule, ctx)) = IF k >= n THEN 0 ELSE n - k
  BY <1>2, <1>6, Remainder
<1>9. Cardinality(Found(left, p, rule, ctx)) = IF k >= n THEN 0 ELSE n - k
  BY <1>7, <1>8, KeysCount
<1>10. ASSUME Found(left, p, rule, ctx) # {} PROVE k < n
  <2>1. \E i : i \in (0 .. (n - 1)) \ (0 .. (k - 1))
    BY <1>6, <1>10 DEF Indices
  <2> QED BY <1>2, <2>1
<1> QED BY <1>2, <1>9, <1>10 DEF left, n, k

LEMMA BaselineParts ==
  ASSUME IInv, ScanBaseline, edits = {}, raised' = NoCode
  PROVE  /\ \E failures \in {f \in Failures : Unparsed(f) = {}} :
              LET errors == [i \in DOMAIN failures |-> CoreErrorToSemgrepError(failures[i])]
                  roots == BaselineTargets \cap Files(commits.base)
              IN  /\ baseErrors' = errors
                  /\ structured' = HandleErrors(structured, errors)
                  /\ \E found \in RunRules(commits.base, roots, roots, {m.rule : m \in matches}, errors) :
                       matches' = RemoveMatchesInBaseline(matches, found, status.renamed, errors)
         /\ pc = "baseline" /\ raised = NoCode /\ UNCHANGED <<opts, start, commits, status>>
<1>1. FATAL # NoCode
  BY DEF FATAL, NoCode
<1>2. (IF cwd = "worktree" THEN commits.base ELSE work) = commits.base
  BY DEF IInv, TypeOK, Compared, ScanBaseline
<1> QED BY <1>1, <1>2 DEF ScanBaseline, repoVars

(* The findings that the scan of the baseline leaves.                      *)
LEMMA BaselineStep ==
  ASSUME IInv, ScanBaseline, opts.baseline, edits = {}, raised' = NoCode
  PROVE  OnlyNew' /\ AllNew'
<1> DEFINE roots == BaselineTargets \cap Files(commits.base)
           rules == {m.rule : m \in matches}
<1>1. pc = "baseline" /\ raised = NoCode /\ UNCHANGED <<opts, start, commits, status>>
  BY BaselineParts
<1>2. HeadFound
  BY <1>1 DEF IInv, Compared
<1>3. PICK failures \in {f \in Failures : Unparsed(f) = {}} :
        LET errors == [i \in DOMAIN failures |-> CoreErrorToSemgrepError(failures[i])]
        IN  /\ baseErrors' = errors
            /\ structured' = HandleErrors(structured, errors)
            /\ \E found \in RunRules(commits.base, roots, roots, rules, errors) :
                 matches' = RemoveMatchesInBaseline(matches, found, status.renamed, errors)
  BY BaselineParts
<1> DEFINE errors == [i \in DOMAIN failures |-> CoreErrorToSemgrepError(failures[i])]
<1>4. errors \in Seq(ToSet(errors)) /\ Unparsed(errors) = {}
  BY CoreReports, KindsStay
<1>5. baseErrors' = errors /\ structured' = HandleErrors(structured, errors)
  BY <1>3
<1>6. PICK found \in RunRules(commits.base, roots, roots, rules, errors) :
        matches' = RemoveMatchesInBaseline(matches, found, status.renamed, errors)
  BY <1>3
<1> HIDE DEF errors
<1>7. \A p, rule, ctx : /\ Occurrences(start, p, rule, ctx)' = Occurrences(start, p, rule, ctx)
                        /\ Occurrences(commits.base, p, rule, ctx)' = Occurrences(commits.base, p, rule, ctx)
  BY <1>1 DEF Occurrences
<1>8. /\ SearchRules' = SearchRules /\ HeadTargets' = HeadTargets
      /\ \A p : OldName(p)' = OldName(p)
  BY <1>1 DEF SearchRules, HeadTargets, OldName
<1>9. \A p, rule, ctx : New(p, rule, ctx)'
                          = Occurrences(start, p, rule, ctx) - Occurrences(commits.base, OldName(p), rule, ctx)
  BY <1>7, <1>8 DEF New
<1>10. \A p, rule, ctx : Reported(p, rule, ctx)' = Cardinality(Found(matches', p, rule, ctx))
  BY DEF Reported, Found
<1>11. ASSUME NEW m \in matches', m.rule # JoinRule, ~(OldName(m.path)' # m.path /\ baseErrors' # << >>)
       PROVE  Reported(m.path, m.rule, m.ctx)' <= New(m.path, m.rule, m.ctx)'
  <2> DEFINE q == OldName(m.path)
             n == Occurrences(start, m.path, m.rule, m.ctx)
             k == Occurrences(commits.base, q, m.rule, m.ctx)
             ran == Scanned(commits.base, roots, rules, errors, q, m.rule)
             found1 == Found(matches', m.path, m.rule, m.ctx)
  <2>1. /\ m \in matches
        /\ m.path \notin FileWidePaths(errors) /\ <<m.path, m.rule>> \notin RuleScopedPaths(errors)
    BY <1>6 DEF RemoveMatchesInBaseline
  <2>2. Full(m.path, m.rule, m.ctx)
    BY <1>2, <1>11, <2>1 DEF HeadFound
  <2>3. /\ n \in Nat /\ (IF ran THEN k ELSE 0) \in Nat
        /\ found1 # {} => (IF ran THEN k ELSE 0) < n
        /\ Cardinality(found1) = IF (IF ran THEN k ELSE 0) >= n THEN 0 ELSE n - (IF ran THEN k ELSE 0)
    BY <1>4, <1>6, <1>11, <2>1, <2>2, LeftOver
  <2>4. found1 # {}
    BY DEF Found
  <2>5. ~ran => k = 0
    <3>1. CASE q \notin Files(commits.base)
      BY <3>1 DEF Occurrences
    <3>2. CASE q \in Files(commits.base)
      <4>1. q \in roots /\ m.rule \in rules
        BY <1>1, <2>1, <3>2, OldNames
      <4>2. q \notin FileWidePaths(errors) /\ <<q, m.rule>> \notin RuleScopedPaths(errors)
        <5>1. CASE q = m.path
          BY <2>1, <5>1
        <5>2. CASE q # m.path
          <6>1. errors = << >>
            BY <1>5, <1>8, <1>11, <5>2
          <6>2. ToSet(errors) = {}
            BY <6>1 DEF ToSet
          <6> QED BY <6>2 DEF FileWidePaths, RuleScopedPaths
        <5> QED BY <5>1, <5>2
      <4> QED BY <3>2, <4>1, <4>2 DEF Scanned
    <3> QED BY <3>1, <3>2
  <2>6. New(m.path, m.rule, m.ctx)' = n - k /\ Reported(m.path, m.rule, m.ctx)' = Cardinality(found1)
    BY <1>9, <1>10
  <2>7. k = IF ran THEN k ELSE 0
    BY <2>5
  <2> HIDE DEF q, n, k, ran, found1
  <2>8. k \in Nat /\ n \in Nat /\ k < n /\ Cardinality(found1) = n - k
    BY <2>3, <2>4, <2>7
  <2> QED BY <2>6, <2>8
<1>12. ASSUME structured'.all = {}, NEW p \in HeadTargets \cap Files(start), NEW i \in DOMAIN start[p],
              start[p][i].rule \in SearchRules
       PROVE  Reported(p, start[p][i].rule, start[p][i].ctx)' >= New(p, start[p][i].rule, start[p][i].ctx)'
  <2> DEFINE rule == start[p][i].rule
             ctx == start[p][i].ctx
             q == OldName(p)
             n == Occurrences(start, p, rule, ctx)
             k == Occurrences(commits.base, q, rule, ctx)
             ran == Scanned(commits.base, roots, rules, errors, q, rule)
             found1 == Found(matches', p, rule, ctx)
  <2>1. structured.all = {} /\ ToSet(errors) = {}
    <3>1. structured'.all = structured.all \cup ToSet(errors)
      BY <1>4, <1>5, ReportedErrors DEF IInv, Errors
    <3> QED BY <1>12, <3>1
  <2>2. p \notin FileWidePaths(errors) /\ <<p, rule>> \notin RuleScopedPaths(errors)
    BY <2>1 DEF FileWidePaths, RuleScopedPaths
  <2>3. Full(p, rule, ctx)
    BY <1>2, <1>12, <2>1 DEF HeadFound
  <2>4. rule # JoinRule
    <3>1. IsTree(start)
      BY DEF IInv, Trees
    <3> QED BY <3>1, ScanAssumption DEF IsTree, Files
  <2>5. k \in Nat
    BY OccurrencesType DEF IInv, Trees
  <2>6. New(p, rule, ctx)' = n - k /\ Reported(p, rule, ctx)' = Cardinality(found1)
    BY <1>1, <1>9, <1>10
  <2> HIDE DEF rule, ctx
  <2>7. /\ n \in Nat /\ (IF ran THEN k ELSE 0) \in Nat
        /\ Cardinality(found1) = IF (IF ran THEN k ELSE 0) >= n THEN 0 ELSE n - (IF ran THEN k ELSE 0)
    BY <1>4, <1>6, <2>2, <2>3, <2>4, LeftOver
  <2> HIDE DEF n, k, ran, found1
  <2>8. Cardinality(found1) >= n - k
    BY <2>5, <2>7
  <2> QED BY <2>6, <2>8 DEF rule, ctx
<1>13. OnlyNew'
  BY <1>11 DEF OnlyNew
<1>14. AllNew'
  BY <1>1, <1>8, <1>12 DEF AllNew
<1> QED BY <1>13, <1>14

(* A step that leaves findings, errors and commits alone.                  *)
LEMMA FindingsKept ==
  ASSUME UNCHANGED <<opts, commits, start, status, matches, structured, baseErrors>>, opts.baseline
  PROVE  HeadFound' = HeadFound /\ OnlyNew' = OnlyNew /\ AllNew' = AllNew
<1>1. /\ SearchRules' = SearchRules /\ HeadTargets' = HeadTargets
      /\ \A p : OldName(p)' = OldName(p)
  BY DEF SearchRules, HeadTargets, OldName
<1>2. \A p, rule, ctx : /\ Occurrences(start, p, rule, ctx)' = Occurrences(start, p, rule, ctx)
                        /\ Occurrences(commits.base, p, rule, ctx)' = Occurrences(commits.base, p, rule, ctx)
  BY DEF Occurrences
<1>3. \A p, rule, ctx : Full(p, rule, ctx)' = Full(p, rule, ctx)
  BY <1>2 DEF Full, Indices, Found
<1>4. \A p, rule, ctx : New(p, rule, ctx)' = New(p, rule, ctx)
  BY <1>1, <1>2 DEF New
<1>5. \A p, rule, ctx : Reported(p, rule, ctx)' = Reported(p, rule, ctx)
  BY DEF Reported
<1>6. HeadFound' = HeadFound
  BY <1>1, <1>3 DEF HeadFound
<1>7. OnlyNew' = OnlyNew
  BY <1>1, <1>4, <1>5 DEF OnlyNew
<1>8. AllNew' = AllNew
  BY <1>1, <1>4, <1>5 DEF AllNew
<1> QED BY <1>6, <1>7, <1>8

(* A step along which neither findings nor errors change.                  *)
Early == {"decide", "strategy", "reset", "add worktree", "chdir", "checkout", "baseline"}
Late == {"restore", "remove worktree", "filter", "fix", "output", "done"}

LEMMA QuietStep ==
  ASSUME IInv, UNCHANGED <<opts, commits, start, edits, status, matches, baseErrors>>,
         raised' = NoCode => /\ raised = NoCode /\ UNCHANGED structured
                             /\ (pc' \in Early => pc \in Early) /\ (pc' \in Late => pc \in Late),
         pc' = "baseline" /\ cwd' = "checkout" /\ edits = {} => work' = commits.base
  PROVE  Compared'
<1>1. ASSUME opts'.baseline, edits' = {}, raised' = NoCode
      PROVE  /\ pc' \in Early => HeadFound'
             /\ pc' \in Late => OnlyNew' /\ AllNew'
  <2>1. /\ pc' \in Early => HeadFound
        /\ pc' \in Late => OnlyNew /\ AllNew
    BY <1>1 DEF IInv, Compared, Early, Late
  <2>2. HeadFound' = HeadFound /\ OnlyNew' = OnlyNew /\ AllNew' = AllNew
    BY <1>1, FindingsKept
  <2> QED BY <2>1, <2>2
<1> QED BY <1>1 DEF Compared, Early, Late

LEMMA ComparedStep == IInv /\ [Next]_vars => Compared'
<1> SUFFICES ASSUME IInv, [Next]_vars PROVE Compared'
  OBVIOUS
<1> USE DEF Early, Late
<1>0. FATAL # NoCode /\ MISSING_CONFIG # NoCode
  BY DEF FATAL, MISSING_CONFIG, NoCode
<1>1. CASE LoadRules
  <2>1. pc' \in {"output", "handler"} /\ (pc' = "output" => raised' = MISSING_CONFIG)
    BY <1>1 DEF LoadRules, Goto, Raise
  <2> QED BY <1>0, <2>1 DEF Compared
<1>2. CASE OpenBaseline
  <2>1. pc' \in {"output", "scan"} /\ (pc' = "output" => raised' = FATAL)
    BY <1>2 DEF OpenBaseline, Goto, Raise
  <2> QED BY <1>0, <2>1 DEF Compared
<1>3. CASE ScanHead
  <2>1. UNCHANGED <<opts, edits>> /\ pc' \in {"decide", "output"}
    BY <1>3 DEF ScanHead, Goto, Raise, repoVars
  <2>2. opts.baseline /\ edits = {} /\ raised' = NoCode => HeadFound' /\ pc' = "decide"
    BY <1>3, HeadStep
  <2> QED BY <2>1, <2>2 DEF Compared
<1>4. CASE Decide
  <2>1. UNCHANGED <<opts, repoVars, matchVars, structured, raised>> /\ pc = "decide"
    BY <1>4 DEF Decide, outVars
  <2>2. pc' = IF opts.baseline /\ matches # {} /\ BaselineTargets # {} THEN "strategy" ELSE "filter"
    BY <1>4 DEF Decide, Goto
  <2>3. ASSUME opts.baseline, edits = {}, raised = NoCode
        PROVE  /\ pc' = "strategy" => HeadFound'
               /\ pc' = "filter" => OnlyNew' /\ AllNew'
    <3>1. HeadFound /\ (pc' = "filter" => OnlyNew /\ AllNew)
      BY <2>1, <2>2, <2>3, SkippedBaseline DEF IInv, Compared
    <3>2. HeadFound' = HeadFound /\ OnlyNew' = OnlyNew /\ AllNew' = AllNew
      BY <2>1, <2>3, FindingsKept DEF repoVars, matchVars
    <3> QED BY <3>1, <3>2
  <2>4. pc' \in {"strategy", "filter"} /\ UNCHANGED <<opts, edits, raised>>
    BY <2>1, <2>2 DEF repoVars
  <2> QED BY <2>3, <2>4 DEF Compared
<1>5. CASE ChooseStrategy
  <2>1. /\ UNCHANGED <<opts, commits, start, edits, status, matches, baseErrors>>
        /\ raised' = NoCode => raised = NoCode /\ UNCHANGED structured
    BY <1>0, <1>5 DEF ChooseStrategy, Goto, Raise, repoVars, matchVars, outVars
  <2>2. raised' = NoCode => (pc' \in Early => pc \in Early) /\ (pc' \in Late => pc \in Late)
    BY <1>0, <1>5 DEF ChooseStrategy, Goto, Raise, AfterBaseline
  <2>3. pc' = "baseline" /\ cwd' = "checkout" /\ edits = {} => work' = commits.base
    BY <1>5 DEF ChooseStrategy, Goto, Raise, AfterBaseline
  <2> QED BY <2>1, <2>2, <2>3, QuietStep
<1>6. CASE ResetToBase
  <2>1. /\ UNCHANGED <<opts, commits, start, edits, status, matches, baseErrors>>
        /\ raised' = NoCode => raised = NoCode /\ UNCHANGED structured
    BY <1>0, <1>6 DEF ResetToBase, Goto, Raise, repoVars, matchVars, outVars
  <2>2. raised' = NoCode => (pc' \in Early => pc \in Early) /\ (pc' \in Late => pc \in Late)
    BY <1>0, <1>6 DEF ResetToBase, Goto, Raise, AfterBaseline
  <2>3. pc' = "baseline" /\ cwd' = "checkout" /\ edits = {} => work' = commits.base
    BY <1>6 DEF ResetToBase, Goto, Raise, AfterBaseline
  <2> QED BY <2>1, <2>2, <2>3, QuietStep
<1>7. CASE AddWorktree
  <2>1. /\ UNCHANGED <<opts, commits, start, edits, status, matches, baseErrors>>
        /\ raised' = NoCode => raised = NoCode /\ UNCHANGED structured
    BY <1>0, <1>7 DEF AddWorktree, Goto, Raise, repoVars, matchVars, outVars
  <2>2. raised' = NoCode => (pc' \in Early => pc \in Early) /\ (pc' \in Late => pc \in Late)
    BY <1>0, <1>7 DEF AddWorktree, Goto, Raise, AfterBaseline
  <2>3. pc' = "baseline" /\ cwd' = "checkout" /\ edits = {} => work' = commits.base
    BY <1>7 DEF AddWorktree, Goto, Raise, AfterBaseline
  <2> QED BY <2>1, <2>2, <2>3, QuietStep
<1>8. CASE ChangeDirectory
  <2>1. /\ UNCHANGED <<opts, commits, start, edits, status, matches, baseErrors>>
        /\ raised' = NoCode => raised = NoCode /\ UNCHANGED structured
    BY <1>0, <1>8 DEF ChangeDirectory, Goto, Raise, repoVars, matchVars, outVars
  <2>2. raised' = NoCode => (pc' \in Early => pc \in Early) /\ (pc' \in Late => pc \in Late)
    BY <1>0, <1>8 DEF ChangeDirectory, Goto, Raise, AfterBaseline
  <2>3. pc' = "baseline" /\ cwd' = "checkout" /\ edits = {} => work' = commits.base
    BY <1>8 DEF ChangeDirectory, Goto, Raise, AfterBaseline
  <2> QED BY <2>1, <2>2, <2>3, QuietStep
<1>9. CASE CheckOut
  <2>1. /\ UNCHANGED <<opts, commits, start, edits, status, matches, baseErrors>>
        /\ raised' = NoCode => raised = NoCode /\ UNCHANGED structured
    BY <1>0, <1>9 DEF CheckOut, Goto, Raise, repoVars, matchVars, outVars
  <2>2. raised' = NoCode => (pc' \in Early => pc \in Early) /\ (pc' \in Late => pc \in Late)
    BY <1>0, <1>9 DEF CheckOut, Goto, Raise, AfterBaseline
  <2>3. pc' = "baseline" /\ cwd' = "checkout" /\ edits = {} => work' = commits.base
    BY <1>9 DEF CheckOut, Goto, Raise, AfterBaseline, IInv, Repo
  <2> QED BY <2>1, <2>2, <2>3, QuietStep
<1>10. CASE ScanBaseline
  <2>1. UNCHANGED <<opts, edits>> /\ pc' \in {"restore", "remove worktree"}
    BY <1>10 DEF ScanBaseline, Goto, CleanUp, repoVars
  <2>2. opts.baseline /\ edits = {} /\ raised' = NoCode => OnlyNew' /\ AllNew'
    BY <1>10, BaselineStep
  <2> QED BY <2>1, <2>2 DEF Compared
<1>11. CASE RestoreHead
  <2>1. /\ UNCHANGED <<opts, commits, start, edits, status, matches, baseErrors>>
        /\ raised' = NoCode => raised = NoCode /\ UNCHANGED structured
    BY <1>0, <1>11 DEF RestoreHead, Goto, Raise, repoVars, matchVars, outVars
  <2>2. raised' = NoCode => (pc' \in Early => pc \in Early) /\ (pc' \in Late => pc \in Late)
    BY <1>0, <1>11 DEF RestoreHead, Goto, Raise, AfterBaseline
  <2>3. pc' = "baseline" /\ cwd' = "checkout" /\ edits = {} => work' = commits.base
    BY <1>11 DEF RestoreHead, Goto, Raise, AfterBaseline
  <2> QED BY <2>1, <2>2, <2>3, QuietStep
<1>12. CASE RemoveWorktree
  <2>1. /\ UNCHANGED <<opts, commits, start, edits, status, matches, baseErrors>>
        /\ raised' = NoCode => raised = NoCode /\ UNCHANGED structured
    BY <1>0, <1>12 DEF RemoveWorktree, Goto, Raise, repoVars, matchVars, outVars
  <2>2. raised' = NoCode => (pc' \in Early => pc \in Early) /\ (pc' \in Late => pc \in Late)
    BY <1>0, <1>12 DEF RemoveWorktree, Goto, Raise, AfterBaseline
  <2>3. pc' = "baseline" /\ cwd' = "checkout" /\ edits = {} => work' = commits.base
    BY <1>12 DEF RemoveWorktree, Goto, Raise, AfterBaseline
  <2> QED BY <2>1, <2>2, <2>3, QuietStep
<1>13. CASE FilterNosem
  <2>1. /\ UNCHANGED <<opts, commits, start, edits, status, matches, baseErrors>>
        /\ raised' = NoCode => raised = NoCode /\ UNCHANGED structured
    BY <1>0, <1>13 DEF FilterNosem, Goto, Raise, repoVars, matchVars, outVars
  <2>2. raised' = NoCode => (pc' \in Early => pc \in Early) /\ (pc' \in Late => pc \in Late)
    BY <1>0, <1>13 DEF FilterNosem, Goto, Raise, AfterBaseline
  <2>3. pc' = "baseline" /\ cwd' = "checkout" /\ edits = {} => work' = commits.base
    BY <1>13 DEF FilterNosem, Goto, Raise, AfterBaseline
  <2> QED BY <2>1, <2>2, <2>3, QuietStep
<1>14. CASE ApplyFixes
  <2>1. /\ UNCHANGED <<opts, commits, start, edits, status, matches, baseErrors>>
        /\ raised' = NoCode => raised = NoCode /\ UNCHANGED structured
    BY <1>0, <1>14 DEF ApplyFixes, Goto, Raise, repoVars, matchVars, outVars
  <2>2. raised' = NoCode => (pc' \in Early => pc \in Early) /\ (pc' \in Late => pc \in Late)
    BY <1>0, <1>14 DEF ApplyFixes, Goto, Raise, AfterBaseline
  <2>3. pc' = "baseline" /\ cwd' = "checkout" /\ edits = {} => work' = commits.base
    BY <1>14 DEF ApplyFixes, Goto, Raise, AfterBaseline
  <2> QED BY <2>1, <2>2, <2>3, QuietStep
<1>15. CASE Output
  <2>1. /\ UNCHANGED <<opts, commits, start, edits, status, matches, baseErrors>>
        /\ raised' = NoCode => raised = NoCode /\ UNCHANGED structured
    BY <1>0, <1>15 DEF Output, Goto, Raise, repoVars, matchVars, outVars
  <2>2. raised' = NoCode => (pc' \in Early => pc \in Early) /\ (pc' \in Late => pc \in Late)
    BY <1>0, <1>15 DEF Output, Goto, Raise, AfterBaseline
  <2>3. pc' = "baseline" /\ cwd' = "checkout" /\ edits = {} => work' = commits.base
    BY <1>15 DEF Output, Goto, Raise, AfterBaseline
  <2> QED BY <2>1, <2>2, <2>3, QuietStep
<1>16. ASSUME NEW p \in Files(work), Edit(p)
      PROVE  Compared'
  <2>1. edits' # {}
    BY <1>16 DEF Edit
  <2> QED BY <2>1 DEF Compared
<1>17. CASE UNCHANGED vars
  <2>1. /\ UNCHANGED <<opts, commits, start, edits, status, matches, baseErrors>>
        /\ UNCHANGED <<raised, structured, pc, cwd, work>>
    BY <1>17 DEF vars, repoVars, matchVars, outVars
  <2>2. pc = "baseline" /\ cwd = "checkout" /\ edits = {} => work = commits.base
    BY DEF IInv, Compared
  <2> QED BY <2>1, <2>2, QuietStep
<1> QED
  BY <1>1, <1>2, <1>3, <1>4, <1>5, <1>6, <1>7, <1>8, <1>9, <1>10, <1>11, <1>12, <1>13, <1>14,
     <1>15, <1>16, <1>17
  DEF Next

(* What Output makes of the findings and the errors.                       *)
LEMMA OutputTells ==
  ASSUME IInv, Output
  PROVE  ExitTells' /\ exit' \in {OK, FINDINGS, FATAL, TARGET_PARSE_FAILURE, MISSING_CONFIG}
<1> DEFINE errors == IF raised = NoCode THEN structured ELSE HandleErrors(structured, <<Raised(raised)>>)
           shown == {m \in filtered.kept : opts.disableNosem \/ ~m.ignored}
<1>1. /\ exit' = ExitCode(IF raised = NoCode THEN shown ELSE {}, errors, opts.errorOnFindings, opts.strict)
      /\ UNCHANGED <<opts, matches, filtered, raised>> /\ pc = "output"
  BY DEF Output, matchVars
<1>2. Errors /\ Filtered /\ raised \in {NoCode, FATAL, MISSING_CONFIG}
  BY DEF IInv, TypeOK
<1> USE DEF OK, FINDINGS, FATAL, TARGET_PARSE_FAILURE, MISSING_CONFIG, NoCode
<1>3. CASE raised = NoCode
  <2>1. errors.all # {} => OfCore(errors.last)
    BY <1>2, <1>3 DEF Errors
  <2>2. errors.all # {} => FinalCode(errors.last, opts.strict) \in {OK, FATAL, TARGET_PARSE_FAILURE}
    BY <2>1 DEF FinalCode, OfCore
  <2> HIDE DEF errors, shown
  <2>3. /\ exit' \in {OK, FINDINGS, FATAL, TARGET_PARSE_FAILURE}
        /\ exit' = FINDINGS => shown # {}
        /\ shown # {} /\ opts.errorOnFindings => exit' = FINDINGS
    BY <1>1, <1>3, <2>2 DEF ExitCode
  <2>4. shown # {} => \E m \in filtered.kept : ~m.ignored \/ opts.disableNosem
    BY DEF shown
  <2>5. (\E m \in matches : ~m.ignored) => shown # {}
    <3>1. filtered.kept = {m \in matches : KeepIgnored \/ ~m.ignored}
      BY <1>1, <1>2, <1>3 DEF Filtered, FilterIgnored
    <3> QED BY <3>1 DEF shown
  <2> QED BY <1>1, <1>3, <2>3, <2>4, <2>5 DEF ExitTells
<1>4. CASE raised # NoCode
  <2>1. errors.last = Raised(raised) /\ errors.all # {}
    BY <1>2, <1>4, OneError DEF Errors
  <2>2. FinalCode(errors.last, opts.strict) = raised
    BY <2>1, RaisedCodes DEF FinalCode, Interfile
  <2> HIDE DEF errors, shown
  <2>3. exit' = raised
    BY <1>1, <1>4, <2>1, <2>2 DEF ExitCode
  <2> QED BY <1>1, <1>2, <1>4, <2>3 DEF ExitTells
<1> QED BY <1>3, <1>4

LEMMA ExitStep ==
  IInv /\ [Next]_vars =>
    ExitTells' /\ exit' \in {NoCode, OK, FINDINGS, FATAL, TARGET_PARSE_FAILURE, MISSING_CONFIG}
<1> SUFFICES ASSUME IInv, [Next]_vars
             PROVE  ExitTells' /\ exit' \in {NoCode, OK, FINDINGS, FATAL, TARGET_PARSE_FAILURE, MISSING_CONFIG}
  OBVIOUS
<1>1. CASE Output
  BY <1>1, OutputTells
<1>2. CASE UNCHANGED vars \/ \E p \in Files(work) : Edit(p)
  <2>1. UNCHANGED <<opts, matches, filtered, raised, exit, pc>>
    BY <1>2 DEF vars, Edit, matchVars, outVars
  <2> QED BY <2>1 DEF IInv, TypeOK, ExitTells
<1>3. CASE ~Output /\ ~UNCHANGED vars /\ ~\E p \in Files(work) : Edit(p)
  <2>1. UNCHANGED exit
    BY <1>3 DEF Next, LoadRules, OpenBaseline, ScanHead, Decide, ChooseStrategy, ResetToBase, AddWorktree,
         ChangeDirectory, CheckOut, ScanBaseline, RestoreHead, RemoveWorktree, FilterNosem, ApplyFixes, outVars
  <2>2. pc' # "done"
    BY <1>3 DEF Next, LoadRules, OpenBaseline, ScanHead, Decide, ChooseStrategy, ResetToBase, AddWorktree,
         ChangeDirectory, CheckOut, ScanBaseline, RestoreHead, RemoveWorktree, FilterNosem, ApplyFixes,
         Goto, Raise, AfterBaseline, CleanUp
  <2> QED BY <2>1, <2>2 DEF IInv, TypeOK, ExitTells
<1> QED BY <1>1, <1>2, <1>3

-----------------------------------------------------------------------------
(* The theorems                                                            *)

LEMMA InitInv == Init => IInv
<1> SUFFICES ASSUME Init PROVE IInv
  OBVIOUS
<1>1. /\ opts \in Options /\ branch = "head" /\ worktree = "none" /\ cwd = "checkout" /\ edits = {} /\ lost = {}
      /\ matches = {} /\ structured = NoErrors /\ raised = NoCode /\ restored = "yes" /\ exit = NoCode
      /\ pc = "config" /\ work = start
  BY DEF Init
<1>2. PICK s \in Scenarios : commits = [base |-> s.base, head |-> s.head] /\ start = s.start
  BY DEF Init
<1>3. TypeOK
  BY <1>1 DEF TypeOK, Phases
<1>4. Trees
  BY <1>1, <1>2, ScanAssumption DEF Trees
<1>5. Repo
  BY <1>1, <1>4, StartWithNothing DEF Repo, Resetting, Before, Trees, Wanted
<1>6. Edits
  BY <1>1 DEF Edits
<1>7. Errors
  BY <1>1 DEF Errors, NoErrors
<1>8. Filtered /\ ExitTells
  BY <1>1 DEF Filtered, ExitTells
<1>9. AreMatches(matches) /\ Status /\ Compared
  BY <1>1 DEF AreMatches, Status, Compared
<1> QED BY <1>3, <1>4, <1>5, <1>6, <1>7, <1>8, <1>9 DEF IInv

LEMMA InvHolds == Spec => []IInv
<1>1. Init => IInv
  BY InitInv
<1>2. IInv /\ [Next]_vars => IInv'
  <2> SUFFICES ASSUME IInv, [Next]_vars PROVE IInv'
    OBVIOUS
  <2>1. Trees' /\ Edits' /\ Repo' /\ Errors' /\ Filtered' /\ ExitTells'
    BY TreesStep, RepoStep, ErrorsStep, FilteredStep, ExitStep
  <2>2. Scalars' /\ KeysAreUnique(matches') /\ AreMatches(matches') /\ Status' /\ Compared'
    BY ScalarsStep, KeysStep, StatusStep, ComparedStep
  <2>3. exit' \in {NoCode, OK, FINDINGS, FATAL, TARGET_PARSE_FAILURE, MISSING_CONFIG}
    BY ExitStep
  <2>4. TypeOK'
    BY <2>1, <2>2, <2>3 DEF TypeOK, Scalars, KeysAreUnique, Edits
  <2>5. AreMatches(matches)'
    BY <2>2 DEF AreMatches
  <2> QED BY <2>1, <2>2, <2>4, <2>5 DEF IInv
<1> QED BY <1>1, <1>2, PTL DEF Spec

(* The types, and that no two findings share the key by which they are     *)
(* compared with the baseline, in whatever order semgrep-core sends them.  *)
THEOREM ScanTypeCorrect == Spec => []TypeOK
<1>1. IInv => TypeOK
  BY DEF IInv
<1> QED BY <1>1, InvHolds, PTL

(* Whatever fails in the scan of the baseline, the user has the branch,    *)
(* directory and checkout of before with every edit made meanwhile, unless *)
(* the clean-up itself failed; the edits that are not there were made      *)
(* between the clean check and the end of the second reset.                *)
THEOREM CheckoutComesBack == Spec => []TreeRestored
<1>1. IInv => TreeRestored
  BY DEF IInv, Repo, Wanted, TreeRestored
<1> QED BY <1>1, InvHolds, PTL

(* A diff scan reports exactly the new occurrences of a piece of code:     *)
(* however the findings of either scan arrive, whatever fails in the scan  *)
(* of the baseline, and whether it resets the checkout or adds a worktree. *)
THEOREM DiffScanIsExact == Spec => []NewFindingsExact
<1>1. IInv => NewFindingsExact
  BY DEF IInv, Compared, NewFindingsExact
<1> QED BY <1>1, InvHolds, PTL

(* The exit code is that of the exception, or of a finding that was shown, *)
(* and with --error never that of success while a finding is left.         *)
THEOREM ExitIsTheOutcome == Spec => []ExitTells
<1>1. IInv => ExitTells
  BY DEF IInv
<1> QED BY <1>1, InvHolds, PTL
=============================================================================
