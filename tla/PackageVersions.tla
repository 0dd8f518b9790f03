---------------------------- MODULE PackageVersions ----------------------------
(***************************************************************************)
(* Versions of packages and sets of version specifiers, as the linter      *)
(* compares them for PyPI and most other ecosystems (the copy of packaging *)
(* in semdep/external).                                                    *)
(*                                                                         *)
(* A version that PEP 440 knows is a record [kind, epoch, release, pre,    *)
(* post, dev, local]: release is a sequence of numbers, pre is << >> or    *)
(* <<letter, number>>, post and dev are << >> or <<number>>, and local is  *)
(* a sequence of <<isNumber, value>>.  The letters a, b and rc are 1, 2    *)
(* and 3.  Any other text is a legacy version, a record [kind, parts] of   *)
(* its words and numbers.  A specifier is a record [op, version, wild].    *)
(***************************************************************************)
EXTENDS Integers, Sequences, SequencesExt

Final(release) ==
  [kind |-> "pep440", epoch |-> 0, release |-> release, pre |-> << >>, post |-> << >>,
   dev |-> << >>, local |-> << >>]

IsLegacy(v) == v.kind = "legacy"
IsPrerelease(v) == ~IsLegacy(v) /\ (v.pre # << >> \/ v.dev # << >>)
IsPostrelease(v) == ~IsLegacy(v) /\ v.post # << >>
Public(v) == IF IsLegacy(v) THEN v ELSE [v EXCEPT !.local = << >>]

-----------------------------------------------------------------------------
(* Order                                                                   *)

LetterOf ==
  [w \in {"a", "alpha", "b", "beta", "c", "rc", "pre", "preview"} |->
     CASE w \in {"a", "alpha"} -> 1 [] w \in {"b", "beta"} -> 2 [] OTHER -> 3]

(* _parse_letter_version: a word without a number has number 0.            *)
ParseLetterVersion(word, number) ==
  IF word = "" THEN << >> ELSE <<LetterOf[word], IF number = << >> THEN 0 ELSE number[1]>>

(* Tuples compare at the first place they differ; of two that agree, the   *)
(* shorter is the lower.                                                   *)
Lexically(a, b, Lower(_, _)) ==
  \E i \in 1..Len(b) :
    /\ i - 1 <= Len(a) /\ \A j \in 1..(i - 1) : a[j] = b[j]
    /\ i > Len(a) \/ Lower(a[i], b[i])

TupleLess(a, b) == Lexically(a, b, <)

WithoutZeros(release) ==
  LET last == {i \in DOMAIN release : release[i] # 0}
  IN  SubSeq(release, 1, CHOOSE n \in {0} \cup last : \A i \in last : i <= n)

(* Mutant: a development release sorts after the pre-releases.             *)
CmpKeyDevLast(v) ==
  <<<<v.epoch>>, WithoutZeros(v.release),
    IF v.pre = << >> THEN <<2>> ELSE <<1>> \o v.pre,
    IF v.post = << >> THEN <<0>> ELSE <<1>> \o v.post,
    IF v.dev = << >> THEN <<1>> ELSE <<0>> \o v.dev,
    IF v.local = << >> THEN <<0>> ELSE <<1>> \o FlattenSeq(v.local)>>

(* _cmpkey: 0, 1 and 2 stand for what is below, among and above the stated *)
(* values.  A dev release of a final version is below its pre-releases.    *)
CmpKey(v) ==
  <<<<v.epoch>>, WithoutZeros(v.release),
    IF v.pre # << >> THEN <<1>> \o v.pre
    ELSE IF v.post = << >> /\ v.dev # << >> THEN <<0>> ELSE <<2>>,
    IF v.post = << >> THEN <<0>> ELSE <<1>> \o v.post,
    IF v.dev = << >> THEN <<1>> ELSE <<0>> \o v.dev,
    IF v.local = << >> THEN <<0>> ELSE <<1>> \o FlattenSeq(v.local)>>

(* The words of a legacy version in the order of their spelling; - is      *)
(* spelled final- and dev is spelled @.                                    *)
Words == <<"!", "*", "+", "@", "a", "b", "c", "final", "final-", "other", "post">>
Word(w) == <<0, CHOOSE i \in DOMAIN Words : Words[i] = w>>
Number(n) == <<1, n>>

(* _legacy_cmpkey: a word takes the zeros before it away, and one that     *)
(* sorts before final takes the dashes before those.                       *)
LegacyCmpKey(parts) ==
  LET Strip(seq, drop) ==
        LET kept == {i \in DOMAIN seq : seq[i] # drop}
        IN  SubSeq(seq, 1, CHOOSE n \in {0} \cup kept : \A i \in kept : i <= n)
      Take(key, part) ==
        IF part[1] = 1 THEN Append(key, part)
        ELSE Append(Strip(IF TupleLess(part, Word("final")) THEN Strip(key, Word("final-")) ELSE key,
                          Number(0)), part)
  IN  <<<<-1>>>> \o FoldLeft(Take, << >>, Append(parts, Word("final")))

(* The sign of the comparison of two versions.                             *)
CmpKeys(a, b) == IF a = b THEN 0 ELSE IF Lexically(a, b, TupleLess) THEN -1 ELSE 1

(* What an operator asks of that sign.                                     *)
Satisfies(op, sign) ==
  CASE op = "==" -> sign = 0  [] op = "!=" -> sign # 0
    [] op = "<=" -> sign <= 0 [] op = "<"  -> sign < 0
    [] op = ">=" -> sign >= 0 [] op = ">"  -> sign > 0

-----------------------------------------------------------------------------
(* Specifiers                                                              *)

(* The grammar of Specifier; LegacySpecifier knows six operators.          *)
IsSpecifier(s) ==
  \/ s.op = "==="
  \/ /\ ~IsLegacy(s.version)
     /\ s.op \notin {"==", "!="} => s.version.local = << >> /\ ~s.wild
     /\ s.wild => s.version.local = << >> /\ s.version.dev = << >>
     /\ s.op = "~=" => Len(s.version.release) > 1

IsLegacySpecifier(s) == ~IsSpecifier(s) /\ s.op \notin {"~=", "==="}
InvalidSpecifier(s) == ~IsSpecifier(s) /\ ~IsLegacySpecifier(s)

(* _version_split of the text of a version.                                *)
VersionSplit(v) ==
  [i \in DOMAIN v.release |->
     <<IF i = 1 /\ v.epoch # 0 THEN "epoch" ELSE "digits", v.release[i],
       IF i = 1 THEN v.epoch ELSE 0>>]
  \o (IF v.pre = << >> THEN << >> ELSE <<<<"pre", v.pre[1], v.pre[2]>>>>)
  \o (IF v.post = << >> THEN << >> ELSE <<<<"post", v.post[1], 0>>>>)
  \o (IF v.dev = << >> THEN << >> ELSE <<<<"dev", v.dev[1], 0>>>>)

(* The leading items of these kinds.                                       *)
TakeWhile(items, kinds) ==
  LET other == {i \in DOMAIN items : items[i][1] \notin kinds}
  IN  SubSeq(items, 1, (CHOOSE n \in {Len(items) + 1} \cup other : \A i \in other : n <= i) - 1)

(* _pad_version: zeros after the release until it is as long as this.      *)
Pad(items, digits) ==
  LET release == TakeWhile(items, {"digits"})
      missing == Len(digits) - Len(release)
  IN  release \o [i \in 1..missing |-> <<"digits", 0, 0>>]
        \o SubSeq(items, Len(release) + 1, Len(items))

(* _compare_equal with .* : the version, cut to as many items as the       *)
(* prefix has, is the prefix once both are padded.                         *)
PrefixMatches(prefix, v) ==
  LET split == VersionSplit(Public(v))
      cut == SubSeq(split, 1, IF Len(prefix) < Len(split) THEN Len(prefix) ELSE Len(split))
  IN  Pad(cut, TakeWhile(prefix, {"digits"})) = Pad(prefix, TakeWhile(cut, {"digits"}))

CompareEqual(s, v, sign) ==
  IF s.wild THEN PrefixMatches(VersionSplit(s.version), v) ELSE sign = 0

(* _compare_compatible: at least the version, with all but the last number *)
(* of its release as a prefix.                                             *)
CompareCompatible(s, v, sign) ==
  /\ sign >= 0
  /\ PrefixMatches(Front(TakeWhile(VersionSplit(s.version), {"digits", "epoch"})), v)

(* Equal base_version.                                                     *)
SameBase(v, w) == v.epoch = w.epoch /\ WithoutZeros(v.release) = WithoutZeros(w.release)

(* _compare_less_than: no pre-release of the version that < names.         *)
CompareLessThan(s, v, sign) ==
  /\ sign < 0
  /\ ~(~IsPrerelease(s.version) /\ IsPrerelease(v) /\ SameBase(v, s.version))

(* _compare_greater_than: neither a post-release nor a local version of    *)
(* the version that > names.                                               *)
CompareGreaterThan(s, v, sign) ==
  /\ sign > 0
  /\ ~(~IsPostrelease(s.version) /\ IsPostrelease(v) /\ SameBase(v, s.version))
  /\ ~(v.local # << >> /\ SameBase(v, s.version))

(* The operators that ignore the local part of a version.                  *)
Comparable(s, v) ==
  IF s.op \in {"<", ">"} \/ s.version.local # << >> THEN v ELSE Public(v)

CompareSign(s, v, sign) ==
  CASE s.op = "~="          -> CompareCompatible(s, v, sign)
    [] s.op \in {"==", "!="} -> CompareEqual(s, v, sign) <=> s.op = "=="
    [] s.op = "<"           -> CompareLessThan(s, v, sign)
    [] s.op = ">"           -> CompareGreaterThan(s, v, sign)
    [] OTHER                -> Satisfies(s.op, sign)

(* Every operator but === is false of a legacy version.                    *)
Compare(s, v) ==
  IF s.op = "===" THEN v = s.version
  ELSE ~IsLegacy(v) /\ CompareSign(s, v, CmpKeys(CmpKey(Comparable(s, v)), CmpKey(s.version)))

(* The words and numbers of the text of a version.                         *)
LegacyParts(v) ==
  IF IsLegacy(v) THEN v.parts
  ELSE (IF v.epoch = 0 THEN << >> ELSE <<Number(v.epoch), Word("!")>>)
       \o [i \in DOMAIN v.release |-> Number(v.release[i])]
       \o (IF v.pre = << >> THEN << >> ELSE <<Word(<<"a", "b", "c">>[v.pre[1]]), Number(v.pre[2])>>)
       \o (IF v.post = << >> THEN << >> ELSE <<Word("post"), Number(v.post[1])>>)
       \o (IF v.dev = << >> THEN << >> ELSE <<Word("@"), Number(v.dev[1])>>)
       \o (IF v.local = << >> THEN << >>
           ELSE <<Word("+")>> \o [i \in DOMAIN v.local |->
                                    IF v.local[i][1] = 1 THEN Number(v.local[i][2]) ELSE Word("other")])

LegacyText(v, wild) == LegacyParts(v) \o (IF wild THEN <<Word("*")>> ELSE << >>)

(* LegacySpecifier                                                         *)
LegacyCompare(s, v) ==
  Satisfies(s.op, CmpKeys(LegacyCmpKey(LegacyText(v, FALSE)), LegacyCmpKey(LegacyText(s.version, s.wild))))

(* Specifier.prereleases: it names a pre-release with an operator that     *)
(* includes it.                                                            *)
AdmitsPrereleases(s) ==
  /\ IsSpecifier(s) /\ s.op \in {"==", ">=", "<=", "~=", "==="}
  /\ IsPrerelease(s.version)

(* SpecifierSet.prereleases                                                *)
Prereleases(specs) == \E s \in specs : AdmitsPrereleases(s)

(* contains, and filter, of one specifier.                                 *)
SpecifierContains(s, v, prereleases) ==
  IF IsLegacySpecifier(s) THEN LegacyCompare(s, v)
  ELSE (IsPrerelease(v) => prereleases) /\ Compare(s, v)

(* SpecifierSet.filter of one version.                                     *)
InSpecifierSet(specs, v) ==
  IF specs = {} THEN ~IsLegacy(v)
  ELSE \A s \in specs : SpecifierContains(s, v, Prereleases(specs))
=============================================================================
