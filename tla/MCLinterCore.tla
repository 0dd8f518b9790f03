---------------------------- MODULE MCLinterCore ----------------------------
(* Small scans of a repository with an npm, a PyPI and a Go subproject.     *)
EXTENDS LinterCore

MCLanguagesOf ==
  [e \in {"js", "py", "go", "none", "python3", "data"} |->
     CASE e = "js" -> {"javascript"} [] e \in {"py", "python3"} -> {"python"}
       [] e = "go" -> {"go"}         [] OTHER -> {}]
MCDependencyNames ==
  {"package.json", "yarn.lock", "requirements.txt", "requirements.in", "go.mod", "package-lock.json"}
Names == {"lodash", "Flask", "flask", "mod"}
MCLower == [n \in Names |-> IF n = "Flask" THEN "flask" ELSE n]
MCBytesOf == [b \in {"eval", "call", "use", "lock"} |-> CASE b = "eval" -> 3 [] b = "call" -> 2 [] OTHER -> 1]

V(n) == [NoVersion EXCEPT !.core = n, !.parts = 1, !.pep = Final(<<n>>)]
Pre(n) == [V(n) EXCEPT !.pep.pre = <<3, 1>>]
RC(n) == [V(n) EXCEPT !.parts = 3, !.pre = <<[number |-> FALSE, value |-> 1]>>]

(* Versions from the lowest to the highest, as PEP 440 orders them; the     *)
(* number that goes with each is its place.                                 *)
Placed(n, v) == [V(n) EXCEPT !.pep = v]
Local_(v) == [v EXCEPT !.local = <<<<1, 1>>>>]
One == Final(<<1>>)
Post == [One EXCEPT !.post = <<0>>]
Unbounded ==
  {Placed(0, [kind |-> "legacy", parts |-> <<Number(3), Word("other")>>]),
   Placed(3, [One EXCEPT !.pre = ParseLetterVersion("alpha", << >>), !.dev = <<1>>]),
   Placed(8, Local_(One)), Placed(11, Local_(Post)), Placed(2, [Final(<<1, 0>>) EXCEPT !.dev = <<0>>])}
Bounds ==
  {Placed(1, Final(<<0, 9>>)), Placed(2, [One EXCEPT !.dev = <<0>>]),
   Placed(5, [One EXCEPT !.pre = ParseLetterVersion("a", <<0>>)]), Placed(6, [One EXCEPT !.pre = ParseLetterVersion("preview", <<1>>)]),
   Placed(7, Final(<<1, 0>>)), Placed(9, [Post EXCEPT !.dev = <<2>>]), Placed(10, Post),
   Placed(12, [Final(<<1, 1>>) EXCEPT !.dev = <<0>>]), Placed(13, Final(<<1, 1, 0>>)),
   Placed(14, Final(<<1, 10>>)), Placed(15, [One EXCEPT !.epoch = 1])}

-----------------------------------------------------------------------------
(* Rules                                                                    *)

R(id, lang, body) ==
  [id |-> <<id>>, langs |-> {lang}, includes |-> {}, excludes |-> {}, patterns |-> TRUE, body |-> body,
   depends |-> {}, mode |-> "search", product |-> None, origin |-> None, action |-> "monitor",
   src |-> None, min |-> 1, max |-> 9, shape |-> "good"]
Pat(name, eco, n) ==
  [package |-> name, ecosystem |-> eco, range |-> {[op |-> "<", version |-> V(n), wild |-> FALSE]}]
Sca(id, lang, pat) == [R(id, lang, "use") EXCEPT !.depends = {pat}]
G(segs) == [segs |-> segs, anchored |-> FALSE, legacy |-> FALSE]

Eval == R("eval", "javascript", "eval")
EvalPro == [Eval EXCEPT !.product = "sast", !.action = "block"]
EvalNarrow == [R("eval", "javascript", "call") EXCEPT !.excludes = {G(<<"test">>)}]
Call_ == [R("call", "python", "call") EXCEPT !.includes = {G(<<"svc">>)}]
Old == [R("old", "python", "call") EXCEPT !.max = 1]
Join == [R("join", "python", "call") EXCEPT !.mode = "join"]
Lodash == Sca("lodash", "javascript", Pat("lodash", "npm", 5))
FlaskOnly == [Sca("flask", "python", Pat("flask", "pypi", 3)) EXCEPT !.patterns = FALSE]
FlaskInvalid ==
  [FlaskOnly EXCEPT !.depends = {[p EXCEPT !.range = {[s EXCEPT !.op = "~="] : s \in @}] : p \in @}]
GoMod == Sca("gomod", "go", Pat("mod", "gomod", 2))
GoShort ==
  [GoMod EXCEPT !.depends = {[Pat("mod", "gomod", 2) EXCEPT
                          !.range = {[op |-> "<", version |-> [V(2) EXCEPT !.short = TRUE], wild |-> FALSE]}]}]

File(id, rs) ==
  [id |-> id, dir |-> <<"conf">>, site |-> "local", text |-> "ok", rules |-> rs, missed |-> 0]
Registry(rs) == [File("r", rs) EXCEPT !.site = "registry", !.dir = << >>]
Local(files) == [kind |-> "path", products |-> {}, files |-> files]
Remote(rs) == [kind |-> "registry id", products |-> {}, files |-> <<Registry(rs)>>]
Products(rs) == [kind |-> "products", products |-> {"supply-chain"}, files |-> <<Registry(rs)>>]

-----------------------------------------------------------------------------
(* Files                                                                    *)

F(ext, holds, changed) ==
  [ext |-> ext, shebang |-> "none", readable |-> TRUE, gitignored |-> FALSE, semgrepignored |-> FALSE,
   size |-> 1, changed |-> changed, holds |-> holds]
D(changed) == F("data", {}, changed)

Disk(diff) ==
  <<"app", "package.json">>       :> D(~diff) @@
  <<"app", "yarn.lock">>          :> D(~diff) @@
  <<"app", "a.js">>               :> F("js", {"eval", "call", "use"}, TRUE) @@
  <<"app", "test", "t.js">>       :> F("js", {"call"}, ~diff) @@
  <<"svc", "requirements.txt">>   :> D(TRUE) @@
  <<"svc", "m">>                  :> [F("none", {"call"}, TRUE) EXCEPT !.shebang = "python3"]
GoDisk ==
  <<"go.mod">> :> D(TRUE) @@ <<"m.go">> :> F("go", {"use"}, TRUE)

E(name, v) ==
  [name |-> name, version |-> v, section |-> "default", stated |-> "direct", depth |-> 0,
   sources |-> {name}, children |-> {}, pins |-> 1]
Lock(es) == [text |-> "ok", version |-> 1, entries |-> es, direct |-> {}, exclude |-> {}]
Manifest(names) == [Lock({}) EXCEPT !.direct = names]

Content ==
  <<"app", "package.json">>     :> Manifest({"lodash"}) @@
  <<"app", "yarn.lock">>        :> Lock({E("lodash", V(4))}) @@
  <<"app", "cdx.json">>         :> Lock({E("lodash", V(4))}) @@
  <<"svc", "requirements.txt">> :> Lock({E("Flask", V(2)), [E("mod", V(1)) EXCEPT !.pins = 0]}) @@
  <<"go.mod">>                  :> Lock({E("mod", RC(2))})

Manager(diff) ==
  [roots |-> {[path |-> << >>, readable |-> TRUE, symlink |-> FALSE, underCwd |-> TRUE]},
   includes |-> {}, excludes |-> [p \in {"sast", "sca", "secrets"} |-> {}], maxBytes |-> 9,
   gitignore |-> TRUE, semgrepignore |-> TRUE, baseline |-> diff, unknownExtensions |-> FALSE,
   respectRulePaths |-> TRUE]
Config ==
  [ptt |-> FALSE, builds |-> FALSE, download |-> FALSE, experimental |-> FALSE, resolveAll |-> FALSE,
   jobs |-> 2, engine |-> "OSS", token |-> FALSE, runSecrets |-> FALSE, dump |-> FALSE, extra |-> 0,
   symbols |-> FALSE, debug |-> FALSE, warnings |-> 0, partitions |-> FALSE, outdated |-> FALSE]

Scan(configs, diff) ==
  [configs |-> configs, env |-> {"REPO_NAME"}, mode |-> "FULL", disk |-> Disk(diff), content |-> Content,
   manager |-> Manager(diff), config |-> Config, sboms |-> {}]

Full == Scan(<<Local(<<File("a", <<Eval, Old>>), File("b", <<EvalNarrow, Call_, Join>>)>>),
               Remote(<<EvalPro, Lodash>>)>>, FALSE)
Diff == Scan(<<Local(<<File("a", <<Eval>>)>>), Products(<<Lodash, FlaskOnly>>)>>, TRUE)
PreRelease ==
  [Diff EXCEPT !.content[<<"svc", "requirements.txt">>] = Lock({[E("Flask", Pre(2)) EXCEPT !.pins = 1]})]
BadRange == [Diff EXCEPT !.configs = <<Products(<<FlaskInvalid>>)>>]
Between(low, high) ==
  [FlaskOnly EXCEPT !.depends =
     {[p EXCEPT !.range = {[op |-> ">=", version |-> low, wild |-> FALSE],
                           [op |-> "<", version |-> high, wild |-> FALSE]}] : p \in @}]
Ranged(low, high) ==
  [Diff EXCEPT !.configs = <<Products(<<Between(low, high)>>)>>,
               !.content[<<"svc", "requirements.txt">>] = Lock({E("Flask", v) : v \in Unbounded \cup Bounds})]
Tr == [Diff EXCEPT !.config.download = TRUE, !.config.builds = TRUE, !.config.symbols = TRUE,
                   !.sboms = {<<"app">>}, !.config.resolveAll = TRUE]
Go(rule) == [Scan(<<Local(<<File("a", <<rule>>)>>)>>, FALSE) EXCEPT !.disk = GoDisk]

(* Scans that end early.                                                    *)
BadLanguage == Scan(<<Local(<<File("a", <<[Eval EXCEPT !.shape = "bad language"]>>),
                              File("b", <<[Eval EXCEPT !.shape = "bad regex"]>>)>>)>>, FALSE)
BadSchema == [BadLanguage EXCEPT !.mode = "CORE_ONLY"]
BadRoot == [Full EXCEPT !.configs = Tail(@), !.manager.roots = {[r EXCEPT !.symlink = TRUE] : r \in @}]
Dump == [Diff EXCEPT !.configs = <<Local(<<File("a", <<Eval>>)>>)>>, !.config.dump = TRUE]
Interfile_ ==
  [Dump EXCEPT !.config.dump = FALSE, !.config.engine = "PRO_INTERFILE", !.config.token = TRUE,
               !.config.extra = 1, !.config.warnings = 3]
Debug == [Dump EXCEPT !.config.dump = FALSE, !.config.debug = TRUE, !.config.warnings = 1]
Outdated(engine_) ==
  [Dump EXCEPT !.config.dump = FALSE, !.config.engine = engine_, !.config.token = TRUE, !.config.outdated = TRUE]
Partitions == [BadSchema EXCEPT !.config.partitions = TRUE]
(* Rules that only semgrep-core finds wrong.                                *)
BadRule(mode, shape) ==
  [Dump EXCEPT !.config.dump = FALSE, !.mode = mode,
     !.configs = <<Local(<<File("a", <<[Eval EXCEPT !.shape = shape], EvalNarrow>>)>>)>>]
NoToken == [Interfile_ EXCEPT !.config.token = FALSE]

MCScans ==
  {Full, Diff, PreRelease, BadRange, Tr, Go(GoMod), Go(GoShort), Go([GoShort EXCEPT !.patterns = FALSE]),
   BadLanguage, BadSchema, BadRoot, Dump, Debug, Interfile_, NoToken,
   Outdated("OSS"), Outdated("PRO_INTRAFILE"), Partitions, BadRule("FULL", "bad regex"), BadRule("NONE", "bad schema")}
  \cup {Ranged(b[1], b[2]) : b \in Bounds \X Bounds}
=============================================================================
