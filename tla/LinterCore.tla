----------------------------- MODULE LinterCore -----------------------------
(***************************************************************************)
(* One scan of the linter from its --config strings to its findings        *)
(* (run_scan.py, resolve_subprojects.py, core_runner.py): the rules are    *)
(* loaded, the files of a config in threads; the subprojects are found and *)
(* resolved, partly by a server of semgrep-core that may die; the rules    *)
(* are written to temporary files and semgrep-core scans with them, while  *)
(* this program reads its pipes; its matches become findings about         *)
(* dependencies.                                                           *)
(*                                                                         *)
(* The scan itself is a record [configs, env, mode, disk, content,         *)
(* manager, config, sboms]: config holds the options of the resolution and *)
(* of the core runner.                                                     *)
(***************************************************************************)
EXTENDS CoreRun

CONSTANTS
  Scans,      \* the scans that may be asked for
  BytesOf,    \* the serialized size of each rule body
  PipeSize    \* tokens that a pipe of semgrep-core holds

RuleFields ==
  {"id", "langs", "includes", "excludes", "patterns", "body", "depends", "mode", "product", "origin",
   "action", "src", "min", "max", "shape"}
IsSequence(s) == s \in Seq(ToSet(s))

(* A repository is finite; a config is of one of the kinds that            *)
(* ConfigLoader tells apart, and its files have ids of their own: those of *)
(* a directory are its paths, and anything remote is one file; rules have  *)
(* the fields that Rule.__init__ gives them, and a size.                   *)
ASSUME CoreAssumption ==
  /\ PipeSize \in Nat
  /\ \A s \in Scans :
       /\ IsFiniteSet(DOMAIN s.disk) /\ s.config.jobs \in Nat /\ IsSequence(s.configs)
       /\ \A c \in ToSet(s.configs) :
            /\ c.kind \in {"path", "r2c", "registry url", "registry id", "url", "auto", "products"}
            /\ IsSequence(c.files)
            /\ \A f, g \in DOMAIN c.files : ConfigId(c.files[f]) = ConfigId(c.files[g]) => f = g
            /\ \A f \in ToSet(c.files) :
                 /\ IsSequence(f.rules)
                 /\ \A r \in ToSet(f.rules) :
                      r = [x \in RuleFields |-> r[x]] /\ BytesOf[r.body] \in Nat

VARIABLES
  scan,      \* what is asked for
  phase,
  load,      \* loading the configs
  rules,     \* the rules of the scan
  deps,      \* the subprojects
  session,   \* RpcSession
  engine,    \* semgrep-core
  pipe,      \* its stdout, and its stderr if that is captured: [out, err]
  reader,    \* StreamingSemgrepCore
  temp,      \* temporary files that exist
  result

vars == <<scan, phase, load, rules, deps, session, engine, pipe, reader, temp, result>>

Phases == {"load", "parse", "targets", "find", "resolve", "plan", "scan", "adjust", "done", "dumped", "failed"}
Ended == {"done", "dumped", "failed"}

Aware == Picked(rules, {i \in DOMAIN rules : rules[i].depends # {} /\ rules[i].mode # "join"})
Ordinary == Picked(rules, {i \in DOMAIN rules : rules[i].depends = {} /\ rules[i].mode # "join"})

(* Not only types: temporary files are gone when the scan ends, and the    *)
(* pipe never holds more than it can.                                      *)
TypeOK ==
  /\ scan \in Scans /\ phase \in Phases
  /\ load.i \in 1..(Len(scan.configs) + 1)
  /\ Len(pipe.out) <= PipeSize /\ Len(pipe.err) <= PipeSize
  /\ engine.status \in {"none", "running", "exited", "killed"}
  /\ ToSet(deps.todo) \cap deps.skipped = {}
  /\ temp > 0 => phase = "scan"
  /\ phase \in Ended => ~session.alive

Init ==
  /\ scan \in Scans /\ phase = "load"
  /\ load = [i |-> 1, open |-> {}, parsed |-> << >>, wrong |-> {}, valid |-> {}, rules |-> << >>,
             errors |-> {}]
  /\ rules = << >>
  /\ deps = [found |-> << >>, skipped |-> {}, todo |-> << >>, resolved |-> << >>, unresolved |-> {},
             kept |-> << >>]
  /\ session = Shut(NewSession)
  /\ engine = [status |-> "none", loaded |-> {}, tasks |-> {}, todo |-> {}, said |-> 0, extra |-> 0, warned |-> 0,
               found |-> {}, errors |-> {}]
  /\ pipe = [out |-> << >>, err |-> << >>] /\ reader = NewReader(0) /\ temp = 0
  /\ result = [code |-> NoCode, found |-> {}, errors |-> {}, todo |-> << >>, sca |-> {},
               lockfiles |-> << >>, symbols |-> << >>]

(* Mutant: the rule files were written outside of the exit stack.          *)
FailLeaves(code) ==
  /\ phase' = "failed" /\ temp' = temp
  /\ session' = Shut(session)
  /\ result' = [result EXCEPT !.code = code]

(* An error that nobody catches: the command ends, the context managers    *)
(* remove the temporary files and close the session.                       *)
Fail(code) ==
  /\ phase' = "failed" /\ temp' = 0
  /\ session' = Shut(session)
  /\ result' = [result EXCEPT !.code = code]

-----------------------------------------------------------------------------
(* Rules                                                                   *)

NextConfig(error) ==
  /\ load' = [load EXCEPT !.i = @ + 1, !.open = {}, !.errors = @ \cup {error}]
  /\ phase' = "load"
  /\ UNCHANGED <<session, temp, result>>

(* Config.from_config_list: errors that are a SemgrepError are collected.  *)
ReadConfig ==
  /\ phase = "load" /\ load.i <= Len(scan.configs)
  /\ \E answer \in {"ok", "unauthorized", "retries", "status"}, fallback \in {"ok", "failed"} :
       LET c == scan.configs[load.i]
           got == LoadConfig(c, scan.env, answer, fallback)
       IN  \/ /\ got.error = NoError
              /\ phase' = "parse"
              /\ load' = [load EXCEPT !.open = DOMAIN got.files, !.parsed = << >>, !.wrong = {}]
              /\ UNCHANGED <<session, temp, result>>
           \/ got.error.kind = "SemgrepError" /\ NextConfig(got.error)
           \/ got.error.kind = "Exception" /\ Fail(FATAL) /\ UNCHANGED load
  /\ UNCHANGED <<scan, rules, deps, engine, pipe, reader>>

(* parse_config_files: whichever thread is done first is heard first, and  *)
(* the first error drops all that the config had.                          *)
ParseFile ==
  /\ phase = "parse"
  /\ \E f \in load.open, alive \in BOOLEAN :
       LET file == scan.configs[load.i].files[f]
           parsed == ParseConfigString(file, scan.mode, FALSE, alive)
       IN  \/ /\ parsed.raised = NoError
              /\ load' = [load EXCEPT !.open = @ \ {f},
                                      !.parsed = @ \o [k \in DOMAIN parsed.rules |->
                                                          [rule |-> parsed.rules[k], file |-> file]],
                                      !.wrong = @ \cup parsed.errors]
              /\ UNCHANGED <<phase, session, temp, result>>
           \/ parsed.raised.kind \in {"SemgrepError", "InvalidRuleSchemaError"} /\ NextConfig(parsed.raised)
           \/ parsed.raised.kind = "UnknownLanguageError" /\ Fail(INVALID_LANGUAGE) /\ UNCHANGED load
  /\ UNCHANGED <<scan, rules, deps, engine, pipe, reader>>

(* The rules of the files, under the ids of their files and of the config. *)
EndConfig ==
  /\ phase = "parse" /\ load.open = {}
  /\ LET Kept(p) == RenameId(SecretsCheck(p.rule, ConfigId(p.file)), p.file)
         keys == {<<ConfigId(f), load.i>> : f \in ToSet(scan.configs[load.i].files)}
     IN  load' = [load EXCEPT !.i = @ + 1, !.parsed = << >>, !.wrong = {},
                    !.valid = @ \cup keys, !.errors = @ \cup load.wrong,
                    !.rules = @ \o [k \in DOMAIN load.parsed |-> Kept(load.parsed[k])]]
  /\ phase' = "load"
  /\ UNCHANGED <<scan, rules, deps, session, engine, pipe, reader, temp, result>>

(* dump_partitions_and_exit: before anybody looks at the errors.           *)
DumpPartitions ==
  /\ phase = "load" /\ load.i > Len(scan.configs) /\ scan.config.partitions
  /\ \E event \in CallEvents :
       IF RpcCall([kind |-> "partitions"], event) = NoAnswer
       THEN Fail(WithoutAnswer("dump_rule_partitions").code)
       ELSE phase' = "dumped" /\ result' = [result EXCEPT !.code = OK] /\ UNCHANGED <<session, temp>>
  /\ UNCHANGED <<scan, load, rules, deps, engine, pipe, reader>>

(* run_scan: all the rules, if nothing but versions was wrong with them.   *)
GetRules ==
  /\ phase = "load" /\ load.i > Len(scan.configs) /\ ~scan.config.partitions
  /\ LET real == {e \in load.errors : e.kind # "IncompatibleRule"}
     IN  \/ /\ SanityCheck(real, load.valid) # NoError
            /\ Fail(SanityCheck(real, load.valid).code) /\ UNCHANGED rules
         \/ /\ SanityCheck(real, load.valid) = NoError
            /\ rules' = Deduplicate(load.rules)
            /\ phase' = "targets" /\ UNCHANGED <<session, temp, result>>
  /\ UNCHANGED <<scan, load, deps, engine, pipe, reader>>

(* TargetManager checks the roots; then the server is started.             *)
OpenTargets ==
  /\ phase = "targets"
  /\ \/ /\ \A root \in scan.manager.roots : ValidRoot(root)
        /\ phase' = "find" /\ session' = NewSession /\ UNCHANGED <<temp, result>>
     \/ /\ \E root \in scan.manager.roots : ~ValidRoot(root)
        /\ Fail(FATAL)
  /\ UNCHANGED <<scan, load, rules, deps, engine, pipe, reader>>

-----------------------------------------------------------------------------
(* Subprojects                                                             *)

(* get_targets is asked of a semgrep-core of its own: no answer is an      *)
(* error that ends the scan.                                               *)
DiscoveryFails == Fail(WithoutAnswer("get_targets").code)

FindProjects ==
  /\ phase = "find"
  /\ \/ Aware = << >> /\ phase' = "plan" /\ UNCHANGED <<deps, session, temp, result>>
     \/ Aware # << >> /\ DiscoveryFails /\ UNCHANGED deps
     \/ /\ Aware # << >>
        /\ LET found == FindSubprojects(scan.disk, scan.manager)
               relevant == IF scan.config.resolveAll THEN ToSet(found)
                           ELSE Relevant(scan.disk, scan.manager, ToSet(Aware), found)
           IN  deps' = [deps EXCEPT
                 !.found = found,
                 !.skipped = ToSet(found) \ relevant,
                 !.todo = AttachSboms(Picked(found, {i \in DOMAIN found : found[i] \in relevant}),
                                      scan.sboms)]
        /\ phase' = "resolve" /\ UNCHANGED <<session, temp, result>>
  /\ UNCHANGED <<scan, load, rules, engine, pipe, reader>>

(* The answers to the questions that resolving a subproject asks of the    *)
(* session.                                                                *)
Ask(subproject, events, failing) ==
  LET questions == Questions(subproject.source)
      Own(i) == IF i \in failing THEN CoreFailure
                ELSE CoreAnswer(scan.content, questions[i], subproject.ecosystem)
      Step(acc, i) ==
        IF ~Asks(questions[i], scan.config)
           \/ (i > 1 /\ subproject.source.type = "sbom" /\ ResolveByRpc(acc.answers[1]).ok)
        THEN [acc EXCEPT !.answers = Append(@, NoAnswer)]
        ELSE LET called == Call(acc.session, Own(i), events[i])
             IN  [answers |-> Append(acc.answers, called.answer), session |-> called.session]
  IN  FoldLeft(Step, [answers |-> << >>, session |-> session], [i \in DOMAIN questions |-> i])

ResolveNext ==
  /\ phase = "resolve" /\ deps.todo # << >>
  /\ LET subproject == Head(deps.todo)
         n == Len(Questions(subproject.source))
     IN  \E events \in [1..n -> CallEvents], failing \in SUBSET (1..n) :
           LET asked == Ask(subproject, events, failing)
               res == ResolveDependencySource(scan.content, subproject.source, scan.config, asked.answers)
           IN  /\ session' = asked.session
               /\ deps' =
                    IF IsResolved(res)
                    THEN [deps EXCEPT !.todo = Tail(@),
                                      !.resolved = Append(@, subproject @@ [deps |-> res.deps])]
                    ELSE [deps EXCEPT !.todo = Tail(@),
                                      !.unresolved = @ \cup {<<subproject, res.method>>}]
  /\ UNCHANGED <<scan, phase, load, rules, engine, pipe, reader, temp, result>>

FilterRules ==
  /\ phase = "resolve" /\ deps.todo = << >>
  /\ \/ FilterRaises(Aware, deps.resolved) /\ Fail(FATAL) /\ UNCHANGED deps
     \/ /\ ~FilterRaises(Aware, deps.resolved)
        /\ deps' = [deps EXCEPT !.kept = FilterDependencyAware(Aware, deps.resolved)]
        /\ phase' = "plan" /\ UNCHANGED <<session, temp, result>>
  /\ UNCHANGED <<scan, load, rules, engine, pipe, reader>>

-----------------------------------------------------------------------------
(* semgrep-core                                                            *)

(* run_rules: a rule that has the id of one with dependencies is left out. *)
CoreRules ==
  LET ids == {r.id : r \in ToSet(Aware)}
  IN  Picked(Ordinary, {i \in DOMAIN Ordinary : Ordinary[i].id \notin ids}) \o deps.kept

StartCore ==
  /\ phase = "plan"
  /\ LET sent == CoreRules
         sizes == [i \in DOMAIN sent |-> BytesOf[sent[i].body]]
         shards == ShardRules(sizes, ShardCount(Len(sent), scan.config.jobs, TotalBytes(sizes)))
         tasks == PlanCoreRun(scan.disk, scan.manager, ToSet(sent))
         given == {sent[i] : i \in UNION ToSet(shards)}
         refusal == Refusal(scan.config, scan.manager.roots)
     IN  \/ /\ refusal # NoError /\ Fail(refusal.code)
            /\ UNCHANGED <<engine, reader>>
         \/ DiscoveryFails /\ UNCHANGED <<engine, reader>>
         \/ /\ refusal = NoError /\ scan.config.dump
            /\ phase' = "dumped" /\ session' = Shut(session)
            /\ result' = [result EXCEPT !.code = OK]
            /\ UNCHANGED <<engine, reader, temp>>
         \/ /\ refusal = NoError /\ ~scan.config.dump
            /\ engine' = [engine EXCEPT !.status = "running", !.tasks = tasks,
                            !.todo = {t.path : t \in tasks},
                            !.loaded = given \ Unparsable(given),
                            !.errors = {<<r, NoPath>> : r \in Unparsable(given)}]
            /\ reader' = NewReader(NumTargets(tasks))
            /\ temp' = Len(shards) + 1
            /\ phase' = "scan" /\ UNCHANGED <<session, result>>
  /\ UNCHANGED <<scan, load, rules, deps, pipe>>

Running == phase = "scan" /\ engine.status = "running"
Writes(token) == Len(pipe.out) < PipeSize /\ pipe' = [pipe EXCEPT !.out = Append(@, token)]

ScanFile ==
  /\ Running
  /\ \E path \in engine.todo :
       \E slow \in {{}, engine.loaded} :
         LET seen == EngineScan(scan.disk, engine.tasks, engine.loaded, path, slow, scan.manager.respectRulePaths)
         IN  engine' = [engine EXCEPT !.todo = @ \ {path}, !.found = @ \cup seen.found,
                                      !.errors = @ \cup seen.errors]
  /\ Writes(Dot)
  /\ UNCHANGED <<scan, phase, load, rules, deps, session, reader, temp, result>>

ExtractTargets ==
  /\ Running /\ engine.extra < scan.config.extra /\ engine.said = 0
  /\ engine' = [engine EXCEPT !.extra = @ + 1]
  /\ Writes(Extra(1))
  /\ UNCHANGED <<scan, phase, load, rules, deps, session, reader, temp, result>>

(* A log line; unless --debug was given stderr is a pipe, and an engine    *)
(* that finds it full goes no further.                                     *)
LogLine ==
  /\ Running /\ engine.warned < scan.config.warnings
  /\ engine' = [engine EXCEPT !.warned = @ + 1]
  /\ IF scan.config.debug THEN UNCHANGED pipe
     ELSE Len(pipe.err) < PipeSize /\ pipe' = [pipe EXCEPT !.err = Append(@, engine.warned)]
  /\ UNCHANGED <<scan, phase, load, rules, deps, session, reader, temp, result>>

WriteJson ==
  /\ Running /\ engine.todo = {} /\ engine.warned = scan.config.warnings /\ engine.said < JsonParts
  /\ engine' = [engine EXCEPT !.said = @ + 1]
  /\ Writes(Json(engine.said + 1))
  /\ UNCHANGED <<scan, phase, load, rules, deps, session, reader, temp, result>>

ExitEngine ==
  /\ Running /\ engine.said = JsonParts
  /\ engine' = [engine EXCEPT !.status = "exited"]
  /\ UNCHANGED <<scan, phase, load, rules, deps, session, pipe, reader, temp, result>>

(* Out of memory, a signal, a bug: at any time.                            *)
KillEngine ==
  /\ Running
  /\ engine' = [engine EXCEPT !.status = "killed"]
  /\ UNCHANGED <<scan, phase, load, rules, deps, session, pipe, reader, temp, result>>

Read ==
  /\ phase = "scan" /\ pipe.out # << >>
  /\ reader' = ReadToken(reader, Head(pipe.out), scan.config.engine)
  /\ pipe' = [pipe EXCEPT !.out = Tail(@)]
  /\ UNCHANGED <<scan, phase, load, rules, deps, session, engine, temp, result>>

(* _core_stderr_processor, beside it in the event loop; the lines are kept *)
(* for messages only.                                                      *)
ReadLog ==
  /\ phase = "scan" /\ pipe.err # << >>
  /\ pipe' = [pipe EXCEPT !.err = Tail(@)]
  /\ UNCHANGED <<scan, phase, load, rules, deps, session, engine, reader, temp, result>>

(* The end of both pipes: the exit code and the JSON decide, if this       *)
(* program and the engine agree on its format.                             *)
EndRun ==
  /\ phase = "scan" /\ pipe = [out |-> << >>, err |-> << >>] /\ engine.status \in {"exited", "killed"}
  /\ LET end == ReadEnd(reader)
         extracted == Extracted(end, IF engine.status = "exited" THEN 0 ELSE -9)
         verdict == IF extracted = NoError /\ scan.config.outdated THEN Misread(scan.config.engine)
                    ELSE extracted
     IN  /\ reader' = end
         /\ \/ verdict # NoError /\ Fail(verdict.code)
            \/ /\ verdict = NoError
               /\ result' = [result EXCEPT !.found = engine.found, !.errors = engine.errors, !.todo = Aware]
               /\ phase' = "adjust" /\ temp' = 0 /\ UNCHANGED session
  /\ UNCHANGED <<scan, load, rules, deps, engine, pipe>>

-----------------------------------------------------------------------------
(* Findings about dependencies                                             *)

TrAnswer(findings) == [kind |-> "findings", findings |-> findings]

(* The answer is paired with the findings by position, up to the shorter.  *)
Zipped(findings, answer) ==
  IF answer = NoAnswer THEN findings
  ELSE ToSet(SubSeq(SetToSeq(answer.findings), 1,
                    Least(Cardinality(answer.findings), Cardinality(findings))))

(* adjust_matches_for_sca_rules, one rule; `turned` says that semgrep-core *)
(* found the packages reachable.                                           *)
AdjustRule ==
  /\ phase = "adjust" /\ result.todo # << >>
  /\ LET r == Head(result.todo)
         matched == {m[2] : m \in {n \in result.found : n[1] = r}}
         reachable == IF ShouldRunOnCore(r) THEN Reachable(r, matched, deps.resolved) ELSE {}
         Of(s) == Unreachable(r, reachable, <<s>>)
         mine == SelectSeq(deps.resolved, LAMBDA s : s.ecosystem \in Ecosystems(r))
     IN  \/ Raises(r, deps.resolved) /\ Fail(FATAL)
         \/ /\ ~Raises(r, deps.resolved)
            /\ \E event \in CallEvents, turned \in BOOLEAN :
                 LET Step(acc, s) ==
                       IF ~TransitiveReachability(r, s, scan.config)
                       THEN [acc EXCEPT !.found = @ \cup Of(s)]
                       ELSE LET own == {[f EXCEPT !.reachable = turned] : f \in Of(s)}
                                called == Call(acc.session, TrAnswer(own), event)
                            IN  [found |-> acc.found \cup Zipped(Of(s), called.answer),
                                 session |-> called.session]
                     done == FoldLeft(Step, [found |-> reachable, session |-> session], mine)
                 IN  /\ session' = done.session
                     /\ result' = [result EXCEPT !.todo = Tail(@), !.sca = @ \cup done.found]
            /\ UNCHANGED <<phase, temp>>
  /\ UNCHANGED <<scan, load, rules, deps, engine, pipe, reader>>

(* The end of run_rules and of run_scan.  A subproject whose symbols       *)
(* semgrep-core does not analyse is left out.                              *)
Finish ==
  /\ phase = "adjust" /\ result.todo = << >>
  /\ LET raised == SkippedValidation(result.errors, scan.mode)
         asked == IF scan.config.symbols THEN SymbolAnalysed(scan.disk, scan.manager, deps.resolved) ELSE << >>
     IN  \/ raised # NoError /\ Fail(raised.code)
         \/ /\ raised = NoError
            /\ \E events \in [DOMAIN asked -> {"answers", "dies"}] :
                 LET Analysed(s) == \E i \in DOMAIN asked :
                       asked[i] = s /\ RpcCall([kind |-> "symbols"], events[i]) # NoAnswer
                 IN  result' = [result EXCEPT
                       !.code = OK,
                       !.lockfiles = IF Aware = << >> THEN << >> ELSE DependenciesByLockfile(deps.resolved),
                       !.symbols = SelectSeq(asked, LAMBDA s : SymbolKept(s) /\ Analysed(s))]
            /\ phase' = "done" /\ session' = Shut(session) /\ UNCHANGED temp
  /\ UNCHANGED <<scan, load, rules, deps, engine, pipe, reader>>

-----------------------------------------------------------------------------

Terminated == phase \in Ended /\ UNCHANGED vars

Next ==
  \/ ReadConfig \/ ParseFile \/ EndConfig \/ DumpPartitions \/ GetRules \/ OpenTargets
  \/ FindProjects \/ ResolveNext \/ FilterRules
  \/ StartCore \/ ScanFile \/ ExtractTargets \/ LogLine \/ WriteJson \/ ExitEngine
  \/ KillEngine \/ Read \/ ReadLog \/ EndRun
  \/ AdjustRule \/ Finish \/ Terminated

Spec == Init /\ [][Next]_vars

-----------------------------------------------------------------------------
(* Properties                                                              *)

(* The files that a rule should be matched against: those discovered for   *)
(* its product whose extension or program speaks its language, but for     *)
(* the paths it names.                                                     *)
Wants(r, p) ==
  LET files == GetAllFiles(scan.disk, scan.manager, Product(r), FALSE, scan.manager.gitignore)
      speaks == LanguagesOf[scan.disk[p].ext] \cup LanguagesOf[scan.disk[p].shebang]
  IN  /\ p \in files /\ r.langs \cap speaks # {}
      /\ scan.manager.respectRulePaths =>
           /\ r.includes = {} \/ AnyMatches(p, r.includes)
           /\ ~AnyMatches(p, r.excludes)

(* The rules as they stand in the config files.                            *)
Written ==
  UNION {UNION {{RenameId(NewRule(r), f) : r \in {q \in ToSet(f.rules) : Compatible(q)}} :
                  f \in ToSet(c.files)} : c \in ToSet(scan.configs)}

(* A scan that ends well has looked for every rule, of every config file,  *)
(* in every file that the rule selects: what occurs there was found or is  *)
(* reported, although a thread, a process or a pipe may fail at any time   *)
(* (parse_config_files, _shard_rules, plan_core_run,                       *)
(* _extract_core_output).  A rule that semgrep-core cannot parse is        *)
(* reported as such, and then the scan ends well only if its rules were    *)
(* validated before (_raise_skipped_rule_validation_errors).  Rules are    *)
(* told apart without their metadata: of those that differ in nothing else *)
(* one is looked for, in the files that its own metadata select; those     *)
(* that share their id with a rule about dependencies are left out.        *)
CompleteOrFailed ==
  phase = "done" =>
    LET told == {<<WithoutMetadata(m[1]), m[2]>> : m \in result.found \cup result.errors}
        awareIds == {r.id : r \in ToSet(Aware)}
        Told(r, p) == \/ <<WithoutMetadata(r), p>> \in told
                      \/ <<WithoutMetadata(r), NoPath>> \in told /\ scan.mode # "NONE"
    IN  \A r \in {q \in Written : q.depends = {} /\ q.mode # "join" /\ q.id \notin awareIds} :
          \E q \in Written :
            /\ WithoutMetadata(q) = WithoutMetadata(r)
            /\ \A p \in DOMAIN scan.disk : Wants(q, p) /\ q.body \in scan.disk[p].holds => Told(q, p)

(* If code that a rule about dependencies looks for is in a file of the    *)
(* scan, the subproject closest to that file was not skipped as irrelevant *)
(* (filter_changed_subprojects must agree with                             *)
(* generate_reachable_sca_findings).                                       *)
CodeSeesItsProject ==
  phase = "done" /\ ~scan.config.resolveAll =>
    \A r \in ToSet(Aware), p \in DOMAIN scan.disk :
      ShouldRunOnCore(r) /\ Wants(r, p) /\ r.body \in scan.disk[p].holds =>
        \A e \in Ecosystems(r) :
          ToSet(Closest(p, e, deps.found)) \cap deps.skipped = {}

(* A rule that only names the versions of a package reports exactly the    *)
(* dependencies between the bounds of its range, by the place `core` that  *)
(* each version has in the order of PEP 440, whatever zeros, local, dev    *)
(* and post-release parts it is written with.  A pre-release is reported   *)
(* only if the range starts at one, and never when it is one of the        *)
(* version that ends the range (_cmpkey, SpecifierSet.filter).             *)
RangesArePrecise ==
  phase = "done" =>
    \A r \in {q \in ToSet(Aware) : ~ShouldRunOnCore(q)}, s \in ToSet(deps.resolved) :
      \A d \in s.deps, p \in {q \in r.depends : q.ecosystem = "pypi"} :
        (d.ecosystem = p.ecosystem /\ d.package = p.package) =>
          LET reported == \E f \in result.sca : f.rule = r.id /\ f.dep = d
              between == \A b \in p.range : Satisfies(b.op, d.version.core - b.version.core)
              pre(v) == IsPrerelease(v.pep)
          IN  IF ~pre(d.version) THEN reported <=> between
              ELSE reported =>
                     /\ between
                     /\ \E b \in p.range : b.op = ">=" /\ pre(b.version)
                     /\ \A b \in p.range :
                          b.op = "<" /\ SameBase(d.version.pep, b.version.pep) => pre(b.version)
=============================================================================
