------------------------------- MODULE CoreRun -------------------------------
(***************************************************************************)
(* How the linter runs semgrep-core: the calls to it as a server (rpc.py,  *)
(* rpc_call.py), and the scan itself, with the rules split over several    *)
(* files and the progress and the results read from one pipe               *)
(* (core_runner.py).                                                       *)
(***************************************************************************)
EXTENDS SupplyChain

CONSTANTS
  MIN_RULES,      \* RULE_FILE_SHARD_MIN_RULES
  TARGET_BYTES,   \* RULE_FILE_SHARD_TARGET_BYTES
  MAX_COUNT       \* RULE_FILE_SHARD_MAX_COUNT

ASSUME ShardAssumption == MIN_RULES \in Nat /\ TARGET_BYTES \in Nat \ {0} /\ MAX_COUNT \in Nat \ {0}

-----------------------------------------------------------------------------
(* Calls                                                                   *)

(* RpcSession.start.  unread holds the packets of the server's stdout that *)
(* nobody has read.                                                        *)
NewSession == [alive |-> TRUE, unread |-> << >>]

CallEvents == {"answers", "error", "noise", "breaks off", "dies"}

(* What a server writes in a call: its answer, an error instead of it, a   *)
(* line that is no packet before it, a part of it, or nothing.  Garbage is *)
(* whatever is read as one packet and does not parse.                      *)
Garbage == [kind |-> "garbage"]

Said(own, event) ==
  CASE event = "answers"    -> <<own>>
    [] event = "error"      -> <<NoAnswer>>
    [] event = "noise"      -> <<Garbage, own>>
    [] event = "breaks off" -> <<Garbage>>
    [] event = "dies"       -> << >>

(* _read_packet and _really_read, which take what there is when the pipe   *)
(* ends: a line that is no length is consumed, but not what follows it.    *)
ReadPacket(pipe) ==
  IF pipe = << >> THEN [packet |-> NoAnswer, unread |-> << >>]
  ELSE [packet |-> Head(pipe), unread |-> Tail(pipe)]

(* RpcSession.call.  Only a packet of the kind that is asked for is an     *)
(* answer, if the server lives when it is asked; one that an earlier call  *)
(* left in the pipe is taken for the answer to this one.                   *)
Call(session, own, event) ==
  LET read == ReadPacket(session.unread \o Said(own, event))
  IN  IF ~session.alive THEN [answer |-> NoAnswer, session |-> session]
      ELSE [answer  |-> IF read.packet.kind = own.kind THEN read.packet ELSE NoAnswer,
            session |-> [alive |-> event \notin {"breaks off", "dies"}, unread |-> read.unread]]

(* RpcSession.close                                                        *)
Shut(session) == [alive |-> FALSE, unread |-> session.unread]

(* rpc_call: a process for one call.                                       *)
RpcCall(own, event) == Call(NewSession, own, event).answer

(* rpc_call.py: what becomes of the scan when such a process gives no      *)
(* answer.  Discovery raises and the dump of the partitions has failed;    *)
(* resolution, the filter of transitive findings and the analysis of       *)
(* symbols leave what is known as it is.                                   *)
WithoutAnswer(function) ==
  IF function \in {"get_targets", "dump_rule_partitions"} THEN Raised(FATAL) ELSE NoError

-----------------------------------------------------------------------------
(* Sharding                                                                *)

CeilDiv(a, b) == (a + b - 1) \div b
Least(a, b) == IF a <= b THEN a ELSE b
Most(a, b) == IF a >= b THEN a ELSE b

(* _shard_count; jobs is 0 when --jobs was not given.                      *)
ShardCount(rules, jobs, bytes) ==
  IF \/ rules < MIN_RULES /\ bytes <= TARGET_BYTES
     \/ jobs = 1
  THEN 1
  ELSE Most(1, Least(Least(rules, MAX_COUNT),
                     Most(IF jobs = 0 THEN 1 ELSE Least(rules, jobs), CeilDiv(bytes, TARGET_BYTES))))

(* The bytes of all the rules.                                             *)
TotalBytes(sizes) ==
  LET upTo[i \in 0..Len(sizes)] == IF i = 0 THEN 0 ELSE upTo[i - 1] + sizes[i]
  IN  upTo[Len(sizes)]

(* The largest rule first, then the one that comes first.                  *)
BySize(sizes) ==
  InOrder(DOMAIN sizes, {p \in (DOMAIN sizes) \X (DOMAIN sizes) :
                           \/ sizes[p[1]] > sizes[p[2]]
                           \/ sizes[p[1]] = sizes[p[2]] /\ p[1] < p[2]})

Lightest(bytes) ==
  CHOOSE k \in DOMAIN bytes : \A j \in DOMAIN bytes :
    bytes[k] < bytes[j] \/ (bytes[k] = bytes[j] /\ k <= j)

(* Each rule goes to the shard with the fewest bytes so far.               *)
Assigned(sizes, n) ==
  LET order == BySize(sizes)
      bytes[t \in 0..Len(order)] ==
        IF t = 0 THEN [k \in 1..n |-> 0]
        ELSE [bytes[t - 1] EXCEPT ![Lightest(bytes[t - 1])] = @ + sizes[order[t]]]
  IN  [k \in 1..n |-> {order[t] : t \in {u \in DOMAIN order : Lightest(bytes[u - 1]) = k}}]

(* Mutant: the last shard is not written.                                  *)
ShardRulesShort(sizes, n) ==
  IF n <= 1 THEN <<DOMAIN sizes>> ELSE [k \in 1..(n - 1) |-> Assigned(sizes, n)[k]]

(* _shard_rules                                                            *)
ShardRules(sizes, n) ==
  IF n <= 1 THEN <<DOMAIN sizes>> ELSE Assigned(sizes, n)

-----------------------------------------------------------------------------
(* The command                                                             *)

IsPro(engine) == engine # "OSS"
IsInterfile(engine) == engine = "PRO_INTERFILE"

(* Why semgrep-core is not started, in the order of the checks.            *)
Refusal(config, roots) ==
  CASE config.engine = "missing" -> Raised(FATAL)
    [] config.engine # "missing" /\ config.runSecrets /\ ~IsPro(config.engine) -> Raised(FATAL)
    [] IsPro(config.engine) /\ ~config.token -> Raised(FATAL)
    [] IsInterfile(config.engine) /\ config.token /\ Cardinality(roots) # 1 -> Raised(FATAL)
    [] OTHER -> NoError

-----------------------------------------------------------------------------
(* The pipe.  A token is [kind, n]: a dot, a number of extra targets, or   *)
(* the n-th of JsonParts pieces of the result.                             *)

JsonParts == 2
Dot == [kind |-> "dot", n |-> 0]
Extra(n) == [kind |-> "extra", n |-> n]
Json(n) == [kind |-> "json", n |-> n]

(* StreamingSemgrepCore._core_stdout_processor.                            *)
NewReader(targets) == [json |-> << >>, done |-> 0, total |-> 3 * targets, killed |-> FALSE]

ReadToken(reader, token, engine) ==
  CASE token.kind = "json" \/ reader.json # << >> -> [reader EXCEPT !.json = Append(@, token)]
    [] token.kind = "dot" /\ reader.json = << >> ->
         [reader EXCEPT !.done = @ + IF IsInterfile(engine) THEN 1 ELSE 3]
    [] OTHER -> [reader EXCEPT !.total = @ + token.n]

(* The end of the pipe before any JSON is how a killed engine looks.       *)
ReadEnd(reader) == [reader EXCEPT !.killed = reader.json = << >>]

(* _extract_core_output and _parse_core_output: any exit code but 0 fails, *)
(* and so does what is no complete JSON.                                   *)
Extracted(reader, returncode) ==
  IF reader.killed \/ returncode # 0 \/ reader.json # [i \in 1..JsonParts |-> Json(i)]
  THEN Raised(FATAL) ELSE NoError

(* _run_rules_direct_to_semgrep_core: an answer in the format of another   *)
(* version is no SemgrepError.  The pro engine is then said to be out of   *)
(* date, and the command ends; otherwise the error is raised as it is, and *)
(* invoke_semgrep_core lets it pass.                                       *)
Misread(engine) == Err(IF IsPro(engine) THEN "SystemExit" ELSE "Exception", FATAL)

-----------------------------------------------------------------------------
(* semgrep-core                                                            *)

(* Rules that the engine cannot parse are reported (RuleParseError) and    *)
(* left out.                                                               *)
Unparsable(rules) == {r \in rules : r.shape \in {"bad schema", "bad regex"}}

(* _raise_skipped_rule_validation_errors: if nobody looked at the rules    *)
(* before, what the engine says of them counts as an error of the config.  *)
SkippedValidation(errors, mode) ==
  IF mode = "NONE" /\ \E e \in errors : e[2] = NoPath
  THEN Err("SemgrepError", MISSING_CONFIG) ELSE NoError

(* What the engine finds in one file with the rules it loaded: for each    *)
(* task, the rules of its language and products whose paths fit.  Rules    *)
(* that run out of time are reported instead.                              *)
EngineRules(disk, task, loaded, respectRulePaths) ==
  {r \in loaded : /\ task.lang \in r.langs /\ Product(r) \in task.products
                  /\ respectRulePaths =>
                       /\ r.includes # {} => AnyMatches(task.path, r.includes)
                       /\ ~AnyMatches(task.path, r.excludes)}

EngineScan(disk, tasks, loaded, path, slow, respectRulePaths) ==
  LET run == UNION {EngineRules(disk, t, loaded, respectRulePaths) : t \in {u \in tasks : u.path = path}}
  IN  [found  |-> {<<r, path>> : r \in {q \in run \ slow : q.body \in disk[path].holds}},
       errors |-> {<<r, path>> : r \in run \cap slow}]
=============================================================================
