--------------------------- MODULE LinterMcpProofs ---------------------------
(***************************************************************************)
(* Proofs about LinterMcp, for any calls, hooks and scenarios: whose the   *)
(* temporary copies are, and that no recorded edit escapes the stop hook.  *)
(***************************************************************************)
EXTENDS LinterMcp, SequenceTheorems, TLAPS

CallPcs == {"idle", "workspace", "read", "waiting", "elicit", "done"}
HookPcs == {"idle", "start", "write", "dump", "scan", "clean", "clear", "cache", "done", "killed"}
Outs == {None, "", "refused", "silent", "failed", "recorded", "scanned", "blocked", "fallback", "readme"}

(* The files whose edits the hooks are told of.                            *)
Edited == {Job(h).file : h \in {g \in DOMAIN jobs.hooks : Job(g).kind = "edit"}}
HookRecords == [pc : HookPcs, list : Seq(Edited), alone : BOOLEAN, out : Outs]

CallsShape ==
  /\ calls = [c \in Calls |-> [pc |-> calls[c].pc, result |-> calls[c].result]]
  /\ \A c \in Calls : calls[c].pc \in CallPcs

Shapes ==
  /\ DOMAIN jobs.calls \subseteq Calls /\ DOMAIN jobs.hooks \subseteq Hooks
  /\ CallsShape
  /\ hooks \in [Hooks -> HookRecords]
  /\ cache \in [state : {"absent", "torn", "whole"}, list : Seq(Edited)]
  /\ cache.state = "torn" => cache = Torn
  /\ defaults \in [text : {None, "", "readme"}, fresh : BOOLEAN]

(* What a hook is about to write is a list within the limit that names no  *)
(* file twice; only an edit hook writes, and only a stop hook scans.       *)
Writing == {h \in Hooks : hooks[h].pc \in {"write", "dump"}}
Read(r) == r.pc = "scan" \/ (r.pc \in {"clean", "clear"} /\ r.out # "failed")
Reading == {h \in Hooks : Read(hooks[h])}

ListsAreSound ==
  /\ \A h \in Writing : Len(hooks[h].list) <= FileEditLimit /\ IsInjective(hooks[h].list)
  /\ \A h \in Writing : h \in DOMAIN jobs.hooks /\ Job(h).kind = "edit" /\ Job(h).file \in ToSet(hooks[h].list)
  /\ \A h \in Hooks : hooks[h].pc \in {"scan", "clean", "clear"} => h \in DOMAIN jobs.hooks /\ Job(h).kind = "stop"
  /\ \A h \in Reading : IsInjective(hooks[h].list)

(* Every list in a hook's hands that is, or will be, taken for the file's  *)
(* holds all edits recorded so far, and so does the file unless somebody   *)
(* is writing it.                                                          *)
LedgerIsKept ==
  /\ \A h \in Writing \cup Reading : ledger \subseteq ToSet(hooks[h].list)
  /\ cache # Torn => ledger \subseteq ToSet(cache.list)
  /\ cache = Torn => ledger = {} \/ \E h \in Hooks : hooks[h].pc = "dump"
  /\ ledger \subseteq Edited

(* What a stop hook scans is what its list names.                          *)
Scanning == {h \in Reading : hooks[h].pc # "clear"}

CopiesAreThere ==
  /\ \A f \in Edited : DOMAIN f = {"path", "kind", "name", "text"}
  /\ \A h \in Scanning :
       /\ HookDir(h) \in DOMAIN temps /\ ValidLocal(hooks[h].list)
       /\ temps[HookDir(h)] = Contents(BaseNames(hooks[h].list))

IInv == TypeOK /\ Shapes /\ TempIsOwned /\ ListsAreSound /\ LedgerIsKept /\ CopiesAreThere

-----------------------------------------------------------------------------
(* What the steps do                                                       *)

(* Two records of a hook that differ at most in whether it was alone.      *)
Same(a, b) == a.pc = b.pc /\ a.list = b.list /\ a.out = b.out

LEMMA HookMoves ==
  ASSUME Shapes, NEW h \in Hooks, NEW next \in HookRecords, HookStep(h, next)
  PROVE  /\ hooks' \in [Hooks -> HookRecords]
         /\ Same(hooks'[h], next)
         /\ \A g \in Hooks \ {h} : Same(hooks'[g], hooks[g])
<1>1. hooks \in [Hooks -> HookRecords]
  BY DEF Shapes
<1>2. \A r \in HookRecords, b \in BOOLEAN :
        [r EXCEPT !.alone = b] \in HookRecords /\ Same([r EXCEPT !.alone = b], r)
  BY DEF HookRecords, Same
<1>3. (next.alone /\ Rivals(h) = {}) \in BOOLEAN
  OBVIOUS
<1>4. /\ [next EXCEPT !.alone = @ /\ Rivals(h) = {}] \in HookRecords
      /\ Same([next EXCEPT !.alone = @ /\ Rivals(h) = {}], next)
  BY <1>2, <1>3
<1>5. \A g \in Hooks : Same(hooks[g], hooks[g])
  BY DEF Same
<1> QED BY <1>1, <1>2, <1>4, <1>5 DEF HookStep

(* The others stay as they are.                                            *)
Others(h) == hooks' \in [Hooks -> HookRecords] /\ \A g \in Hooks \ {h} : Same(hooks'[g], hooks[g])

LEMMA GoEffect ==
  ASSUME Shapes, NEW h \in Hooks, NEW to \in HookPcs, HookGo(h, to)
  PROVE  /\ Others(h) /\ hooks'[h].pc = to
         /\ hooks'[h].list = hooks[h].list /\ hooks'[h].out = hooks[h].out
<1>1. hooks[h] \in HookRecords
  BY DEF Shapes
<1>2. [hooks[h] EXCEPT !.pc = to] \in HookRecords
  BY <1>1 DEF HookRecords
<1> QED BY <1>1, <1>2, HookMoves DEF HookGo, Others, Same, HookRecords

LEMMA EndEffect ==
  ASSUME Shapes, NEW h \in Hooks, NEW out \in Outs, HookEnd(h, out)
  PROVE  /\ Others(h) /\ hooks'[h].pc = "done"
         /\ hooks'[h].list = hooks[h].list /\ hooks'[h].out = out
<1>1. hooks[h] \in HookRecords
  BY DEF Shapes
<1>2. [hooks[h] EXCEPT !.pc = "done", !.out = out] \in HookRecords
  BY <1>1 DEF HookRecords, HookPcs
<1> QED BY <1>1, <1>2, HookMoves DEF HookEnd, Others, Same, HookRecords

LEMMA ListEffect ==
  ASSUME Shapes, NEW h \in Hooks, NEW to \in HookPcs, NEW list \in Seq(Edited),
         HookStep(h, [hooks[h] EXCEPT !.pc = to, !.list = list])
  PROVE  /\ Others(h) /\ hooks'[h].pc = to
         /\ hooks'[h].list = list /\ hooks'[h].out = hooks[h].out
<1>1. hooks[h] \in HookRecords
  BY DEF Shapes
<1>2. [hooks[h] EXCEPT !.pc = to, !.list = list] \in HookRecords
  BY <1>1 DEF HookRecords
<1> QED BY <1>1, <1>2, HookMoves DEF Others, Same, HookRecords

LEMMA OutEffect ==
  ASSUME Shapes, NEW h \in Hooks, NEW to \in HookPcs, NEW out \in Outs,
         HookStep(h, [hooks[h] EXCEPT !.pc = to, !.out = out])
  PROVE  /\ Others(h) /\ hooks'[h].pc = to
         /\ hooks'[h].list = hooks[h].list /\ hooks'[h].out = out
<1>1. hooks[h] \in HookRecords
  BY DEF Shapes
<1>2. [hooks[h] EXCEPT !.pc = to, !.out = out] \in HookRecords
  BY <1>1 DEF HookRecords
<1> QED BY <1>1, <1>2, HookMoves DEF Others, Same, HookRecords

(* A hook that neither reads nor writes the list, or ends.                 *)
Quiet(h) ==
  /\ Others(h) /\ hooks'[h].list = hooks[h].list
  /\ hooks[h].pc \in {"idle", "start", "cache"} /\ hooks'[h].pc \in {"start", "cache", "done"}
  /\ UNCHANGED <<jobs, serverVars, temps, cache, ledger>>
  /\ defaults' \in [text : {None, "", "readme"}, fresh : BOOLEAN]

LEMMA QuietEffect ==
  ASSUME IInv, NEW h \in DOMAIN jobs.hooks,
         HookStarts(h) \/ ScanHook(h) \/ SupplyChainHook(h) \/ InjectDefaults(h) \/ CacheDefaults(h)
  PROVE  Quiet(h)
<1>1. h \in Hooks /\ Shapes /\ hooks[h].list \in Seq(Edited)
  BY DEF IInv, Shapes, HookRecords
<1>2. {"refused", "silent", "failed", "blocked", "fallback", "readme", None, ""} \subseteq Outs
  BY DEF Outs
<1>3. {"start", "cache"} \subseteq HookPcs
  BY DEF HookPcs
<1>4. defaults \in [text : {None, "", "readme"}, fresh : BOOLEAN] /\ defaults.text \in {None, "", "readme"}
  BY <1>1 DEF Shapes
<1>5. CASE HookStarts(h)
  <2>1. \/ \E out \in {"refused", "silent"} : HookEnd(h, out)
        \/ HookGo(h, "start")
    BY <1>5 DEF HookStarts
  <2>2. UNCHANGED <<jobs, serverVars, temps, cache, ledger, defaults>> /\ hooks[h].pc \in {"idle", "start", "cache"}
    BY <1>5 DEF HookStarts
  <2> QED BY <1>1, <1>2, <1>3, <1>4, <2>1, <2>2, GoEffect, EndEffect DEF Quiet
<1>6. CASE ScanHook(h)
  <2>1. \E out \in {"blocked", "silent", "failed"} : HookEnd(h, out)
    BY <1>6 DEF ScanHook
  <2>2. UNCHANGED <<jobs, serverVars, temps, cache, ledger, defaults>> /\ hooks[h].pc \in {"idle", "start", "cache"}
    BY <1>6 DEF ScanHook
  <2> QED BY <1>1, <1>2, <1>3, <1>4, <2>1, <2>2, EndEffect DEF Quiet
<1>7. CASE SupplyChainHook(h)
  <2>1. \E out \in {"blocked", "silent", "failed"} : HookEnd(h, out)
    BY <1>7 DEF SupplyChainHook, Decision
  <2>2. UNCHANGED <<jobs, serverVars, temps, cache, ledger, defaults>> /\ hooks[h].pc \in {"idle", "start", "cache"}
    BY <1>7 DEF SupplyChainHook
  <2> QED BY <1>1, <1>2, <1>3, <1>4, <2>1, <2>2, EndEffect DEF Quiet
<1>8. CASE InjectDefaults(h)
  <2>1. \/ HookEnd(h, "fallback") \/ HookEnd(h, defaults.text)
        \/ HookGo(h, "cache")
    BY <1>8 DEF InjectDefaults
  <2>2. UNCHANGED <<jobs, serverVars, temps, cache, ledger>> /\ hooks[h].pc \in {"idle", "start", "cache"}
    BY <1>8 DEF InjectDefaults
  <2>3. \/ defaults' = defaults
        \/ defaults' = [text |-> IF defaults.text = None THEN "" ELSE defaults.text, fresh |-> TRUE]
    BY <1>8 DEF InjectDefaults
  <2>4. defaults' \in [text : {None, "", "readme"}, fresh : BOOLEAN]
    <3>1. (IF defaults.text = None THEN "" ELSE defaults.text) \in {None, "", "readme"}
      BY <1>4
    <3>2. \A t \in {None, "", "readme"} :
            [text |-> t, fresh |-> TRUE] \in [text : {None, "", "readme"}, fresh : BOOLEAN]
      OBVIOUS
    <3> QED BY <1>4, <2>3, <3>1, <3>2
  <2>5. defaults.text \in Outs
    BY <1>2, <1>4
  <2> QED BY <1>1, <1>2, <1>3, <2>1, <2>2, <2>4, <2>5, GoEffect, EndEffect DEF Quiet
<1>9. CASE CacheDefaults(h)
  <2>1. HookEnd(h, "readme")
    BY <1>9 DEF CacheDefaults
  <2>2. UNCHANGED <<jobs, serverVars, temps, cache, ledger>> /\ hooks[h].pc \in {"idle", "start", "cache"}
    BY <1>9 DEF CacheDefaults
  <2>3. defaults' \in [text : {None, "", "readme"}, fresh : BOOLEAN]
    BY <1>9 DEF CacheDefaults
  <2> QED BY <1>1, <1>2, <1>3, <2>1, <2>2, <2>3, EndEffect DEF Quiet
<1> QED BY <1>5, <1>6, <1>7, <1>8, <1>9

(* A hook that records an edit alone: none that could hold a list of before*)
(* is on its way.                                                          *)
Records(h) ==
  \/ ledger' = ledger
  \/ ledger' = ledger \cup {Job(h).file} /\ Rivals(h) = {}

LEMMA RecordEditEffect ==
  ASSUME IInv, NEW h \in DOMAIN jobs.hooks, RecordEdit(h)
  PROVE  /\ hooks[h].pc = "start" /\ Job(h).kind = "edit" /\ Others(h)
         /\ UNCHANGED <<jobs, serverVars, temps, cache, defaults>>
         /\ \/ /\ hooks'[h].pc = "done" /\ Records(h)
               /\ ledger' # ledger => cache # Torn /\ Job(h).file \in ToSet(cache.list)
            \/ /\ hooks'[h].pc = "write" /\ ledger' = ledger /\ cache # Torn
               /\ Len(cache.list) < FileEditLimit /\ Job(h).file \notin ToSet(cache.list)
               /\ hooks'[h].list = Append(cache.list, Job(h).file)
<1>1. h \in Hooks /\ Shapes /\ cache.list \in Seq(Edited)
  BY DEF IInv, Shapes
<1>2. hooks[h].pc = "start" /\ Job(h).kind = "edit" /\ UNCHANGED <<jobs, serverVars, temps, cache, defaults>>
  BY DEF RecordEdit
<1>3. Job(h).file \in Edited
  BY <1>2 DEF Edited
<1>4. Append(cache.list, Job(h).file) \in Seq(Edited)
  BY <1>1, <1>3
<1>5. {"failed", "recorded"} \subseteq Outs /\ "write" \in HookPcs
  BY DEF Outs, HookPcs
<1>6. \/ /\ HookEnd(h, "failed") \/ HookEnd(h, "recorded")
         /\ Records(h) /\ (ledger' # ledger => cache # Torn /\ Job(h).file \in ToSet(cache.list))
      \/ /\ HookStep(h, [hooks[h] EXCEPT !.pc = "write", !.list = Append(cache.list, Job(h).file)])
         /\ ledger' = ledger /\ cache # Torn
         /\ Len(cache.list) < FileEditLimit /\ Job(h).file \notin ToSet(cache.list)
  BY DEF RecordEdit, Loaded, Records
<1>7. ASSUME HookEnd(h, "failed") \/ HookEnd(h, "recorded")
      PROVE  Others(h) /\ hooks'[h].pc = "done"
  BY <1>1, <1>5, <1>7, EndEffect
<1>8. ASSUME HookStep(h, [hooks[h] EXCEPT !.pc = "write", !.list = Append(cache.list, Job(h).file)])
      PROVE  Others(h) /\ hooks'[h].pc = "write" /\ hooks'[h].list = Append(cache.list, Job(h).file)
  <2> DEFINE list == Append(cache.list, Job(h).file)
  <2>1. list \in Seq(Edited) /\ HookStep(h, [hooks[h] EXCEPT !.pc = "write", !.list = list])
    BY <1>4, <1>8
  <2> HIDE DEF list
  <2>2. Others(h) /\ hooks'[h].pc = "write" /\ hooks'[h].list = list
    BY <1>1, <1>5, <2>1, ListEffect
  <2> QED BY <2>2 DEF list
<1> QED BY <1>2, <1>6, <1>7, <1>8

LEMMA TruncateCacheEffect ==
  ASSUME IInv, NEW h \in DOMAIN jobs.hooks, TruncateCache(h)
  PROVE  /\ hooks[h].pc = "write" /\ Others(h) /\ hooks'[h].pc = "dump" /\ hooks'[h].list = hooks[h].list
         /\ cache' = Torn /\ UNCHANGED <<jobs, serverVars, temps, defaults, ledger>>
<1>1. h \in Hooks /\ Shapes /\ hooks[h].list \in Seq(Edited)
  BY DEF IInv, Shapes, HookRecords
<1>2. "dump" \in HookPcs /\ None \in Outs
  BY DEF HookPcs, Outs
<1> QED BY <1>1, <1>2, GoEffect DEF TruncateCache

LEMMA DumpCacheEffect ==
  ASSUME IInv, NEW h \in DOMAIN jobs.hooks, DumpCache(h)
  PROVE  /\ hooks[h].pc = "dump" /\ Others(h) /\ hooks'[h].pc = "done"
         /\ cache' = Whole(hooks[h].list) /\ Records(h) /\ UNCHANGED <<jobs, serverVars, temps, defaults>>
<1>1. h \in Hooks /\ Shapes /\ hooks[h].list \in Seq(Edited)
  BY DEF IInv, Shapes, HookRecords
<1>2. "done" \in HookPcs /\ "recorded" \in Outs
  BY DEF HookPcs, Outs
<1>3. HookEnd(h, "recorded") /\ Records(h)
  BY DEF DumpCache, Records
<1> QED BY <1>1, <1>2, <1>3, EndEffect DEF DumpCache

LEMMA StopReadsEffect ==
  ASSUME IInv, NEW h \in DOMAIN jobs.hooks, StopReads(h)
  PROVE  /\ hooks[h].pc = "start" /\ Job(h).kind = "stop" /\ Others(h)
         /\ UNCHANGED <<jobs, serverVars, cache, defaults, ledger>>
         /\ \/ /\ hooks'[h].pc = "scan" /\ hooks'[h].list = cache.list
               /\ cache # Torn /\ ValidLocal(cache.list)
               /\ temps' = Join(temps, HookDir(h), Contents(BaseNames(cache.list)))
            \/ hooks'[h].pc = "clean" /\ hooks'[h].out = "failed" /\ temps' = temps
<1>1. h \in Hooks /\ Shapes /\ cache.list \in Seq(Edited)
  BY DEF IInv, Shapes
<1>2. "failed" \in Outs /\ "scan" \in HookPcs /\ "clean" \in HookPcs
  BY DEF Outs, HookPcs
<1>3. hooks[h].pc = "start" /\ Job(h).kind = "stop" /\ UNCHANGED <<jobs, serverVars, cache, defaults, ledger>>
  BY DEF StopReads
<1>4. \/ /\ HookStep(h, [hooks[h] EXCEPT !.pc = "scan", !.list = cache.list])
         /\ cache # Torn /\ ValidLocal(cache.list)
         /\ temps' = Join(temps, HookDir(h), Contents(BaseNames(cache.list)))
      \/ HookStep(h, [hooks[h] EXCEPT !.pc = "clean", !.out = "failed"]) /\ temps' = temps
  BY DEF StopReads, Loaded
<1>5. ASSUME HookStep(h, [hooks[h] EXCEPT !.pc = "scan", !.list = cache.list])
      PROVE  Others(h) /\ hooks'[h].pc = "scan" /\ hooks'[h].list = cache.list
  BY ZenonT(40), <1>1, <1>2, <1>5, ListEffect
<1>6. ASSUME HookStep(h, [hooks[h] EXCEPT !.pc = "clean", !.out = "failed"])
      PROVE  Others(h) /\ hooks'[h].pc = "clean" /\ hooks'[h].out = "failed"
  BY <1>1, <1>2, <1>6, OutEffect
<1> QED BY <1>3, <1>4, <1>5, <1>6

LEMMA StopScansEffect ==
  ASSUME IInv, NEW h \in DOMAIN jobs.hooks, StopScans(h)
  PROVE  /\ hooks[h].pc = "scan" /\ Others(h) /\ hooks'[h].pc = "clean" /\ hooks'[h].list = hooks[h].list
         /\ UNCHANGED <<jobs, serverVars, temps, cache, defaults, ledger>>
<1>1. h \in Hooks /\ Shapes /\ hooks[h].list \in Seq(Edited)
  BY DEF IInv, Shapes, HookRecords
<1>2. {"scanned", "failed"} \subseteq Outs /\ "clean" \in HookPcs
  BY DEF Outs, HookPcs
<1>3. \E out \in {"scanned", "failed"} : HookStep(h, [hooks[h] EXCEPT !.pc = "clean", !.out = out])
  BY DEF StopScans
<1> QED BY <1>1, <1>2, <1>3, OutEffect DEF StopScans

LEMMA StopRemovesEffect ==
  ASSUME IInv, NEW h \in DOMAIN jobs.hooks, StopRemoves(h)
  PROVE  /\ hooks[h].pc = "clean" /\ Others(h) /\ hooks'[h].pc = "clear"
         /\ hooks'[h].list = hooks[h].list /\ hooks'[h].out = hooks[h].out
         /\ temps' = Leave(temps, HookDir(h)) /\ UNCHANGED <<jobs, serverVars, cache, defaults, ledger>>
<1>1. h \in Hooks /\ Shapes /\ hooks[h].list \in Seq(Edited)
  BY DEF IInv, Shapes, HookRecords
<1>2. "clear" \in HookPcs /\ None \in Outs
  BY DEF HookPcs, Outs
<1> QED BY <1>1, <1>2, GoEffect DEF StopRemoves

LEMMA StopClearsEffect ==
  ASSUME IInv, NEW h \in DOMAIN jobs.hooks, StopClears(h)
  PROVE  /\ hooks[h].pc = "clear" /\ Others(h) /\ hooks'[h].pc = "done"
         /\ cache' = Absent /\ ledger' = {} /\ UNCHANGED <<jobs, serverVars, temps, defaults>>
<1>1. h \in Hooks /\ Shapes /\ hooks[h].list \in Seq(Edited) /\ hooks[h].out \in Outs
  BY DEF IInv, Shapes, HookRecords
<1>2. "done" \in HookPcs
  BY DEF HookPcs
<1> QED BY <1>1, <1>2, EndEffect DEF StopClears

LEMMA KillEffect ==
  ASSUME IInv, NEW h \in DOMAIN jobs.hooks, Kill(h)
  PROVE  /\ hooks[h].pc \notin {"idle", "done", "killed"} /\ Others(h) /\ hooks'[h].pc = "killed"
         /\ ledger' = IF hooks[h].pc = "dump" THEN {} ELSE ledger
         /\ UNCHANGED <<jobs, serverVars, temps, cache, defaults>>
<1>1. h \in Hooks /\ Shapes /\ hooks[h].list \in Seq(Edited) /\ hooks[h].list = hooks[h].list
  BY DEF IInv, Shapes, HookRecords
<1>2. "killed" \in HookPcs /\ None \in Outs
  BY DEF HookPcs, Outs
<1>3. HookGo(h, "killed") /\ h \in Live
  BY DEF Kill, HookGo
<1> QED BY <1>1, <1>2, <1>3, GoEffect DEF Kill, Live

(* A step of a call: what becomes of it, of its directory and of the pipe. *)
CallMoves(c) ==
  /\ UNCHANGED <<jobs, tools, hookVars>> /\ cwd' \in {cwd, "workspace"}
  /\ CallsShape'
  /\ \A d \in Calls \ {c} : calls'[d] = calls[d]
  /\ \/ calls'[c].pc = "waiting" /\ reader = NoCall /\ reader' = c
     \/ calls'[c].pc # "waiting" /\ reader' = IF reader = c THEN NoCall ELSE reader
  /\ \/ temps' = temps /\ calls[c].pc # "elicit"
     \/ temps' = Leave(temps, CallDir(c))
     \/ calls'[c].pc = "elicit" /\ \E t : temps' = Join(temps, CallDir(c), t)

LEMMA Becomes ==
  ASSUME CallsShape, NEW c \in Calls, NEW pc \in CallPcs, NEW result,
         calls' = [calls EXCEPT ![c] = [pc |-> pc, result |-> result]]
  PROVE  CallsShape' /\ calls'[c].pc = pc /\ \A d \in Calls \ {c} : calls'[d] = calls[d]
BY DEF CallsShape

LEMMA GoBecomes ==
  ASSUME CallsShape, NEW c \in Calls, NEW pc \in CallPcs, Go(c, pc)
  PROVE  CallsShape' /\ calls'[c].pc = pc /\ \A d \in Calls \ {c} : calls'[d] = calls[d]
<1>1. calls[c] = [pc |-> calls[c].pc, result |-> calls[c].result]
  BY DEF CallsShape
<1>2. [calls[c] EXCEPT !.pc = pc] = [pc |-> pc, result |-> calls[c].result]
  BY <1>1
<1>3. calls' = [calls EXCEPT ![c] = [calls[c] EXCEPT !.pc = pc]]
  BY DEF Go
<1>4. calls' = [calls EXCEPT ![c] = [pc |-> pc, result |-> calls[c].result]]
  BY <1>2, <1>3
<1> HIDE DEF CallsShape
<1> QED BY <1>4, Becomes

LEMMA EndBecomes ==
  ASSUME CallsShape, NEW c \in Calls, NEW result, End(c, result)
  PROVE  CallsShape' /\ calls'[c].pc = "done" /\ \A d \in Calls \ {c} : calls'[d] = calls[d]
BY Becomes DEF End, CallPcs

(* A call that waits is the one that reads, and no other.                  *)
LEMMA ReaderWaits ==
  ASSUME IInv, NEW c \in Calls, calls[c].pc # "waiting"
  PROVE  reader = IF reader = c THEN NoCall ELSE reader
BY DEF IInv, TypeOK

LEMMA RunCliEffect ==
  ASSUME IInv, NEW c \in Calls, NEW files, NEW config, calls[c].pc = "workspace", RunCli(c, files, config)
  PROVE  CallMoves(c)
<1>1. CallsShape /\ reader = IF reader = c THEN NoCall ELSE reader
  BY ReaderWaits DEF IInv, Shapes
<1>2. UNCHANGED <<jobs, tools, reader, cwd, hookVars>>
  BY DEF RunCli
<1>3. \/ \E result : End(c, result) /\ temps' = temps
      \/ /\ calls' = [calls EXCEPT ![c] = [pc |-> "elicit", result |-> Result("ok", Range(Contents(files)))]]
         /\ temps' = Join(temps, CallDir(c), Contents(files))
  BY DEF RunCli
<1>4. CASE \E result : End(c, result) /\ temps' = temps
  BY <1>1, <1>2, <1>4, EndBecomes DEF CallMoves
<1>5. CASE /\ calls' = [calls EXCEPT ![c] = [pc |-> "elicit", result |-> Result("ok", Range(Contents(files)))]]
           /\ temps' = Join(temps, CallDir(c), Contents(files))
  <2>1. "elicit" \in CallPcs
    BY DEF CallPcs
  <2>2. CallsShape' /\ calls'[c].pc = "elicit" /\ \A d \in Calls \ {c} : calls'[d] = calls[d]
    BY <1>1, <1>5, <2>1, Becomes
  <2> QED BY <1>1, <1>2, <1>5, <2>2 DEF CallMoves
<1> QED BY <1>3, <1>4, <1>5

LEMMA CallEffect ==
  ASSUME IInv, NEW c \in DOMAIN jobs.calls, CallStep(c) \/ Cancel(c)
  PROVE  CallMoves(c)
<1>1. c \in Calls /\ CallsShape
  BY DEF IInv, Shapes
<1>2. {"workspace", "read", "waiting", "elicit", "done"} \subseteq CallPcs
  BY DEF CallPcs
<1>3. CASE Call(c)
  <2>1. Go(c, "workspace") /\ calls[c].pc = "idle" /\ UNCHANGED <<jobs, tools, reader, cwd, temps, hookVars>>
    BY <1>3 DEF Call
  <2> QED BY <1>1, <1>2, <2>1, ReaderWaits, GoBecomes DEF CallMoves
<1>4. CASE Reject(c) \/ GetAbstractSyntaxTree(c) \/ Query(c)
  <2>1. /\ \E result : End(c, result)
        /\ calls[c].pc = "workspace" /\ UNCHANGED <<jobs, tools, reader, cwd, temps, hookVars>>
    BY <1>4 DEF Reject, GetAbstractSyntaxTree, Query
  <2> QED BY <1>1, <1>2, <2>1, ReaderWaits, EndBecomes DEF CallMoves
<1>5. CASE ScanCli(c)
  BY <1>1, <1>5, RunCliEffect DEF ScanCli
<1>6. CASE ScanWithCustomRule(c)
  BY <1>1, <1>6, RunCliEffect DEF ScanWithCustomRule
<1>7. CASE SendRequest(c)
  <2>1. calls[c].pc = "workspace" /\ UNCHANGED <<jobs, tools, reader, cwd, temps, hookVars>>
    BY <1>7 DEF SendRequest
  <2>2. End(c, Error) \/ Go(c, "read")
    BY <1>7 DEF SendRequest
  <2> QED BY <1>1, <1>2, <2>1, <2>2, ReaderWaits, GoBecomes, EndBecomes DEF CallMoves
<1>8. CASE ReadLine(c)
  <2>1. calls[c].pc = "read" /\ UNCHANGED <<jobs, tools, cwd, temps, hookVars>>
    BY <1>8 DEF ReadLine
  <2>2. \/ Answered(c, Head(daemon.stdout)) /\ reader' = reader
        \/ End(c, Error) /\ reader' = reader
        \/ Go(c, "waiting") /\ reader = NoCall /\ reader' = c
    BY <1>8 DEF ReadLine
  <2>3. CASE Answered(c, Head(daemon.stdout)) /\ reader' = reader
    <3>1. \E pc \in {"elicit", "done"} : \E result :
            calls' = [calls EXCEPT ![c] = [pc |-> pc, result |-> result]]
      BY <2>3 DEF Answered
    <3> QED BY ZenonT(40), <1>1, <1>2, <2>1, <2>3, <3>1, ReaderWaits, Becomes DEF CallMoves
  <2>4. CASE End(c, Error) /\ reader' = reader
    BY <1>1, <2>1, <2>4, ReaderWaits, EndBecomes DEF CallMoves
  <2>5. CASE Go(c, "waiting") /\ reader = NoCall /\ reader' = c
    BY <1>1, <1>2, <2>1, <2>5, GoBecomes DEF CallMoves
  <2> QED BY <2>2, <2>3, <2>4, <2>5
<1>9. CASE Elicited(c)
  <2>1. /\ calls[c].pc = "elicit" /\ UNCHANGED <<jobs, tools, reader, cwd, hookVars>>
        /\ temps' = Leave(temps, CallDir(c))
    BY <1>9 DEF Elicited
  <2>2. End(c, Error) \/ Go(c, "done")
    BY <1>9 DEF Elicited
  <2> QED BY <1>1, <1>2, <2>1, <2>2, ReaderWaits, GoBecomes, EndBecomes DEF CallMoves
<1>10. CASE ScanSupplyChain(c)
  <2>1. calls[c].pc = "workspace" /\ UNCHANGED <<jobs, tools, reader, temps, hookVars>>
    BY <1>10 DEF ScanSupplyChain
  <2>2. (\E result : End(c, result)) /\ cwd' \in {cwd, "workspace"}
    BY <1>10 DEF ScanSupplyChain
  <2> QED BY <1>1, <2>1, <2>2, ReaderWaits, EndBecomes DEF CallMoves
<1>11. CASE Cancel(c)
  <2>1. /\ UNCHANGED <<jobs, tools, cwd, hookVars>>
        /\ temps' = Leave(temps, CallDir(c))
        /\ reader' = IF reader = c THEN NoCall ELSE reader
        /\ End(c, Result("cancelled", {}))
    BY <1>11 DEF Cancel
  <2> QED BY <1>1, <2>1, EndBecomes DEF CallMoves
<1> QED BY <1>3, <1>4, <1>5, <1>6, <1>7, <1>8, <1>9, <1>10, <1>11 DEF CallStep

(* The daemon's answer, or its end, wakes the reader.                      *)
LEMMA DaemonEffect ==
  ASSUME IInv, DaemonAnswers \/ DaemonDies
  PROVE  /\ UNCHANGED <<jobs, tools, cwd, temps, hookVars>> /\ reader' = NoCall /\ CallsShape'
         /\ \A c \in Calls : calls'[c].pc = IF calls[c].pc = "waiting" THEN "read" ELSE calls[c].pc
<1>1. UNCHANGED <<jobs, tools, cwd, temps, hookVars>> /\ reader' = NoCall /\ calls' = Woken
  BY DEF DaemonAnswers, DaemonDies
<1>2. /\ calls = [c \in Calls |-> calls[c]]
      /\ \A c \in Calls : calls[c] = [pc |-> calls[c].pc, result |-> calls[c].result] /\ calls[c].pc \in CallPcs
  BY DEF IInv, Shapes, CallsShape
<1>3. \A c \in Calls : [calls[c] EXCEPT !.pc = "read"] = [pc |-> "read", result |-> calls[c].result]
  BY <1>2
<1>4. \A c \in Calls : calls'[c] = [pc |-> IF calls[c].pc = "waiting" THEN "read" ELSE calls[c].pc,
                                    result |-> calls[c].result]
  BY <1>1, <1>2, <1>3 DEF Woken
<1>5. calls' = [c \in Calls |-> calls'[c]]
  BY <1>1 DEF Woken
<1>6. ASSUME NEW c \in Calls
      PROVE  /\ calls'[c].pc = IF calls[c].pc = "waiting" THEN "read" ELSE calls[c].pc
             /\ calls'[c].result = calls[c].result
  <2> DEFINE next == IF calls[c].pc = "waiting" THEN "read" ELSE calls[c].pc
  <2>1. calls'[c] = [pc |-> next, result |-> calls[c].result]
    BY <1>4
  <2> HIDE DEF next
  <2>2. calls'[c].pc = next /\ calls'[c].result = calls[c].result
    BY <2>1
  <2> QED BY <2>2 DEF next
<1>7. \A c \in Calls : calls'[c] = [pc |-> calls'[c].pc, result |-> calls'[c].result]
  BY <1>4, <1>6
<1>8. \A c \in Calls : calls'[c].pc \in CallPcs
  BY <1>2, <1>6 DEF CallPcs
<1>9. CallsShape'
  BY <1>5, <1>7, <1>8 DEF CallsShape
<1> QED BY <1>1, <1>6, <1>9

(* A step that is neither a call's, the daemon's nor a hook's.             *)
Still ==
  /\ UNCHANGED <<jobs, reader, cwd, temps, calls, cache, hooks, ledger>>
  /\ tools' \in {tools, OfferedTools(env)}
  /\ defaults' \in [text : {None, "", "readme"}, fresh : BOOLEAN]

DaemonMoves ==
  /\ UNCHANGED <<jobs, tools, cwd, temps, hookVars>> /\ reader' = NoCall /\ CallsShape'
  /\ \A c \in Calls : calls'[c].pc = IF calls[c].pc = "waiting" THEN "read" ELSE calls[c].pc

HookMove(h) ==
  \/ Quiet(h) \/ RecordEdit(h) \/ TruncateCache(h) \/ DumpCache(h)
  \/ StopReads(h) \/ StopScans(h) \/ StopRemoves(h) \/ StopClears(h) \/ Kill(h)

LEMMA StepKinds ==
  IInv /\ [Next]_vars =>
    \/ Still \/ DaemonMoves
    \/ \E c \in DOMAIN jobs.calls : CallMoves(c)
    \/ \E h \in DOMAIN jobs.hooks : HookMove(h)
<1> SUFFICES ASSUME IInv, [Next]_vars
             PROVE  \/ Still \/ DaemonMoves
                    \/ \E c \in DOMAIN jobs.calls : CallMoves(c)
                    \/ \E h \in DOMAIN jobs.hooks : HookMove(h)
  OBVIOUS
<1>1. defaults \in [text : {None, "", "readme"}, fresh : BOOLEAN]
  BY DEF IInv, Shapes
<1>2. [defaults EXCEPT !.fresh = FALSE] \in [text : {None, "", "readme"}, fresh : BOOLEAN]
  BY <1>1
<1>3. CASE Start
  BY <1>1, <1>3 DEF Start, Still, hookVars
<1>4. CASE DefaultsExpire
  BY <1>2, <1>4 DEF DefaultsExpire, Still, serverVars
<1>5. CASE UNCHANGED vars
  BY <1>1, <1>5 DEF vars, serverVars, hookVars, Still
<1>6. CASE DaemonAnswers \/ DaemonDies
  BY <1>6, DaemonEffect DEF DaemonMoves
<1>7. ASSUME NEW c \in DOMAIN jobs.calls, CallStep(c) \/ Cancel(c)
      PROVE  CallMoves(c)
  BY <1>7, CallEffect
<1>8. ASSUME NEW h \in DOMAIN jobs.hooks, HookRuns(h) \/ Kill(h)
      PROVE  HookMove(h)
  BY <1>8, QuietEffect DEF HookRuns, HookMove
<1> QED BY <1>3, <1>4, <1>5, <1>6, <1>7, <1>8 DEF Next

-----------------------------------------------------------------------------
(* The invariant is kept                                                   *)

(* What the scenario fixes stays fixed.                                    *)
LEMMA SameJobs ==
  UNCHANGED jobs => Edited' = Edited /\ HookRecords' = HookRecords /\ \A h : Job(h)' = Job(h)
<1> SUFFICES ASSUME UNCHANGED jobs
             PROVE  Edited' = Edited /\ HookRecords' = HookRecords /\ \A h : Job(h)' = Job(h)
  OBVIOUS
<1>1. Edited' = Edited
  BY DEF Edited, Job
<1> QED BY <1>1 DEF HookRecords, Job

LEMMA ShapesKept ==
  ASSUME IInv, UNCHANGED jobs, CallsShape', hooks' \in [Hooks -> HookRecords],
         cache' \in [state : {"absent", "torn", "whole"}, list : Seq(Edited)],
         cache'.state = "torn" => cache' = Torn,
         defaults' \in [text : {None, "", "readme"}, fresh : BOOLEAN]
  PROVE  Shapes'
BY SameJobs DEF Shapes, IInv

LEMMA ShapesNow ==
  ASSUME IInv
  PROVE  /\ CallsShape /\ hooks \in [Hooks -> HookRecords]
         /\ DOMAIN jobs.hooks \subseteq Hooks /\ DOMAIN jobs.calls \subseteq Calls
         /\ cache \in [state : {"absent", "torn", "whole"}, list : Seq(Edited)]
         /\ cache.state = "torn" => cache = Torn
         /\ defaults \in [text : {None, "", "readme"}, fresh : BOOLEAN]
BY DEF IInv, Shapes

(* A hook's step, as far as the server is concerned, is none.              *)
LEMMA ServerRests ==
  ASSUME IInv, UNCHANGED serverVars
  PROVE  CallsShape' /\ calls' = calls
BY ShapesNow DEF serverVars, CallsShape


ServerTypes ==
  /\ tools \subseteq AllTools
  /\ reader \in Calls \cup {NoCall}
  /\ \A c \in Calls : calls[c].pc = "waiting" <=> reader = c
  /\ \A c \in Calls : calls[c].pc # "idle" => c \in DOMAIN jobs.calls
  /\ cwd \in {"home", "workspace"}

(* One call at a time waits on the daemon's pipe.                          *)
LEMMA ServerStep == IInv /\ [Next]_vars => ServerTypes'
<1> SUFFICES ASSUME IInv, [Next]_vars PROVE ServerTypes'
  OBVIOUS
<1>1. CASE Still
  BY <1>1 DEF Still, IInv, TypeOK, ServerTypes, OfferedTools
<1>2. CASE DaemonMoves
  BY <1>2, ScenarioAssumption DEF DaemonMoves, IInv, TypeOK, ServerTypes
<1>3. ASSUME NEW c \in DOMAIN jobs.calls, CallMoves(c)
      PROVE  ServerTypes'
  <2>1. c \in Calls /\ c # NoCall
    BY ShapesNow, ScenarioAssumption
  <2>2. UNCHANGED <<jobs, tools>> /\ cwd' \in {cwd, "workspace"} /\ \A d \in Calls \ {c} : calls'[d] = calls[d]
    BY <1>3 DEF CallMoves
  <2>3. reader' \in Calls \cup {NoCall} /\ \A d \in Calls : calls'[d].pc = "waiting" <=> reader' = d
    <3>1. reader \in Calls \cup {NoCall} /\ \A d \in Calls : calls[d].pc = "waiting" <=> reader = d
      BY DEF IInv, TypeOK
    <3>2. NoCall \notin Calls
      BY ScenarioAssumption
    <3>3. \/ calls'[c].pc = "waiting" /\ reader = NoCall /\ reader' = c
          \/ calls'[c].pc # "waiting" /\ reader' = IF reader = c THEN NoCall ELSE reader
      BY <1>3 DEF CallMoves
    <3> QED BY <2>1, <2>2, <3>1, <3>2, <3>3
  <2> QED BY <2>1, <2>2, <2>3 DEF IInv, TypeOK, ServerTypes
<1>4. ASSUME NEW h \in DOMAIN jobs.hooks, Quiet(h)
      PROVE  ServerTypes'
  BY <1>4 DEF IInv, TypeOK, ServerTypes, serverVars, Quiet
<1>5. ASSUME NEW h \in DOMAIN jobs.hooks, RecordEdit(h)
      PROVE  ServerTypes'
  BY <1>5, RecordEditEffect DEF IInv, TypeOK, ServerTypes, serverVars
<1>6. ASSUME NEW h \in DOMAIN jobs.hooks, TruncateCache(h)
      PROVE  ServerTypes'
  BY <1>6, TruncateCacheEffect DEF IInv, TypeOK, ServerTypes, serverVars
<1>7. ASSUME NEW h \in DOMAIN jobs.hooks, DumpCache(h)
      PROVE  ServerTypes'
  BY <1>7, DumpCacheEffect DEF IInv, TypeOK, ServerTypes, serverVars
<1>8. ASSUME NEW h \in DOMAIN jobs.hooks, StopReads(h)
      PROVE  ServerTypes'
  BY <1>8, StopReadsEffect DEF IInv, TypeOK, ServerTypes, serverVars
<1>9. ASSUME NEW h \in DOMAIN jobs.hooks, StopScans(h)
      PROVE  ServerTypes'
  BY <1>9, StopScansEffect DEF IInv, TypeOK, ServerTypes, serverVars
<1>10. ASSUME NEW h \in DOMAIN jobs.hooks, StopRemoves(h)
      PROVE  ServerTypes'
  BY <1>10, StopRemovesEffect DEF IInv, TypeOK, ServerTypes, serverVars
<1>11. ASSUME NEW h \in DOMAIN jobs.hooks, StopClears(h)
      PROVE  ServerTypes'
  BY <1>11, StopClearsEffect DEF IInv, TypeOK, ServerTypes, serverVars
<1>12. ASSUME NEW h \in DOMAIN jobs.hooks, Kill(h)
      PROVE  ServerTypes'
  BY <1>12, KillEffect DEF IInv, TypeOK, ServerTypes, serverVars
<1> QED
  BY <1>1, <1>2, <1>3, <1>4, <1>5, <1>6, <1>7, <1>8, <1>9, <1>10, <1>11, <1>12, StepKinds DEF HookMove

(* Records keep their shape.                                               *)
LEMMA ShapesStep == IInv /\ [Next]_vars => Shapes'
<1> SUFFICES ASSUME IInv, [Next]_vars PROVE Shapes'
  OBVIOUS
<1>1. CASE Still
  <2>1. CallsShape'
    BY <1>1, ShapesNow DEF Still, CallsShape
  <2> QED BY <1>1, <2>1, ShapesNow, ShapesKept DEF Still
<1>2. CASE DaemonMoves
  BY <1>2, ShapesNow, ShapesKept DEF DaemonMoves, hookVars
<1>3. ASSUME NEW c \in DOMAIN jobs.calls, CallMoves(c)
      PROVE  Shapes'
  BY <1>3, ShapesNow, ShapesKept DEF CallMoves, hookVars
<1>4. ASSUME NEW h \in DOMAIN jobs.hooks, Quiet(h)
      PROVE  Shapes'
  BY <1>4, ShapesNow, ServerRests, ShapesKept DEF Others, Quiet
<1>5. ASSUME NEW h \in DOMAIN jobs.hooks, RecordEdit(h)
      PROVE  Shapes'
  BY <1>5, RecordEditEffect, ShapesNow, ServerRests, ShapesKept DEF Others
<1>6. ASSUME NEW h \in DOMAIN jobs.hooks, TruncateCache(h)
      PROVE  Shapes'
  <2>1. cache' \in [state : {"absent", "torn", "whole"}, list : Seq(Edited)]
    <3>1. << >> \in Seq(Edited) /\ cache' = [state |-> "torn", list |-> << >>]
      BY <1>6, TruncateCacheEffect DEF Torn
    <3> QED BY <3>1
  <2> QED BY <1>6, TruncateCacheEffect, <2>1, ShapesNow, ServerRests, ShapesKept DEF Others
<1>7. ASSUME NEW h \in DOMAIN jobs.hooks, DumpCache(h)
      PROVE  Shapes'
  <2>1. hooks[h].list \in Seq(Edited)
    BY ShapesNow DEF HookRecords
  <2>2. cache' \in [state : {"absent", "torn", "whole"}, list : Seq(Edited)] /\ cache'.state = "whole"
    BY <1>7, DumpCacheEffect, <2>1 DEF Whole
  <2> QED BY <1>7, DumpCacheEffect, <2>2, ShapesNow, ServerRests, ShapesKept DEF Others
<1>8. ASSUME NEW h \in DOMAIN jobs.hooks, StopReads(h)
      PROVE  Shapes'
  BY <1>8, StopReadsEffect, ShapesNow, ServerRests, ShapesKept DEF Others
<1>9. ASSUME NEW h \in DOMAIN jobs.hooks, StopScans(h)
      PROVE  Shapes'
  BY <1>9, StopScansEffect, ShapesNow, ServerRests, ShapesKept DEF Others
<1>10. ASSUME NEW h \in DOMAIN jobs.hooks, StopRemoves(h)
      PROVE  Shapes'
  BY <1>10, StopRemovesEffect, ShapesNow, ServerRests, ShapesKept DEF Others
<1>11. ASSUME NEW h \in DOMAIN jobs.hooks, StopClears(h)
      PROVE  Shapes'
  <2>1. cache' \in [state : {"absent", "torn", "whole"}, list : Seq(Edited)] /\ cache'.state = "absent"
    <3>1. << >> \in Seq(Edited) /\ cache' = [state |-> "absent", list |-> << >>]
      BY <1>11, StopClearsEffect DEF Absent
    <3> QED BY <3>1
  <2> QED BY <1>11, StopClearsEffect, <2>1, ShapesNow, ServerRests, ShapesKept DEF Others
<1>12. ASSUME NEW h \in DOMAIN jobs.hooks, Kill(h)
      PROVE  Shapes'
  BY <1>12, KillEffect, ShapesNow, ServerRests, ShapesKept DEF Others
<1> QED
  BY <1>1, <1>2, <1>3, <1>4, <1>5, <1>6, <1>7, <1>8, <1>9, <1>10, <1>11, <1>12, StepKinds DEF HookMove

(* A directory is there only while its owner is where it may be.           *)
LEMMA OwnDirs ==
  ASSUME IInv
  PROVE  /\ \A c \in Calls : CallDir(c) \in DOMAIN temps => calls[c].pc = "elicit"
         /\ \A h \in Hooks : HookDir(h) \in DOMAIN temps => hooks[h].pc \in {"scan", "clean", "killed"}
BY DEF IInv, TempIsOwned, CallDir, HookDir

LEMMA HookKeepsTemps ==
  ASSUME IInv, NEW h \in Hooks, UNCHANGED calls, Others(h),
         DOMAIN temps' \subseteq DOMAIN temps \cup {HookDir(h)},
         HookDir(h) \in DOMAIN temps' => hooks'[h].pc \in {"scan", "clean", "killed"}
  PROVE  TempIsOwned'
<1> SUFFICES ASSUME NEW o \in DOMAIN temps'
             PROVE  \/ \E c \in Calls : o = CallDir(c) /\ calls'[c].pc = "elicit"
                    \/ \E g \in Hooks : o = HookDir(g) /\ hooks'[g].pc \in {"scan", "clean", "killed"}
  BY DEF TempIsOwned, CallDir, HookDir
<1>1. CASE o = HookDir(h)
  BY <1>1
<1>2. CASE o # HookDir(h)
  <2>1. o \in DOMAIN temps
    BY <1>2
  <2>2. CASE \E c \in Calls : o = CallDir(c) /\ calls[c].pc = "elicit"
    BY <2>2
  <2>3. ASSUME NEW g \in Hooks, o = HookDir(g), hooks[g].pc \in {"scan", "clean", "killed"}
        PROVE  hooks'[g].pc \in {"scan", "clean", "killed"}
    BY <1>2, <2>3 DEF Others, Same
  <2> QED BY <2>1, <2>2, <2>3 DEF IInv, TempIsOwned
<1> QED BY <1>1, <1>2

LEMMA CallKeepsTemps ==
  ASSUME IInv, NEW c \in Calls, UNCHANGED hooks, \A d \in Calls \ {c} : calls'[d] = calls[d],
         DOMAIN temps' \subseteq DOMAIN temps \cup {CallDir(c)},
         CallDir(c) \in DOMAIN temps' => calls'[c].pc = "elicit"
  PROVE  TempIsOwned'
<1> SUFFICES ASSUME NEW o \in DOMAIN temps'
             PROVE  \/ \E d \in Calls : o = CallDir(d) /\ calls'[d].pc = "elicit"
                    \/ \E g \in Hooks : o = HookDir(g) /\ hooks'[g].pc \in {"scan", "clean", "killed"}
  BY DEF TempIsOwned, CallDir, HookDir
<1>1. CASE o = CallDir(c)
  BY <1>1
<1>2. CASE o # CallDir(c)
  <2>1. o \in DOMAIN temps
    BY <1>2
  <2>2. CASE \E g \in Hooks : o = HookDir(g) /\ hooks[g].pc \in {"scan", "clean", "killed"}
    BY <2>2
  <2>3. ASSUME NEW d \in Calls, o = CallDir(d), calls[d].pc = "elicit"
        PROVE  calls'[d].pc = "elicit"
    BY <1>2, <2>3
  <2> QED BY <2>1, <2>2, <2>3 DEF IInv, TempIsOwned
<1> QED BY <1>1, <1>2

LEMMA DirDomains ==
  \A o, t : /\ DOMAIN Join(temps, o, t) = DOMAIN temps \cup {o}
            /\ DOMAIN Leave(temps, o) = DOMAIN temps \ {o}
BY DEF Join, Leave


(* Only the owner of a directory makes and removes it.                     *)
LEMMA TempsStep == IInv /\ [Next]_vars => TempIsOwned'
<1> SUFFICES ASSUME IInv, [Next]_vars PROVE TempIsOwned'
  OBVIOUS
<1>1. CASE Still
  BY <1>1 DEF Still, IInv, TempIsOwned, CallDir, HookDir
<1>2. CASE DaemonMoves
  <2>1. UNCHANGED <<hooks, temps>>
    BY <1>2 DEF DaemonMoves, hookVars
  <2>2. \A c \in Calls : calls[c].pc = "elicit" => calls'[c].pc = "elicit"
    BY <1>2 DEF DaemonMoves
  <2> QED BY <2>1, <2>2 DEF IInv, TempIsOwned, CallDir, HookDir
<1>3. ASSUME NEW c \in DOMAIN jobs.calls, CallMoves(c)
      PROVE  TempIsOwned'
  <2>1. c \in Calls /\ hooks' = hooks /\ \A d \in Calls \ {c} : calls'[d] = calls[d]
    BY <1>3, ShapesNow DEF CallMoves, hookVars
  <2>2. \/ temps' = temps /\ calls[c].pc # "elicit"
        \/ temps' = Leave(temps, CallDir(c))
        \/ calls'[c].pc = "elicit" /\ \E t : temps' = Join(temps, CallDir(c), t)
    BY <1>3 DEF CallMoves
  <2>3. DOMAIN temps' \subseteq DOMAIN temps \cup {CallDir(c)}
    BY <2>2, DirDomains
  <2>4. CallDir(c) \in DOMAIN temps' => calls'[c].pc = "elicit"
    <3>1. CASE temps' = temps /\ calls[c].pc # "elicit"
      BY <2>1, <3>1, OwnDirs
    <3>2. CASE temps' = Leave(temps, CallDir(c))
      BY <3>2, DirDomains
    <3> QED BY <2>2, <3>1, <3>2
  <2> QED BY <2>1, <2>3, <2>4, CallKeepsTemps
<1>4. ASSUME NEW h \in DOMAIN jobs.hooks, Quiet(h)
      PROVE  TempIsOwned'
  <2>1. h \in Hooks /\ calls' = calls
    BY <1>4, ShapesNow, ServerRests DEF Quiet
  <2>2. Others(h) /\ temps' = temps /\ (hooks[h].pc \in {"scan", "clean", "killed"} =>
                                         hooks'[h].pc \in {"scan", "clean", "killed"})
    BY <1>4 DEF Quiet
  <2> QED BY <2>1, <2>2, OwnDirs, HookKeepsTemps
<1>5. ASSUME NEW h \in DOMAIN jobs.hooks, RecordEdit(h)
      PROVE  TempIsOwned'
  <2>1. h \in Hooks /\ calls' = calls
    BY <1>5, RecordEditEffect, ShapesNow, ServerRests
  <2>2. Others(h) /\ temps' = temps /\ (hooks[h].pc \in {"scan", "clean", "killed"} =>
                                         hooks'[h].pc \in {"scan", "clean", "killed"})
    BY <1>5, RecordEditEffect
  <2> QED BY <2>1, <2>2, OwnDirs, HookKeepsTemps
<1>6. ASSUME NEW h \in DOMAIN jobs.hooks, TruncateCache(h)
      PROVE  TempIsOwned'
  <2>1. h \in Hooks /\ calls' = calls
    BY <1>6, TruncateCacheEffect, ShapesNow, ServerRests
  <2>2. Others(h) /\ temps' = temps /\ (hooks[h].pc \in {"scan", "clean", "killed"} =>
                                         hooks'[h].pc \in {"scan", "clean", "killed"})
    BY <1>6, TruncateCacheEffect
  <2> QED BY <2>1, <2>2, OwnDirs, HookKeepsTemps
<1>7. ASSUME NEW h \in DOMAIN jobs.hooks, DumpCache(h)
      PROVE  TempIsOwned'
  <2>1. h \in Hooks /\ calls' = calls
    BY <1>7, DumpCacheEffect, ShapesNow, ServerRests
  <2>2. Others(h) /\ temps' = temps /\ (hooks[h].pc \in {"scan", "clean", "killed"} =>
                                         hooks'[h].pc \in {"scan", "clean", "killed"})
    BY <1>7, DumpCacheEffect
  <2> QED BY <2>1, <2>2, OwnDirs, HookKeepsTemps
<1>8. ASSUME NEW h \in DOMAIN jobs.hooks, StopReads(h)
      PROVE  TempIsOwned'
  <2>1. h \in Hooks /\ calls' = calls
    BY <1>8, StopReadsEffect, ShapesNow, ServerRests
  <2>2. Others(h) /\ hooks'[h].pc \in {"scan", "clean"} /\ DOMAIN temps' \subseteq DOMAIN temps \cup {HookDir(h)}
    BY ZenonT(40), <1>8, StopReadsEffect, DirDomains
  <2> QED BY <2>1, <2>2, HookKeepsTemps
<1>9. ASSUME NEW h \in DOMAIN jobs.hooks, StopScans(h)
      PROVE  TempIsOwned'
  <2>1. h \in Hooks /\ calls' = calls
    BY <1>9, StopScansEffect, ShapesNow, ServerRests
  <2>2. Others(h) /\ temps' = temps /\ (hooks[h].pc \in {"scan", "clean", "killed"} =>
                                         hooks'[h].pc \in {"scan", "clean", "killed"})
    BY <1>9, StopScansEffect
  <2> QED BY <2>1, <2>2, OwnDirs, HookKeepsTemps
<1>10. ASSUME NEW h \in DOMAIN jobs.hooks, StopRemoves(h)
      PROVE  TempIsOwned'
  <2>1. h \in Hooks /\ calls' = calls
    BY <1>10, StopRemovesEffect, ShapesNow, ServerRests
  <2>2. Others(h) /\ DOMAIN temps' = DOMAIN temps \ {HookDir(h)}
    BY <1>10, StopRemovesEffect, DirDomains
  <2> QED BY <2>1, <2>2, HookKeepsTemps
<1>11. ASSUME NEW h \in DOMAIN jobs.hooks, StopClears(h)
      PROVE  TempIsOwned'
  <2>1. h \in Hooks /\ calls' = calls
    BY <1>11, StopClearsEffect, ShapesNow, ServerRests
  <2>2. Others(h) /\ temps' = temps /\ (hooks[h].pc \in {"scan", "clean", "killed"} =>
                                         hooks'[h].pc \in {"scan", "clean", "killed"})
    BY <1>11, StopClearsEffect
  <2> QED BY <2>1, <2>2, OwnDirs, HookKeepsTemps
<1>12. ASSUME NEW h \in DOMAIN jobs.hooks, Kill(h)
      PROVE  TempIsOwned'
  <2>1. h \in Hooks /\ calls' = calls
    BY <1>12, KillEffect, ShapesNow, ServerRests
  <2>2. Others(h) /\ temps' = temps /\ (hooks[h].pc \in {"scan", "clean", "killed"} =>
                                         hooks'[h].pc \in {"scan", "clean", "killed"})
    BY <1>12, KillEffect
  <2> QED BY <2>1, <2>2, OwnDirs, HookKeepsTemps
<1> QED
  BY <1>1, <1>2, <1>3, <1>4, <1>5, <1>6, <1>7, <1>8, <1>9, <1>10, <1>11, <1>12, StepKinds DEF HookMove

(* A list with one more file in it.                                        *)
LEMMA AppendOne ==
  ASSUME NEW S, NEW s \in Seq(S), NEW x \in S, IsInjective(s), x \notin ToSet(s)
  PROVE  /\ IsInjective(Append(s, x)) /\ Len(Append(s, x)) = Len(s) + 1
         /\ ToSet(Append(s, x)) = ToSet(s) \cup {x}
<1>1. DOMAIN s = 1..Len(s) /\ DOMAIN Append(s, x) = 1..(Len(s) + 1) /\ Len(s) \in Nat
  OBVIOUS
<1>2. Append(s, x)[Len(s) + 1] = x /\ \A i \in 1..Len(s) : Append(s, x)[i] = s[i]
  OBVIOUS
<1>3. IsInjective(Append(s, x))
  BY <1>1, <1>2 DEF IsInjective, ToSet
<1>4. ToSet(Append(s, x)) = ToSet(s) \cup {x}
  BY <1>1, <1>2 DEF ToSet
<1> QED BY <1>1, <1>3, <1>4

LEMMA ListsKept ==
  ASSUME IInv, UNCHANGED jobs, NEW h \in Hooks, Others(h),
         hooks'[h].pc \in {"write", "dump"} =>
           /\ Len(hooks'[h].list) <= FileEditLimit /\ IsInjective(hooks'[h].list)
           /\ h \in DOMAIN jobs.hooks /\ Job(h).kind = "edit" /\ Job(h).file \in ToSet(hooks'[h].list),
         hooks'[h].pc \in {"scan", "clean", "clear"} => h \in DOMAIN jobs.hooks /\ Job(h).kind = "stop",
         Read(hooks'[h]) => IsInjective(hooks'[h].list)
  PROVE  ListsAreSound'
<1>1. \A g \in Hooks : g = h \/ Same(hooks'[g], hooks[g])
  BY DEF Others
<1>2. jobs' = jobs
  OBVIOUS
<1> QED BY <1>1, <1>2 DEF IInv, ListsAreSound, Writing, Reading, Read, Job, Same

LEMMA ListsRest ==
  ASSUME IInv, UNCHANGED <<jobs, hooks>>
  PROVE  ListsAreSound'
BY DEF IInv, ListsAreSound, Writing, Reading, Job

LEMMA ListsNow ==
  ASSUME IInv, NEW h \in Hooks
  PROVE  /\ hooks[h].pc \in {"write", "dump"} =>
              /\ Len(hooks[h].list) <= FileEditLimit /\ IsInjective(hooks[h].list)
              /\ h \in DOMAIN jobs.hooks /\ Job(h).kind = "edit" /\ Job(h).file \in ToSet(hooks[h].list)
         /\ hooks[h].pc \in {"scan", "clean", "clear"} => h \in DOMAIN jobs.hooks /\ Job(h).kind = "stop"
         /\ Read(hooks[h]) => IsInjective(hooks[h].list)
         /\ Len(cache.list) <= FileEditLimit /\ IsInjective(cache.list)
BY DEF IInv, TypeOK, ListsAreSound, Writing, Reading

(* What is written and scanned are sound lists.                            *)
LEMMA ListsStep == IInv /\ [Next]_vars => ListsAreSound'
<1> SUFFICES ASSUME IInv, [Next]_vars PROVE ListsAreSound'
  OBVIOUS
<1>1. CASE Still
  BY <1>1, ListsRest DEF Still
<1>2. CASE DaemonMoves
  BY <1>2, ListsRest DEF DaemonMoves, hookVars
<1>3. ASSUME NEW c \in DOMAIN jobs.calls, CallMoves(c)
      PROVE  ListsAreSound'
  BY <1>3, ListsRest DEF CallMoves, hookVars
<1>4. ASSUME NEW h \in DOMAIN jobs.hooks, Quiet(h)
      PROVE  ListsAreSound'
  <2>1. h \in Hooks /\ Others(h) /\ UNCHANGED jobs
        /\ hooks'[h].pc \notin {"write", "dump", "scan", "clean", "clear"}
    BY <1>4, ShapesNow DEF Quiet
  <2> QED BY <2>1, ListsKept DEF Read
<1>5. ASSUME NEW h \in DOMAIN jobs.hooks, RecordEdit(h)
      PROVE  ListsAreSound'
  <2>1. h \in Hooks /\ Others(h) /\ UNCHANGED jobs /\ Job(h).kind = "edit" /\ hooks'[h].pc \in {"done", "write"}
    BY <1>5, RecordEditEffect, ShapesNow
  <2>2. Len(cache.list) \in Nat /\ cache.list \in Seq(Edited)
    <3>1. cache.list \in Seq(Edited)
      BY ShapesNow
    <3> QED BY <3>1
  <2>3. Job(h).file \in Edited
    BY <2>1 DEF Edited
  <2>4. ASSUME hooks'[h].pc = "write"
        PROVE  /\ Len(hooks'[h].list) <= FileEditLimit /\ IsInjective(hooks'[h].list)
               /\ Job(h).file \in ToSet(hooks'[h].list)
    <3>1. /\ Len(cache.list) < FileEditLimit /\ Job(h).file \notin ToSet(cache.list)
          /\ hooks'[h].list = Append(cache.list, Job(h).file)
      BY <1>5, RecordEditEffect, <2>4
    <3> QED BY <2>1, <2>2, <2>3, <3>1, ListsNow, AppendOne, LimitAssumption
  <2> QED BY <2>1, <2>4, ListsKept DEF Read
<1>6. ASSUME NEW h \in DOMAIN jobs.hooks, TruncateCache(h)
      PROVE  ListsAreSound'
  <2>1. h \in Hooks /\ Others(h) /\ UNCHANGED jobs /\ hooks[h].pc = "write" /\ hooks'[h].pc = "dump"
        /\ hooks'[h].list = hooks[h].list
    BY <1>6, TruncateCacheEffect, ShapesNow
  <2> QED BY <2>1, ListsNow, ListsKept DEF Read
<1>7. ASSUME NEW h \in DOMAIN jobs.hooks, DumpCache(h)
      PROVE  ListsAreSound'
  <2>1. h \in Hooks /\ Others(h) /\ UNCHANGED jobs
        /\ hooks'[h].pc \notin {"write", "dump", "scan", "clean", "clear"}
    BY <1>7, DumpCacheEffect, ShapesNow
  <2> QED BY <2>1, ListsKept DEF Read
<1>8. ASSUME NEW h \in DOMAIN jobs.hooks, StopReads(h)
      PROVE  ListsAreSound'
  <2>1. h \in Hooks /\ Others(h) /\ UNCHANGED jobs /\ Job(h).kind = "stop"
        /\ \/ hooks'[h].pc = "scan" /\ hooks'[h].list = cache.list
           \/ hooks'[h].pc = "clean" /\ hooks'[h].out = "failed"
    BY <1>8, StopReadsEffect, ShapesNow
  <2> QED BY <2>1, ListsNow, ListsKept DEF Read
<1>9. ASSUME NEW h \in DOMAIN jobs.hooks, StopScans(h)
      PROVE  ListsAreSound'
  <2>1. h \in Hooks /\ Others(h) /\ UNCHANGED jobs /\ hooks[h].pc = "scan" /\ hooks'[h].pc = "clean"
        /\ hooks'[h].list = hooks[h].list
    BY <1>9, StopScansEffect, ShapesNow
  <2> QED BY <2>1, ListsNow, ListsKept DEF Read
<1>10. ASSUME NEW h \in DOMAIN jobs.hooks, StopRemoves(h)
      PROVE  ListsAreSound'
  <2>1. h \in Hooks /\ Others(h) /\ UNCHANGED jobs /\ hooks[h].pc = "clean" /\ hooks'[h].pc = "clear"
        /\ hooks'[h].list = hooks[h].list /\ hooks'[h].out = hooks[h].out
    BY <1>10, StopRemovesEffect, ShapesNow
  <2> QED BY <2>1, ListsNow, ListsKept DEF Read
<1>11. ASSUME NEW h \in DOMAIN jobs.hooks, StopClears(h)
      PROVE  ListsAreSound'
  <2>1. h \in Hooks /\ Others(h) /\ UNCHANGED jobs
        /\ hooks'[h].pc \notin {"write", "dump", "scan", "clean", "clear"}
    BY <1>11, StopClearsEffect, ShapesNow
  <2> QED BY <2>1, ListsKept DEF Read
<1>12. ASSUME NEW h \in DOMAIN jobs.hooks, Kill(h)
      PROVE  ListsAreSound'
  <2>1. h \in Hooks /\ Others(h) /\ UNCHANGED jobs
        /\ hooks'[h].pc \notin {"write", "dump", "scan", "clean", "clear"}
    BY <1>12, KillEffect, ShapesNow
  <2> QED BY <2>1, ListsKept DEF Read
<1> QED
  BY <1>1, <1>2, <1>3, <1>4, <1>5, <1>6, <1>7, <1>8, <1>9, <1>10, <1>11, <1>12, StepKinds DEF HookMove

CacheTypes ==
  /\ Len(cache.list) <= FileEditLimit /\ IsInjective(cache.list)
  /\ \A h \in Hooks : hooks[h].pc # "idle" => h \in DOMAIN jobs.hooks

LEMMA CacheKept ==
  ASSUME IInv, UNCHANGED jobs, NEW h \in DOMAIN jobs.hooks, Others(h),
         Len(cache'.list) <= FileEditLimit, IsInjective(cache'.list)
  PROVE  CacheTypes'
<1>1. \A g \in Hooks : g = h \/ Same(hooks'[g], hooks[g])
  BY DEF Others
<1>2. jobs' = jobs
  OBVIOUS
<1> QED BY <1>1, <1>2 DEF IInv, TypeOK, CacheTypes, Same

(* The file never names more files than it may, nor one twice.             *)
LEMMA CacheStep == IInv /\ [Next]_vars => CacheTypes'
<1> SUFFICES ASSUME IInv, [Next]_vars PROVE CacheTypes'
  OBVIOUS
<1>1. CASE Still
  BY <1>1 DEF Still, IInv, TypeOK, CacheTypes
<1>2. CASE DaemonMoves
  BY <1>2 DEF DaemonMoves, hookVars, IInv, TypeOK, CacheTypes
<1>3. ASSUME NEW c \in DOMAIN jobs.calls, CallMoves(c)
      PROVE  CacheTypes'
  BY <1>3 DEF CallMoves, hookVars, IInv, TypeOK, CacheTypes
<1>4. ASSUME NEW h \in DOMAIN jobs.hooks, Quiet(h)
      PROVE  CacheTypes'
  <2>1. Others(h) /\ UNCHANGED <<jobs, cache>>
    BY <1>4 DEF Quiet
  <2>2. Len(cache'.list) <= FileEditLimit /\ IsInjective(cache'.list)
    BY <2>1 DEF IInv, TypeOK
  <2> QED BY <2>1, <2>2, CacheKept
<1>5. ASSUME NEW h \in DOMAIN jobs.hooks, RecordEdit(h)
      PROVE  CacheTypes'
  <2>1. Others(h) /\ UNCHANGED <<jobs, cache>>
    BY <1>5, RecordEditEffect
  <2>2. Len(cache'.list) <= FileEditLimit /\ IsInjective(cache'.list)
    BY <2>1 DEF IInv, TypeOK
  <2> QED BY <2>1, <2>2, CacheKept
<1>6. ASSUME NEW h \in DOMAIN jobs.hooks, TruncateCache(h)
      PROVE  CacheTypes'
  <2>1. Others(h) /\ UNCHANGED jobs /\ cache' = Torn
    BY <1>6, TruncateCacheEffect
  <2>2. Len(cache'.list) = 0 /\ IsInjective(cache'.list)
    BY <2>1 DEF Torn, IsInjective
  <2> QED BY <2>1, <2>2, CacheKept, LimitAssumption
<1>7. ASSUME NEW h \in DOMAIN jobs.hooks, DumpCache(h)
      PROVE  CacheTypes'
  <2>1. h \in Hooks /\ Others(h) /\ UNCHANGED jobs /\ hooks[h].pc = "dump" /\ cache' = Whole(hooks[h].list)
    BY <1>7, DumpCacheEffect, ShapesNow
  <2>2. cache'.list = hooks[h].list
    BY <2>1 DEF Whole
  <2> QED BY <2>1, <2>2, ListsNow, CacheKept
<1>8. ASSUME NEW h \in DOMAIN jobs.hooks, StopReads(h)
      PROVE  CacheTypes'
  <2>1. Others(h) /\ UNCHANGED <<jobs, cache>>
    BY <1>8, StopReadsEffect
  <2>2. Len(cache'.list) <= FileEditLimit /\ IsInjective(cache'.list)
    BY <2>1 DEF IInv, TypeOK
  <2> QED BY <2>1, <2>2, CacheKept
<1>9. ASSUME NEW h \in DOMAIN jobs.hooks, StopScans(h)
      PROVE  CacheTypes'
  <2>1. Others(h) /\ UNCHANGED <<jobs, cache>>
    BY <1>9, StopScansEffect
  <2>2. Len(cache'.list) <= FileEditLimit /\ IsInjective(cache'.list)
    BY <2>1 DEF IInv, TypeOK
  <2> QED BY <2>1, <2>2, CacheKept
<1>10. ASSUME NEW h \in DOMAIN jobs.hooks, StopRemoves(h)
      PROVE  CacheTypes'
  <2>1. Others(h) /\ UNCHANGED <<jobs, cache>>
    BY <1>10, StopRemovesEffect
  <2>2. Len(cache'.list) <= FileEditLimit /\ IsInjective(cache'.list)
    BY <2>1 DEF IInv, TypeOK
  <2> QED BY <2>1, <2>2, CacheKept
<1>11. ASSUME NEW h \in DOMAIN jobs.hooks, StopClears(h)
      PROVE  CacheTypes'
  <2>1. Others(h) /\ UNCHANGED jobs /\ cache' = Absent
    BY <1>11, StopClearsEffect
  <2>2. Len(cache'.list) = 0 /\ IsInjective(cache'.list)
    BY <2>1 DEF Absent, IsInjective
  <2> QED BY <2>1, <2>2, CacheKept, LimitAssumption
<1>12. ASSUME NEW h \in DOMAIN jobs.hooks, Kill(h)
      PROVE  CacheTypes'
  <2>1. Others(h) /\ UNCHANGED <<jobs, cache>>
    BY <1>12, KillEffect
  <2>2. Len(cache'.list) <= FileEditLimit /\ IsInjective(cache'.list)
    BY <2>1 DEF IInv, TypeOK
  <2> QED BY <2>1, <2>2, CacheKept
<1> QED
  BY <1>1, <1>2, <1>3, <1>4, <1>5, <1>6, <1>7, <1>8, <1>9, <1>10, <1>11, <1>12, StepKinds DEF HookMove

(* While a hook records an edit alone, no other has a list in its hands.   *)
LEMMA AloneOnList ==
  ASSUME IInv, NEW h \in DOMAIN jobs.hooks, Job(h).kind = "edit", Rivals(h) = {}, NEW g \in Hooks \ {h}
  PROVE  g \notin Writing \cup Reading
<1>1. h \in EditHooks
  BY DEF EditHooks
<1>2. ASSUME g \in Writing \cup Reading PROVE FALSE
  <2>1. g \in EditHooks
    BY <1>2, ListsNow DEF Writing, Reading, Read, EditHooks
  <2>2. g \in Live
    BY <1>2, <2>1 DEF Writing, Reading, Read, EditHooks, Live
  <2> QED BY <1>1, <2>1, <2>2 DEF Rivals
<1> QED BY <1>2

LEMMA LedgerNow ==
  ASSUME IInv
  PROVE  /\ \A g \in Hooks : hooks[g].pc \in {"write", "dump"} \/ Read(hooks[g]) => ledger \subseteq ToSet(hooks[g].list)
         /\ cache # Torn => ledger \subseteq ToSet(cache.list)
         /\ cache = Torn => ledger = {} \/ \E g \in Hooks : hooks[g].pc = "dump"
         /\ ledger \subseteq Edited
BY DEF IInv, LedgerIsKept, Writing, Reading

LEMMA LedgerKept ==
  ASSUME IInv, UNCHANGED jobs, NEW h \in DOMAIN jobs.hooks, Others(h),
         \/ ledger' \subseteq ledger
         \/ ledger' = ledger \cup {Job(h).file} /\ Job(h).kind = "edit" /\ Rivals(h) = {},
         hooks'[h].pc \in {"write", "dump"} \/ Read(hooks'[h]) => ledger' \subseteq ToSet(hooks'[h].list),
         cache' # Torn => ledger' \subseteq ToSet(cache'.list),
         cache' = Torn => ledger' = {} \/ \E g \in Hooks : hooks'[g].pc = "dump"
  PROVE  LedgerIsKept'
<1>1. Edited' = Edited /\ Torn' = Torn
  BY SameJobs DEF Torn
<1>2. ledger' \subseteq Edited'
  BY <1>1, LedgerNow DEF Edited
<1>3. ASSUME NEW g \in Hooks, hooks'[g].pc \in {"write", "dump"} \/ Read(hooks'[g])
      PROVE  ledger' \subseteq ToSet(hooks'[g].list)
  <2>1. CASE g = h
    BY <1>3, <2>1
  <2>2. CASE g # h
    <3>1. Same(hooks'[g], hooks[g])
      BY <2>2 DEF Others
    <3>2. g \in Writing \cup Reading
      BY <1>3, <3>1 DEF Same, Read, Writing, Reading
    <3>3. ledger' \subseteq ledger
      BY <2>2, <3>2, AloneOnList
    <3>4. ledger \subseteq ToSet(hooks[g].list)
      BY <3>2, LedgerNow DEF Writing, Reading
    <3> QED BY <3>1, <3>3, <3>4 DEF Same
  <2> QED BY <2>1, <2>2
<1> QED BY <1>1, <1>2, <1>3 DEF LedgerIsKept, Writing, Reading

(* Who was about to dump the list still is.                                *)
LEMMA DumperStays ==
  ASSUME NEW h, Others(h), hooks[h].pc # "dump", \E g \in Hooks : hooks[g].pc = "dump"
  PROVE  \E g \in Hooks : hooks'[g].pc = "dump"
BY DEF Others, Same

LEMMA LedgerRests ==
  ASSUME IInv, UNCHANGED <<jobs, hooks, cache, ledger>>
  PROVE  LedgerIsKept'
BY SameJobs DEF IInv, LedgerIsKept, Writing, Reading, Torn


(* An edit that was recorded stays in the list until a stop hook is done.  *)
LEMMA LedgerStep == IInv /\ [Next]_vars => LedgerIsKept'
<1> SUFFICES ASSUME IInv, [Next]_vars PROVE LedgerIsKept'
  OBVIOUS
<1>1. CASE Still
  BY <1>1, LedgerRests DEF Still
<1>2. CASE DaemonMoves
  BY <1>2, LedgerRests DEF DaemonMoves, hookVars
<1>3. ASSUME NEW c \in DOMAIN jobs.calls, CallMoves(c)
      PROVE  LedgerIsKept'
  BY <1>3, LedgerRests DEF CallMoves, hookVars
<1>4. ASSUME NEW h \in DOMAIN jobs.hooks, Quiet(h)
      PROVE  LedgerIsKept'
  <2>1. /\ Others(h) /\ UNCHANGED <<jobs, cache, ledger>> /\ hooks[h].pc # "dump"
        /\ hooks'[h].pc \notin {"write", "dump", "scan", "clean", "clear"}
    BY <1>4 DEF Quiet
  <2> QED BY <2>1, LedgerNow, LedgerKept, DumperStays DEF Read
<1>5. ASSUME NEW h \in DOMAIN jobs.hooks, RecordEdit(h)
      PROVE  LedgerIsKept'
  <2>1. /\ Others(h) /\ UNCHANGED <<jobs, cache>> /\ hooks[h].pc # "dump" /\ Job(h).kind = "edit"
        /\ hooks'[h].pc \in {"done", "write"}
    BY <1>5, RecordEditEffect
  <2>2. CASE ledger' = ledger
    <3>1. hooks'[h].pc = "write" => ledger' \subseteq ToSet(hooks'[h].list)
      <4>1. ASSUME hooks'[h].pc = "write" PROVE hooks'[h].list = Append(cache.list, Job(h).file) /\ cache # Torn
        BY <1>5, RecordEditEffect, <4>1
      <4>2. cache.list \in Seq(Edited)
        BY ShapesNow
      <4>3. Job(h).file \in Edited
        BY <2>1 DEF Edited
      <4>4. ToSet(cache.list) \subseteq ToSet(Append(cache.list, Job(h).file))
        BY <4>2, <4>3 DEF ToSet
      <4> QED BY <2>2, <4>1, <4>4, LedgerNow
    <3> QED BY <2>1, <2>2, <3>1, LedgerNow, LedgerKept, DumperStays DEF Read
  <2>3. CASE ledger' # ledger
    <3>1. /\ hooks'[h].pc = "done" /\ cache # Torn /\ Job(h).file \in ToSet(cache.list)
          /\ ledger' = ledger \cup {Job(h).file} /\ Rivals(h) = {}
      BY <1>5, RecordEditEffect, <2>3 DEF Records
    <3> QED BY <2>1, <3>1, LedgerNow, LedgerKept DEF Read
  <2> QED BY <2>2, <2>3
<1>6. ASSUME NEW h \in DOMAIN jobs.hooks, TruncateCache(h)
      PROVE  LedgerIsKept'
  <2>1. /\ Others(h) /\ UNCHANGED <<jobs, ledger>> /\ hooks[h].pc = "write" /\ hooks'[h].pc = "dump"
        /\ hooks'[h].list = hooks[h].list /\ cache' = Torn /\ h \in Hooks
    BY <1>6, TruncateCacheEffect, ShapesNow
  <2> QED BY <2>1, LedgerNow, LedgerKept DEF Read
<1>7. ASSUME NEW h \in DOMAIN jobs.hooks, DumpCache(h)
      PROVE  LedgerIsKept'
  <2>1. /\ Others(h) /\ UNCHANGED jobs /\ hooks[h].pc = "dump" /\ hooks'[h].pc = "done"
        /\ cache' = Whole(hooks[h].list) /\ Records(h) /\ h \in Hooks
    BY <1>7, DumpCacheEffect, ShapesNow
  <2>2. Job(h).kind = "edit" /\ Job(h).file \in ToSet(hooks[h].list) /\ ledger \subseteq ToSet(hooks[h].list)
    BY <2>1, ListsNow, LedgerNow
  <2>3. cache' # Torn /\ cache'.list = hooks[h].list
    BY <2>1 DEF Whole, Torn
  <2>4. \/ ledger' \subseteq ledger
        \/ ledger' = ledger \cup {Job(h).file} /\ Job(h).kind = "edit" /\ Rivals(h) = {}
    BY <2>1, <2>2 DEF Records
  <2>5. ledger' \subseteq ToSet(cache'.list)
    BY <2>2, <2>3, <2>4
  <2> QED BY <2>1, <2>3, <2>4, <2>5, LedgerKept DEF Read
<1>8. ASSUME NEW h \in DOMAIN jobs.hooks, StopReads(h)
      PROVE  LedgerIsKept'
  <2>1. /\ Others(h) /\ UNCHANGED <<jobs, cache, ledger>> /\ hooks[h].pc # "dump"
        /\ \/ hooks'[h].pc = "scan" /\ hooks'[h].list = cache.list /\ cache # Torn
           \/ hooks'[h].pc = "clean" /\ hooks'[h].out = "failed"
    BY <1>8, StopReadsEffect
  <2> QED BY <2>1, LedgerNow, LedgerKept, DumperStays DEF Read
<1>9. ASSUME NEW h \in DOMAIN jobs.hooks, StopScans(h)
      PROVE  LedgerIsKept'
  <2>1. /\ Others(h) /\ UNCHANGED <<jobs, cache, ledger>> /\ hooks[h].pc = "scan" /\ hooks'[h].pc = "clean"
        /\ hooks'[h].list = hooks[h].list /\ h \in Hooks
    BY <1>9, StopScansEffect, ShapesNow
  <2> QED BY <2>1, LedgerNow, LedgerKept, DumperStays DEF Read
<1>10. ASSUME NEW h \in DOMAIN jobs.hooks, StopRemoves(h)
      PROVE  LedgerIsKept'
  <2>1. /\ Others(h) /\ UNCHANGED <<jobs, cache, ledger>> /\ hooks[h].pc = "clean" /\ hooks'[h].pc = "clear"
        /\ hooks'[h].list = hooks[h].list /\ hooks'[h].out = hooks[h].out /\ h \in Hooks
    BY <1>10, StopRemovesEffect, ShapesNow
  <2> QED BY <2>1, LedgerNow, LedgerKept, DumperStays DEF Read
<1>11. ASSUME NEW h \in DOMAIN jobs.hooks, StopClears(h)
      PROVE  LedgerIsKept'
  <2>1. Others(h) /\ UNCHANGED jobs /\ ledger' = {}
    BY <1>11, StopClearsEffect
  <2> QED BY <2>1, LedgerKept
<1>12. ASSUME NEW h \in DOMAIN jobs.hooks, Kill(h)
      PROVE  LedgerIsKept'
  <2>1. Others(h) /\ UNCHANGED <<jobs, cache>> /\ hooks'[h].pc = "killed"
        /\ ledger' = IF hooks[h].pc = "dump" THEN {} ELSE ledger
    BY <1>12, KillEffect
  <2> QED BY <2>1, LedgerNow, LedgerKept, DumperStays DEF Read
<1> QED
  BY <1>1, <1>2, <1>3, <1>4, <1>5, <1>6, <1>7, <1>8, <1>9, <1>10, <1>11, <1>12, StepKinds DEF HookMove

(* Directories other than o are not touched.                               *)
LEMMA OtherDirs ==
  ASSUME NEW o, NEW t, NEW q \in DOMAIN temps, q # o
  PROVE  /\ q \in DOMAIN Join(temps, o, t) /\ Join(temps, o, t)[q] = temps[q]
         /\ q \in DOMAIN Leave(temps, o) /\ Leave(temps, o)[q] = temps[q]
BY DEF Join, Leave

LEMMA CopiesNow ==
  ASSUME IInv
  PROVE  /\ \A f \in Edited : DOMAIN f = {"path", "kind", "name", "text"}
         /\ \A h \in Scanning :
              /\ HookDir(h) \in DOMAIN temps /\ ValidLocal(hooks[h].list)
              /\ temps[HookDir(h)] = Contents(BaseNames(hooks[h].list))
BY DEF IInv, CopiesAreThere

LEMMA CopiesKept ==
  ASSUME IInv, UNCHANGED jobs, NEW h \in Hooks, Others(h),
         \A g \in Hooks \ {h} : HookDir(g) \in DOMAIN temps =>
           HookDir(g) \in DOMAIN temps' /\ temps'[HookDir(g)] = temps[HookDir(g)],
         Read(hooks'[h]) /\ hooks'[h].pc # "clear" =>
           /\ HookDir(h) \in DOMAIN temps' /\ ValidLocal(hooks'[h].list)
           /\ temps'[HookDir(h)] = Contents(BaseNames(hooks'[h].list))
  PROVE  CopiesAreThere'
<1>1. \A f \in Edited' : DOMAIN f = {"path", "kind", "name", "text"}
  BY SameJobs, CopiesNow
<1>2. ASSUME NEW g \in Scanning'
      PROVE  /\ HookDir(g) \in DOMAIN temps' /\ ValidLocal(hooks'[g].list)
             /\ temps'[HookDir(g)] = Contents(BaseNames(hooks'[g].list))
  <2>1. CASE g = h
    BY <1>2, <2>1 DEF Scanning, Reading
  <2>2. CASE g # h
    <3>1. g \in Hooks /\ Same(hooks'[g], hooks[g])
      BY <1>2, <2>2 DEF Others, Scanning, Reading
    <3>2. g \in Scanning
      BY <1>2, <3>1 DEF Scanning, Reading, Read, Same
    <3> QED BY <2>2, <3>1, <3>2, CopiesNow DEF Same
  <2> QED BY <2>1, <2>2
<1> QED BY <1>1, <1>2 DEF CopiesAreThere, HookDir

LEMMA CopiesRest ==
  ASSUME IInv, UNCHANGED <<jobs, hooks>>,
         \A g \in Hooks : HookDir(g) \in DOMAIN temps =>
           HookDir(g) \in DOMAIN temps' /\ temps'[HookDir(g)] = temps[HookDir(g)]
  PROVE  CopiesAreThere'
<1>1. \A f \in Edited' : DOMAIN f = {"path", "kind", "name", "text"}
  BY SameJobs, CopiesNow
<1>2. Scanning' = Scanning
  BY DEF Scanning, Reading
<1>3. \A g \in Scanning : g \in Hooks
  BY DEF Scanning, Reading
<1> QED BY <1>1, <1>2, <1>3, CopiesNow DEF CopiesAreThere, HookDir

LEMMA DirsDiffer ==
  /\ \A c, h : CallDir(c) # HookDir(h)
  /\ \A g, h : g # h => HookDir(g) # HookDir(h)
BY DEF CallDir, HookDir


(* The copies of what is scanned stay as long as the scan.                 *)
LEMMA CopiesStep == IInv /\ [Next]_vars => CopiesAreThere'
<1> SUFFICES ASSUME IInv, [Next]_vars PROVE CopiesAreThere'
  OBVIOUS
<1>1. CASE Still
  BY <1>1, CopiesRest DEF Still
<1>2. CASE DaemonMoves
  BY <1>2, CopiesRest DEF DaemonMoves, hookVars
<1>3. ASSUME NEW c \in DOMAIN jobs.calls, CallMoves(c)
      PROVE  CopiesAreThere'
  <2>1. UNCHANGED <<jobs, hooks>>
    BY <1>3 DEF CallMoves, hookVars
  <2>2. \/ temps' = temps \/ temps' = Leave(temps, CallDir(c))
        \/ \E t : temps' = Join(temps, CallDir(c), t)
    BY <1>3 DEF CallMoves
  <2>3. \A g \in Hooks : HookDir(g) \in DOMAIN temps =>
          HookDir(g) \in DOMAIN temps' /\ temps'[HookDir(g)] = temps[HookDir(g)]
    BY <2>2, OtherDirs, DirsDiffer
  <2> QED BY <2>1, <2>3, CopiesRest
<1>4. ASSUME NEW h \in DOMAIN jobs.hooks, Quiet(h)
      PROVE  CopiesAreThere'
  <2>1. h \in Hooks /\ Others(h) /\ UNCHANGED <<jobs, temps>> /\ (Read(hooks'[h]) => hooks'[h].pc = "clear")
    BY <1>4, ShapesNow DEF Quiet, Read
  <2> QED BY <2>1, CopiesKept
<1>5. ASSUME NEW h \in DOMAIN jobs.hooks, RecordEdit(h)
      PROVE  CopiesAreThere'
  <2>1. h \in Hooks /\ Others(h) /\ UNCHANGED <<jobs, temps>> /\ (Read(hooks'[h]) => hooks'[h].pc = "clear")
    BY <1>5, RecordEditEffect, ShapesNow DEF Read
  <2> QED BY <2>1, CopiesKept
<1>6. ASSUME NEW h \in DOMAIN jobs.hooks, TruncateCache(h)
      PROVE  CopiesAreThere'
  <2>1. h \in Hooks /\ Others(h) /\ UNCHANGED <<jobs, temps>> /\ (Read(hooks'[h]) => hooks'[h].pc = "clear")
    BY <1>6, TruncateCacheEffect, ShapesNow DEF Read
  <2> QED BY <2>1, CopiesKept
<1>7. ASSUME NEW h \in DOMAIN jobs.hooks, DumpCache(h)
      PROVE  CopiesAreThere'
  <2>1. h \in Hooks /\ Others(h) /\ UNCHANGED <<jobs, temps>> /\ (Read(hooks'[h]) => hooks'[h].pc = "clear")
    BY <1>7, DumpCacheEffect, ShapesNow DEF Read
  <2> QED BY <2>1, CopiesKept
<1>8. ASSUME NEW h \in DOMAIN jobs.hooks, StopReads(h)
      PROVE  CopiesAreThere'
  <2>1. h \in Hooks /\ Others(h) /\ UNCHANGED jobs
    BY <1>8, StopReadsEffect, ShapesNow
  <2>2. CASE hooks'[h].pc = "clean" /\ hooks'[h].out = "failed" /\ temps' = temps
    BY <2>1, <2>2, CopiesKept DEF Read
  <2>3. CASE /\ hooks'[h].list = cache.list /\ ValidLocal(cache.list)
             /\ temps' = Join(temps, HookDir(h), Contents(BaseNames(cache.list)))
    <3>1. \A g \in Hooks \ {h} : HookDir(g) \in DOMAIN temps =>
            HookDir(g) \in DOMAIN temps' /\ temps'[HookDir(g)] = temps[HookDir(g)]
      BY <2>3, OtherDirs, DirsDiffer
    <3>2. HookDir(h) \in DOMAIN temps' /\ temps'[HookDir(h)] = Contents(BaseNames(cache.list))
      BY <2>3 DEF Join
    <3> QED BY <2>1, <2>3, <3>1, <3>2, CopiesKept
  <2> QED BY <1>8, StopReadsEffect, <2>2, <2>3
<1>9. ASSUME NEW h \in DOMAIN jobs.hooks, StopScans(h)
      PROVE  CopiesAreThere'
  <2>1. /\ h \in Hooks /\ Others(h) /\ UNCHANGED <<jobs, temps>> /\ hooks[h].pc = "scan"
        /\ hooks'[h].list = hooks[h].list
    BY <1>9, StopScansEffect, ShapesNow
  <2>2. h \in Scanning
    BY <2>1 DEF Scanning, Reading, Read
  <2> QED BY <2>1, <2>2, CopiesNow, CopiesKept
<1>10. ASSUME NEW h \in DOMAIN jobs.hooks, StopRemoves(h)
      PROVE  CopiesAreThere'
  <2>1. h \in Hooks /\ Others(h) /\ UNCHANGED jobs /\ hooks'[h].pc = "clear" /\ temps' = Leave(temps, HookDir(h))
    BY <1>10, StopRemovesEffect, ShapesNow
  <2>2. \A g \in Hooks \ {h} : HookDir(g) \in DOMAIN temps =>
          HookDir(g) \in DOMAIN temps' /\ temps'[HookDir(g)] = temps[HookDir(g)]
    BY <2>1, OtherDirs, DirsDiffer
  <2> QED BY <2>1, <2>2, CopiesKept
<1>11. ASSUME NEW h \in DOMAIN jobs.hooks, StopClears(h)
      PROVE  CopiesAreThere'
  <2>1. h \in Hooks /\ Others(h) /\ UNCHANGED <<jobs, temps>> /\ (Read(hooks'[h]) => hooks'[h].pc = "clear")
    BY <1>11, StopClearsEffect, ShapesNow DEF Read
  <2> QED BY <2>1, CopiesKept
<1>12. ASSUME NEW h \in DOMAIN jobs.hooks, Kill(h)
      PROVE  CopiesAreThere'
  <2>1. h \in Hooks /\ Others(h) /\ UNCHANGED <<jobs, temps>> /\ (Read(hooks'[h]) => hooks'[h].pc = "clear")
    BY <1>12, KillEffect, ShapesNow DEF Read
  <2> QED BY <2>1, CopiesKept
<1> QED
  BY <1>1, <1>2, <1>3, <1>4, <1>5, <1>6, <1>7, <1>8, <1>9, <1>10, <1>11, <1>12, StepKinds DEF HookMove

-----------------------------------------------------------------------------
(* The theorems                                                            *)

(* At first nothing runs, nothing is recorded and no directory is there.   *)
LEMMA InitInv == Init => IInv
<1> SUFFICES ASSUME Init PROVE IInv
  OBVIOUS
<1>1. /\ calls = [c \in Calls |-> [pc |-> "idle", result |-> Result("pending", {})]]
      /\ hooks = [h \in Hooks |-> [pc |-> "idle", list |-> << >>, alone |-> TRUE, out |-> None]]
      /\ tools = {} /\ reader = NoCall /\ cwd = "home" /\ temps = << >>
      /\ cache = Absent /\ defaults = [text |-> None, fresh |-> FALSE] /\ ledger = {}
  BY DEF Init
<1>2. PICK s \in Scenarios : jobs = [calls |-> s.calls, hooks |-> s.hooks]
  BY DEF Init
<1>3. /\ DOMAIN jobs.calls \subseteq Calls /\ DOMAIN jobs.hooks \subseteq Hooks /\ NoCall \notin Calls
      /\ \A h \in DOMAIN jobs.hooks :
           Job(h).kind = "edit" => DOMAIN Job(h).file = {"path", "kind", "name", "text"}
  BY <1>2, ScenarioAssumption DEF Job
<1>4. << >> \in Seq(Edited) /\ Len(<< >>) = 0 /\ DOMAIN << >> = {}
  OBVIOUS
<1>5. IsInjective(<< >>)
  BY <1>4 DEF IsInjective
<1>6. DOMAIN temps = {}
  BY <1>1, <1>4
<1>7. cache.list = << >> /\ cache.state = "absent" /\ cache # Torn
  BY <1>1 DEF Absent, Torn
<1>8. \A h \in Hooks : hooks[h].pc = "idle" /\ ~Read(hooks[h])
  BY <1>1 DEF Read
<1>9. TypeOK
  <2>1. \A c \in Calls : calls[c].pc = "idle"
    BY <1>1
  <2>2. Len(cache.list) <= FileEditLimit /\ IsInjective(cache.list)
    BY <1>4, <1>5, <1>7, LimitAssumption
  <2> QED BY <1>1, <1>3, <1>6, <1>8, <2>1, <2>2 DEF TypeOK
<1>10. Shapes
  <2>1. CallsShape
    BY <1>1 DEF CallsShape, CallPcs
  <2>2. hooks \in [Hooks -> HookRecords]
    <3>1. [pc |-> "idle", list |-> << >>, alone |-> TRUE, out |-> None] \in HookRecords
      BY <1>4 DEF HookRecords, HookPcs, Outs
    <3> QED BY <1>1, <3>1
  <2>3. cache \in [state : {"absent", "torn", "whole"}, list : Seq(Edited)]
    BY <1>1, <1>4 DEF Absent
  <2> QED BY <1>1, <1>3, <1>7, <2>1, <2>2, <2>3 DEF Shapes
<1>11. TempIsOwned
  BY <1>6 DEF TempIsOwned
<1>12. Writing = {} /\ Reading = {} /\ Scanning = {}
  BY <1>8 DEF Writing, Reading, Scanning
<1>13. ListsAreSound
  BY <1>8, <1>12 DEF ListsAreSound
<1>14. LedgerIsKept
  BY <1>1, <1>7 DEF LedgerIsKept
<1>15. CopiesAreThere
  BY <1>3, <1>12 DEF CopiesAreThere, Edited
<1> QED BY <1>9, <1>10, <1>11, <1>13, <1>14, <1>15 DEF IInv

(* The parts of the type invariant that TypeOK' puts together.             *)
LEMMA TypeStep == IInv /\ [Next]_vars => TypeOK'
<1> SUFFICES ASSUME IInv, [Next]_vars PROVE TypeOK'
  OBVIOUS
<1>1. ServerTypes' /\ CacheTypes' /\ TempIsOwned'
  BY ServerStep, CacheStep, TempsStep
<1>2. DOMAIN temps' \subseteq {CallDir(c) : c \in Calls} \cup {HookDir(h) : h \in Hooks}
  BY <1>1 DEF TempIsOwned, CallDir, HookDir
<1> QED BY <1>1, <1>2 DEF TypeOK, ServerTypes, CacheTypes

LEMMA InvHolds == Spec => []IInv
<1>1. Init => IInv
  BY InitInv
<1>2. IInv /\ [Next]_vars => IInv'
  BY TypeStep, ShapesStep, TempsStep, ListsStep, LedgerStep, CopiesStep DEF IInv
<1> QED BY <1>1, <1>2, PTL DEF Spec

(* The types, the limit of the file of edits, no path twice in it, and one *)
(* call at most that waits on the daemon's pipe.                           *)
THEOREM McpTypeCorrect == Spec => []TypeOK
<1>1. IInv => TypeOK
  BY DEF IInv
<1> QED BY <1>1, InvHolds, PTL

(* However a tool call or a hook ends (an answer, an error, a cancelled    *)
(* call), no copy of the user's files outlives it, save that of a hook     *)
(* that was killed.                                                        *)
THEOREM CopiesGoWithTheirMakers == Spec => []TempIsOwned
<1>1. IInv => TempIsOwned
  BY DEF IInv
<1> QED BY <1>1, InvHolds, PTL

(* In the directory of a sound list, a file that shares its base name with *)
(* no other has its text.                                                  *)
LEMMA TextIsThere ==
  ASSUME NEW list \in Seq(Edited), ValidLocal(list), IsInjective(list),
         \A g \in Edited : DOMAIN g = {"path", "kind", "name", "text"},
         NEW f \in ToSet(list), \A g \in ToSet(list) : g = f \/ g.name # f.name
  PROVE  f.text \in Range(Contents(BaseNames(list)))
<1> DEFINE files == BaseNames(list)
           Named == {i \in DOMAIN files : files[i].name # ""}
           Newest(n) == CHOOSE i \in Named : files[i].name = n /\ \A j \in Named : files[j].name = n => j <= i
<1>1. PICK k \in DOMAIN list : list[k] = f
  BY DEF ToSet
<1>2. DOMAIN files = DOMAIN list
  BY DEF BaseNames
<1>3. \A i \in DOMAIN list : files[i].name = list[i].name /\ files[i].text = list[i].text
  <2>1. \A i \in DOMAIN list : list[i] \in Edited
    OBVIOUS
  <2> QED BY <2>1 DEF BaseNames
<1>4. \A i \in DOMAIN list : files[i].name # ""
  BY <1>3 DEF ValidLocal
<1>5. Named = DOMAIN list
  BY <1>2, <1>4
<1>6. \A j \in Named : files[j].name = f.name => j = k
  BY <1>1, <1>3, <1>5 DEF ToSet, IsInjective
<1>7. k \in Named /\ files[k].name = f.name /\ files[k].text = f.text /\ k \in Nat
  <2>1. k \in Nat
    BY <1>1
  <2>2. files[k].name = f.name /\ files[k].text = f.text
    BY <1>1, <1>3
  <2> QED BY <1>1, <1>5, <2>1, <2>2
<1> HIDE DEF files, Named
<1>8. Newest(f.name) = k
  <2>1. files[k].name = f.name /\ \A j \in Named : files[j].name = f.name => j <= k
    BY <1>6, <1>7
  <2> QED BY <1>6, <1>7, <2>1
<1>9. Contents(files) = [n \in {files[i].name : i \in Named} |-> files[Newest(n)].text]
  BY DEF Contents, files, Named
<1> HIDE DEF Newest
<1>10. f.name \in DOMAIN Contents(files) /\ Contents(files)[f.name] = f.text
  BY <1>7, <1>8, <1>9
<1> QED BY <1>10 DEF Range, files

(* No recorded edit escapes the stop hook: what it scans has the text of   *)
(* every file that is in the ledger, or another file of the same base name *)
(* has taken its place, whatever other hooks did in between.               *)
THEOREM NoEditEscapes == Spec => []EditsAreScanned
<1>1. IInv => EditsAreScanned
  <2> SUFFICES ASSUME IInv, NEW h \in DOMAIN jobs.hooks,
                      hooks[h].pc = "clean", hooks[h].out = "scanned", NEW f \in ledger,
                      \A g \in ToSet(hooks[h].list) : g = f \/ g.name # f.name
               PROVE  f.text \in Range(temps[HookDir(h)])
    BY DEF EditsAreScanned
  <2>1. h \in Hooks /\ hooks[h].list \in Seq(Edited)
    BY DEF IInv, Shapes, HookRecords
  <2>2. h \in Reading /\ h \in Scanning
    BY <2>1 DEF Scanning, Reading, Read
  <2>3. f \in ToSet(hooks[h].list) /\ IsInjective(hooks[h].list)
    BY <2>2 DEF IInv, LedgerIsKept, ListsAreSound
  <2>4. /\ ValidLocal(hooks[h].list) /\ temps[HookDir(h)] = Contents(BaseNames(hooks[h].list))
        /\ \A g \in Edited : DOMAIN g = {"path", "kind", "name", "text"}
    BY <2>2 DEF IInv, CopiesAreThere
  <2>5. f.text \in Range(Contents(BaseNames(hooks[h].list)))
    BY <2>1, <2>3, <2>4, TextIsThere
  <2> QED BY <2>4, <2>5
<1> QED BY <1>1, InvHolds, PTL
=============================================================================
