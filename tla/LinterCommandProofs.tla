------------------------- MODULE LinterCommandProofs -------------------------
(***************************************************************************)
(* Proofs about LinterCommand, for any number of commands at one time, any *)
(* of which may be killed: the settings file, the messages of the version  *)
(* check, and what the exit codes promise.                                 *)
(***************************************************************************)
EXTENDS LinterCommand, FiniteSetTheorems, TLAPS

Messages == UNION {{a.msg} \cup {b.msg : b \in a.banners} : a \in {FirstApp, NextApp}}
Answers ==
  [stamp : {None, "old", "fresh"}, banners : {{}, FirstApp.banners, NextApp.banners, {TornBanner}},
   msg : {None, "torn", FirstApp.msg, NextApp.msg}, len : {0, FirstApp.len, NextApp.len}, json : BOOLEAN]
Founds == {None} \cup {o.found : o \in UNION {cmd(p).outcomes : p \in Procs}}
Outcomes == [found : Founds, code : (0 .. 13) \ {FINDINGS}]
Uploads == UNION {DOMAIN cmd(p).tree : p \in Procs}
Owns ==
  [mem : [api_token : Tokens, shown : BOOLEAN], token : Tokens, latest : Answers, shown : SUBSET Messages,
   installed : BOOLEAN, polls : 0 .. MAX_RETRIES, candidate : Tokens, wrote : SUBSET Tokens,
   outcome : Outcomes, uploaded : SUBSET Uploads]

Typed ==
  /\ job \in {s.job : s \in Starts}
  /\ DOMAIN pc = Procs /\ DOMAIN back = Procs /\ DOMAIN exit = Procs /\ DOMAIN test = Procs
  /\ own \in [Procs -> Owns]
  /\ settings \in FirstSettings \cup [api_token : Tokens, shown : BOOLEAN]
  /\ cache \in Answers /\ app \in {FirstApp, NextApp} /\ pro \in {"absent", "stale", "current"}

Starting == {"authenticate", "auto install", "install"}
Versions == {"banners", "no findings", "too many findings"}
Caching == {"read cache", "fetch", "open cache", "write cache"}
Testing == {"test", "compare", "fix"}

(* Which command is at which point l, returns to r, and has exit code c.   *)
FlowAt(p, l, r, c) ==
  /\ c \in {NoCode} \cup 0 .. 13 /\ (c = NoCode) = (l # "done")
  /\ l \in {"login", "poll", "save token", "saved"} => cmd(p).name = "login"
  /\ l = "publish" => cmd(p).name = "publish"
  /\ l = "ci" => cmd(p).name = "ci"
  /\ l \in {"scan", "notify", "claim", "run scan", "validate", "no findings", "too many findings"} \cup Testing =>
       cmd(p).name = "scan"
  /\ l \in {"notify", "claim"} => cmd(p).mode \in {"scan", "validate", "test"}
  /\ l \in {"run scan", "validate"} => l = Phase(p) /\ cmd(p).mode \in {"scan", "validate"}
  /\ l \in Testing => cmd(p).mode = "test"
  /\ l \in Versions \cup Caching => cmd(p).name = "ci" \/ (cmd(p).name = "scan" /\ cmd(p).mode # "test")
  /\ l = "start" => r \in Starting
  /\ l \in {"save", "replace"} =>
       \/ r \in Starting
       \/ r = "saved" /\ cmd(p).name = "login"
       \/ r = Phase(p) /\ cmd(p).name = "scan" /\ cmd(p).mode \in {"scan", "validate", "test"}
  /\ l \in Caching => r \in Versions /\ (r # "banners" => cmd(p).name = "scan")

Flow(p) == FlowAt(p, pc[p], back[p], exit[p])

FirstTokens == Accepted \cup {s.api_token : s \in FirstSettings} \cup {None}

(* What a command holds is as sound as what the file has.                  *)
Sound ==
  /\ SettingsAreSound
  /\ \A p \in Procs : /\ own[p].mem.api_token \in FirstTokens
                      /\ own[p].mem.shown \/ pc[p] = "claim" => notified \/ muted

(* What a command takes for an answer is a whole one.                      *)
Whole(a) == \E f \in {FirstApp, NextApp} : a.msg = f.msg /\ a.banners = f.banners
Answered ==
  /\ cache.json => Whole(cache)
  /\ \A p \in Procs : own[p].latest = NoAnswer \/ Whole(own[p].latest)

(* A login has a candidate, saves it if it was accepted, and then is done. *)
Saving(p) == pc[p] \in {"save", "replace"} /\ back[p] = "saved"
LoggingIn(p) ==
  /\ pc[p] \notin {"save token", "saved", "done", "killed"} /\ ~Saving(p) => own[p].candidate = None
  /\ Saving(p) \/ pc[p] = "saved" =>
       own[p].candidate = own[p].mem.api_token /\ own[p].candidate \in Accepted
  /\ pc[p] = "saved" /\ home = "writable" => own[p].candidate \in own[p].wrote

(* A scan that goes on to the version check has succeeded, and `ci` was    *)
(* completed.                                                              *)
Succeeded(p) ==
  pc[p] \in Versions \cup Caching =>
    /\ cmd(p).name = "ci" \/ cmd(p).mode = "scan" => own[p].outcome.code = OK
    /\ cmd(p).name = "scan" /\ cmd(p).mode = "scan" => ~Blocks(p, own[p].outcome)

(* The tests of a command, whose workers race for the copies.  A target of *)
(* one configuration has one worker and a copy of its own.                 *)
Workers(p) == UNION {{<<c, pair[1]>> : pair \in FixPairs(p)[c]} : c \in DOMAIN FixPairs(p)}
Alone(p, w) == \A d \in DOMAIN FixPairs(p) \ {w[1]} : \A pair \in FixPairs(p)[d] : pair[1] # w[2]
TextOf(p, w) == cmd(p).tree[w[2]].text
ToFix(p, w) == LinesToFix(TextOf(p, w), Fixing(cmd(p).tree[w[1]]))

Worked(p, w) ==
  LET copy == test[p].copies[w[2]]
      at == Fixer(p, w).at
  IN  /\ at \in {"read", "write"} => Fixer(p, w).lines = ToFix(p, w)
      /\ at = "write" => Fixer(p, w).text = TextOf(p, w)
      /\ at \in {"scan", "read", "write", "failed"} => copy = TextOf(p, w)
      /\ at = "done" => copy = ApplyFixes(TextOf(p, w), ToFix(p, w))

(* A report is a set of pairs of a rule and a line.                        *)
Reports(p) ==
  \A c \in DOMAIN test[p].output : \A t \in DOMAIN test[p].output[c].found :
    \A a \in test[p].output[c].found[t] : a = <<a[1], a[2]>>

TestRun(p) ==
  /\ Reports(p)
  /\ DOMAIN test[p] = {"targets", "output", "copies", "fixer"}
  /\ DOMAIN test[p].copies \subseteq UNION {test[p].targets[c] : c \in DOMAIN test[p].targets}
  /\ pc[p] \notin {"fix", "done", "killed"} => test[p].copies = << >> /\ test[p].fixer = << >>
  /\ pc[p] = "fix" =>
       /\ DOMAIN test[p].copies = {w[2] : w \in Workers(p)} /\ DOMAIN test[p].fixer = Workers(p)
       /\ \A w \in Workers(p) : DOMAIN Fixer(p, w) = {"at", "lines", "text"}
       /\ \A w \in Workers(p) : Alone(p, w) => Worked(p, w)

IInv ==
  /\ Typed /\ Sound /\ Answered /\ ExitCodeTells
  /\ \A p \in Procs : Flow(p) /\ LoggingIn(p) /\ Succeeded(p) /\ TestRun(p)

-----------------------------------------------------------------------------
(* The flow of control                                                     *)

Act(p) ==
  \/ Main(p) \/ ExecOsemgrep(p) \/ Core(p) \/ AutoInstall(p) \/ Install(p)
  \/ ReadSettings(p) \/ Save(p) \/ Replace(p) \/ Authenticate(p)
  \/ Login(p) \/ Poll(p) \/ SaveToken(p) \/ Saved(p) \/ Publish(p) \/ Ci(p)
  \/ Scan(p) \/ Notify(p) \/ Claim(p) \/ RunScan(p) \/ Validate(p)
  \/ ReadCache(p) \/ Fetch(p) \/ OpenCache(p) \/ WriteCache(p)
  \/ ShowBanners(p) \/ LogFindings(p)
  \/ TestConfigs(p) \/ TestCompare(p) \/ EndTests(p)
  \/ \E w \in DOMAIN test[p].fixer : FixScan(p, w) \/ FixRead(p, w) \/ FixWrite(p, w)
  \/ Kill(p)

World == DayPasses \/ AppReleases \/ UNCHANGED vars

LEMMA Steps == [Next]_vars => World \/ \E p \in Procs : Act(p)
BY DEF Next, World, Act

Moves(p, l, r, c) ==
  /\ DOMAIN pc' = Procs /\ DOMAIN back' = Procs /\ DOMAIN exit' = Procs
  /\ pc'[p] = l /\ back'[p] = r /\ exit'[p] = c
  /\ \A q \in Procs \ {p} : pc'[q] = pc[q] /\ back'[q] = back[q] /\ exit'[q] = exit[q]

LEMMA Moving ==
  ASSUME Typed, NEW p \in Procs
  PROVE  /\ \A l : Goto(p, l) => Moves(p, l, back[p], exit[p])
         /\ \A l, r : Call(p, l, r) => Moves(p, l, r, exit[p])
         /\ Return(p) => Moves(p, back[p], back[p], exit[p])
         /\ \A c : Leave(p, c) => Moves(p, "done", back[p], c)
BY DEF Typed, Goto, Call, Return, Leave, Moves

(* The other commands stay where they are.                                 *)
Others(p) == \A q \in Procs \ {p} : pc'[q] = pc[q] /\ back'[q] = back[q] /\ exit'[q] = exit[q]

Flowing == DOMAIN pc = Procs /\ DOMAIN back = Procs /\ DOMAIN exit = Procs /\ \A q \in Procs : Flow(q)

LEMMA Moved ==
  ASSUME \A q \in Procs : Flow(q), UNCHANGED job, NEW p \in Procs, NEW l, NEW r, NEW c,
         Moves(p, l, r, c), FlowAt(p, l, r, c)
  PROVE  Flowing' /\ Others(p)
<1>1. ASSUME NEW q \in Procs, NEW m, NEW s, NEW d, FlowAt(q, m, s, d), pc'[q] = m, back'[q] = s, exit'[q] = d
      PROVE  Flow(q)'
  <2>1. cmd(q)' = cmd(q) /\ Phase(q)' = Phase(q)
    BY DEF cmd, Phase
  <2>2. FlowAt(q, pc'[q], back'[q], exit'[q])
    BY <1>1
  <2> QED BY ZenonT(40), <2>1, <2>2 DEF Flow, FlowAt, Starting, Versions, Caching, Testing, NoCode
<1>2. Flow(p)'
  BY <1>1 DEF Moves
<1>3. \A q \in Procs \ {p} : Flow(q)'
  BY <1>1 DEF Moves, Flow
<1> QED BY <1>2, <1>3 DEF Flowing, Moves, Others

(* Where a step of a command may lead.                                     *)
Onward(p) ==
  /\ pc[p] \notin {"done", "killed"}
  /\ Saving(p)' \/ pc'[p] = "saved" => SaveToken(p) \/ Saving(p)
  /\ pc'[p] = "saved" => home # "writable" \/ Replace(p)
  /\ Saving(p) => Saving(p)' \/ pc'[p] \in {"saved", "killed"}
  /\ pc[p] \in {"save token", "saved"} => Saving(p)' \/ pc'[p] \in {"done", "killed"}
  /\ pc'[p] \in Versions \cup Caching =>
       \/ pc[p] \in Versions \cup Caching \/ RunScan(p) \/ Validate(p) \/ Ci(p)
       \/ cmd(p).name = "scan" /\ cmd(p).mode # "scan"
  /\ pc'[p] = "claim" => Notify(p)
  /\ pc[p] = "fix" => pc'[p] \in {"fix", "done", "killed"}
  /\ pc'[p] = "fix" => pc[p] = "fix" \/ TestCompare(p)

(* How a command ends.                                                     *)
Ending(p) ==
  pc'[p] = "done" /\ ~cmd(p).ported =>
    /\ exit'[p] = OK /\ cmd(p).name = "login" => Login(p) \/ Saved(p)
    /\ exit'[p] = OK /\ cmd(p).name = "publish" => Publish(p)
    /\ exit'[p] = OK /\ cmd(p).name = "scan" /\ cmd(p).mode = "test" => EndTests(p)
    /\ exit'[p] = FINDINGS /\ cmd(p).name = "scan" /\ cmd(p).mode = "test" => EndTests(p) \/ settings = Torn
    /\ exit'[p] = OK /\ cmd(p).name = "ci" => Ci(p) \/ ShowBanners(p) \/ OpenCache(p)
    /\ exit'[p] = FINDINGS /\ cmd(p).name = "ci" => Ci(p) \/ ShowBanners(p) \/ settings = Torn
    /\ exit'[p] = OK /\ cmd(p).name = "scan" /\ cmd(p).mode = "scan" =>
         RunScan(p) \/ pc[p] \in Versions \cup Caching
    /\ exit'[p] = FINDINGS /\ cmd(p).name = "scan" /\ cmd(p).mode = "scan" => RunScan(p) \/ settings = Torn

(* How a command goes on, step by step.                                    *)
LEMMA FlowStep ==
  ASSUME IInv, NEW p \in Procs, Act(p)
  PROVE  Flowing' /\ Others(p) /\ Onward(p) /\ Ending(p) /\ UNCHANGED job
<1>0. Typed /\ (\A q \in Procs : Flow(q)) /\ Flow(p)
  BY DEF IInv
<1>a. cmd(p).name \in {"scan", "ci", "login", "publish"}
      /\ \A o \in cmd(p).outcomes : o.code \in 0 .. 13
  BY <1>0, CommandAssumption DEF Typed, cmd
<1>b. \A c \in 0 .. 13 : FlowAt(p, "done", back[p], c)
  BY DEF FlowAt, NoCode, Versions, Caching, Testing
<1>c. OK \in 0 .. 13 /\ FINDINGS \in 0 .. 13 /\ FATAL \in 0 .. 13 /\ EXIT_FAILURE \in 0 .. 13 /\ 1 \in 0 .. 13
      /\ FATAL # OK /\ FINDINGS # OK /\ EXIT_FAILURE # OK /\ FATAL # FINDINGS
  BY DEF OK, FINDINGS, FATAL, EXIT_FAILURE
<1>d. pc[p] # "done" => exit[p] = NoCode
  BY <1>0 DEF Flow, FlowAt
<1>1. CASE Main(p)
  <2>1. /\ UNCHANGED job
        /\ \/ Moves(p, "start", "authenticate", exit[p])
           \/ Moves(p, "find core", back[p], exit[p])
    BY <1>0, <1>a, <1>c, <1>1, Moving DEF Main
  <2>2. /\ FlowAt(p, "start", "authenticate", exit[p])
        /\ FlowAt(p, "find core", back[p], exit[p])
    BY <1>0, <1>a, <1>d, <1>1 DEF Main, At, Flow, FlowAt, Starting, Versions, Caching, Testing, Phase
  <2>3. Onward(p) /\ Ending(p)
    BY <1>0, <1>a, <1>c, <1>1, <2>1 DEF Main, At, Flow, FlowAt, Moves, Onward, Ending, Saving, Starting, Versions, Caching, Testing, Phase
  <2> QED BY <1>0, <1>a, <1>b, <1>c, <2>1, <2>2, <2>3, Moved
<1>2. CASE ExecOsemgrep(p)
  <2>1. /\ UNCHANGED job
        /\ \/ Moves(p, "core", back[p], exit[p])
           \/ Moves(p, "start", "authenticate", exit[p])
           \/ Moves(p, "start", "auto install", exit[p])
    BY <1>0, <1>a, <1>c, <1>2, Moving DEF ExecOsemgrep
  <2>2. /\ FlowAt(p, "core", back[p], exit[p])
        /\ FlowAt(p, "start", "authenticate", exit[p])
        /\ FlowAt(p, "start", "auto install", exit[p])
    BY <1>0, <1>a, <1>d, <1>2 DEF ExecOsemgrep, At, Flow, FlowAt, Starting, Versions, Caching, Testing, Phase
  <2>3. Onward(p) /\ Ending(p)
    BY <1>0, <1>a, <1>c, <1>2, <2>1 DEF ExecOsemgrep, At, Flow, FlowAt, Moves, Onward, Ending, Saving, Starting, Versions, Caching, Testing, Phase
  <2> QED BY <1>0, <1>a, <1>b, <1>c, <2>1, <2>2, <2>3, Moved
<1>3. CASE Core(p)
  <2>1. /\ UNCHANGED job
        /\ \/ cmd(p).ported /\ (\E c \in 0 .. 13 : Moves(p, "done", back[p], c))
           \/ Moves(p, "start", "authenticate", exit[p])
    BY <1>0, <1>a, <1>c, <1>3, Moving DEF Core
  <2>2. /\ FlowAt(p, "start", "authenticate", exit[p])
    BY <1>0, <1>a, <1>d, <1>3 DEF Core, At, Flow, FlowAt, Starting, Versions, Caching, Testing, Phase
  <2>3. Onward(p) /\ Ending(p)
    BY <1>0, <1>a, <1>c, <1>3, <2>1 DEF Core, At, Flow, FlowAt, Moves, Onward, Ending, Saving, Starting, Versions, Caching, Testing, Phase
  <2> QED BY <1>0, <1>a, <1>b, <1>c, <2>1, <2>2, <2>3, Moved
<1>4. CASE AutoInstall(p)
  <2>1. /\ UNCHANGED job
        /\ \/ Moves(p, "done", back[p], FATAL)
           \/ Moves(p, "start", "install", exit[p])
    BY <1>0, <1>a, <1>c, <1>4, Moving DEF AutoInstall
  <2>2. /\ FlowAt(p, "start", "install", exit[p])
    BY <1>0, <1>a, <1>d, <1>4 DEF AutoInstall, At, Flow, FlowAt, Starting, Versions, Caching, Testing, Phase
  <2>3. Onward(p) /\ Ending(p)
    BY <1>0, <1>a, <1>c, <1>4, <2>1 DEF AutoInstall, At, Flow, FlowAt, Moves, Onward, Ending, Saving, Starting, Versions, Caching, Testing, Phase
  <2> QED BY <1>0, <1>a, <1>b, <1>c, <2>1, <2>2, <2>3, Moved
<1>5. CASE Install(p)
  <2>1. /\ UNCHANGED job
        /\ \/ Moves(p, "done", back[p], FATAL)
           \/ Moves(p, "find core", back[p], exit[p])
    BY <1>0, <1>a, <1>c, <1>5, Moving DEF Install
  <2>2. /\ FlowAt(p, "find core", back[p], exit[p])
    BY <1>0, <1>a, <1>d, <1>5 DEF Install, At, Flow, FlowAt, Starting, Versions, Caching, Testing, Phase
  <2>3. Onward(p) /\ Ending(p)
    BY <1>0, <1>a, <1>c, <1>5, <2>1 DEF Install, At, Flow, FlowAt, Moves, Onward, Ending, Saving, Starting, Versions, Caching, Testing, Phase
  <2> QED BY <1>0, <1>a, <1>b, <1>c, <2>1, <2>2, <2>3, Moved
<1>6. CASE ReadSettings(p)
  <2>1. /\ UNCHANGED job
        /\ \/ settings = Torn /\ Moves(p, "done", back[p], FINDINGS)
           \/ Moves(p, "save", back[p], exit[p])
    BY <1>0, <1>a, <1>c, <1>6, Moving DEF ReadSettings
  <2>2. /\ FlowAt(p, "save", back[p], exit[p])
    BY <1>0, <1>a, <1>d, <1>6 DEF ReadSettings, At, Flow, FlowAt, Starting, Versions, Caching, Testing, Phase
  <2>3. Onward(p) /\ Ending(p)
    BY <1>0, <1>a, <1>c, <1>6, <2>1 DEF ReadSettings, At, Flow, FlowAt, Moves, Onward, Ending, Saving, Starting, Versions, Caching, Testing, Phase
  <2> QED BY <1>0, <1>a, <1>b, <1>c, <2>1, <2>2, <2>3, Moved
<1>7. CASE Save(p)
  <2>1. /\ UNCHANGED job
        /\ \/ home # "writable" /\ Moves(p, back[p], back[p], exit[p])
           \/ Moves(p, "replace", back[p], exit[p])
    BY <1>0, <1>a, <1>c, <1>7, Moving DEF Save
  <2>2. /\ FlowAt(p, back[p], back[p], exit[p])
        /\ FlowAt(p, "replace", back[p], exit[p])
    BY <1>0, <1>a, <1>d, <1>7 DEF Save, At, Flow, FlowAt, Starting, Versions, Caching, Testing, Phase
  <2>3. Onward(p) /\ Ending(p)
    BY <1>0, <1>a, <1>c, <1>7, <2>1 DEF Save, At, Flow, FlowAt, Moves, Onward, Ending, Saving, Starting, Versions, Caching, Testing, Phase
  <2> QED BY <1>0, <1>a, <1>b, <1>c, <2>1, <2>2, <2>3, Moved
<1>8. CASE Replace(p)
  <2>1. /\ UNCHANGED job
        /\ Moves(p, back[p], back[p], exit[p])
    BY <1>0, <1>a, <1>c, <1>8, Moving DEF Replace
  <2>2. /\ FlowAt(p, back[p], back[p], exit[p])
    BY <1>0, <1>a, <1>d, <1>8 DEF Replace, At, Flow, FlowAt, Starting, Versions, Caching, Testing, Phase
  <2>3. Onward(p) /\ Ending(p)
    BY <1>0, <1>a, <1>c, <1>8, <2>1 DEF Replace, At, Flow, FlowAt, Moves, Onward, Ending, Saving, Starting, Versions, Caching, Testing, Phase
  <2> QED BY <1>0, <1>a, <1>b, <1>c, <2>1, <2>2, <2>3, Moved
<1>9. CASE Authenticate(p)
  <2>1. /\ UNCHANGED job
        /\ Moves(p, cmd(p).name, back[p], exit[p])
    BY <1>0, <1>a, <1>c, <1>9, Moving DEF Authenticate
  <2>2. /\ FlowAt(p, cmd(p).name, back[p], exit[p])
    BY <1>0, <1>a, <1>d, <1>9 DEF Authenticate, At, Flow, FlowAt, Starting, Versions, Caching, Testing, Phase
  <2>3. Onward(p) /\ Ending(p)
    BY <1>0, <1>a, <1>c, <1>9, <2>1 DEF Authenticate, At, Flow, FlowAt, Moves, Onward, Ending, Saving, Starting, Versions, Caching, Testing, Phase
  <2> QED BY <1>0, <1>a, <1>b, <1>c, <2>1, <2>2, <2>3, Moved
<1>10. CASE Login(p)
  <2>1. /\ UNCHANGED job
        /\ \/ (\E c \in 0 .. 13 : Moves(p, "done", back[p], c))
           \/ Moves(p, "save token", back[p], exit[p])
           \/ Moves(p, "poll", back[p], exit[p])
    BY <1>0, <1>a, <1>c, <1>10, Moving DEF Login
  <2>2. /\ FlowAt(p, "save token", back[p], exit[p])
        /\ FlowAt(p, "poll", back[p], exit[p])
    BY <1>0, <1>a, <1>d, <1>10 DEF Login, At, Flow, FlowAt, Starting, Versions, Caching, Testing, Phase
  <2>3. Onward(p) /\ Ending(p)
    BY <1>0, <1>a, <1>c, <1>10, <2>1 DEF Login, At, Flow, FlowAt, Moves, Onward, Ending, Saving, Starting, Versions, Caching, Testing, Phase
  <2> QED BY <1>0, <1>a, <1>b, <1>c, <2>1, <2>2, <2>3, Moved
<1>11. CASE Poll(p)
  <2>1. /\ UNCHANGED job
        /\ \/ Moves(p, "done", back[p], FATAL)
           \/ Moves(p, "save token", back[p], exit[p])
           \/ Moves(p, "poll", back[p], exit[p])
    BY <1>0, <1>a, <1>c, <1>11, Moving DEF Poll
  <2>2. /\ FlowAt(p, "save token", back[p], exit[p])
        /\ FlowAt(p, "poll", back[p], exit[p])
    BY <1>0, <1>a, <1>d, <1>11 DEF Poll, At, Flow, FlowAt, Starting, Versions, Caching, Testing, Phase
  <2>3. Onward(p) /\ Ending(p)
    BY <1>0, <1>a, <1>c, <1>11, <2>1 DEF Poll, At, Flow, FlowAt, Moves, Onward, Ending, Saving, Starting, Versions, Caching, Testing, Phase
  <2> QED BY <1>0, <1>a, <1>b, <1>c, <2>1, <2>2, <2>3, Moved
<1>12. CASE SaveToken(p)
  <2>1. /\ UNCHANGED job
        /\ \/ Moves(p, "done", back[p], FATAL)
           \/ Moves(p, "save", "saved", exit[p])
    BY <1>0, <1>a, <1>c, <1>12, Moving DEF SaveToken
  <2>2. /\ FlowAt(p, "save", "saved", exit[p])
    BY <1>0, <1>a, <1>d, <1>12 DEF SaveToken, At, Flow, FlowAt, Starting, Versions, Caching, Testing, Phase
  <2>3. Onward(p) /\ Ending(p)
    BY <1>0, <1>a, <1>c, <1>12, <2>1 DEF SaveToken, At, Flow, FlowAt, Moves, Onward, Ending, Saving, Starting, Versions, Caching, Testing, Phase
  <2> QED BY <1>0, <1>a, <1>b, <1>c, <2>1, <2>2, <2>3, Moved
<1>13. CASE Saved(p)
  <2>1. /\ UNCHANGED job
        /\ (\E c \in 0 .. 13 : Moves(p, "done", back[p], c))
    BY <1>0, <1>a, <1>c, <1>13, Moving DEF Saved
  <2>3. Onward(p) /\ Ending(p)
    BY <1>0, <1>a, <1>c, <1>13, <2>1 DEF Saved, At, Flow, FlowAt, Moves, Onward, Ending, Saving, Starting, Versions, Caching, Testing, Phase
  <2> QED BY <1>0, <1>a, <1>b, <1>c, <2>1, <2>3, Moved
<1>14. CASE Publish(p)
  <2>1. /\ UNCHANGED job
        /\ (\E c \in 0 .. 13 : Moves(p, "done", back[p], c))
    BY <1>0, <1>a, <1>c, <1>14, Moving DEF Publish
  <2>3. Onward(p) /\ Ending(p)
    BY <1>0, <1>a, <1>c, <1>14, <2>1 DEF Publish, At, Flow, FlowAt, Moves, Onward, Ending, Saving, Starting, Versions, Caching, Testing, Phase
  <2> QED BY <1>0, <1>a, <1>b, <1>c, <2>1, <2>3, Moved
<1>15. CASE Ci(p)
  <2>1. /\ UNCHANGED job
        /\ \/ (\E c \in 0 .. 13 : Moves(p, "done", back[p], c))
           \/ Moves(p, "read cache", "banners", exit[p])
    BY <1>0, <1>a, <1>c, <1>15, Moving DEF Ci, FailOpen
  <2>2. FlowAt(p, "read cache", "banners", exit[p]) /\ pc[p] = "ci" /\ cmd(p).name = "ci"
    BY <1>0, <1>a, <1>d, <1>15 DEF Ci, At, Flow, FlowAt, Starting, Versions, Caching, Testing, Phase
  <2>3. Onward(p) /\ Ending(p)
    BY <1>15, <2>1, <2>2 DEF Moves, Onward, Ending, Saving, Versions, Caching
  <2> QED BY <1>0, <1>a, <1>b, <1>c, <2>1, <2>2, <2>3, Moved
<1>16. CASE Scan(p)
  <2>1. /\ UNCHANGED job
        /\ \/ cmd(p).mode \notin {"scan", "test"} /\ Moves(p, "done", back[p], OK)
           \/ Moves(p, "done", back[p], FATAL)
           \/ cmd(p).mode = "version" /\ Moves(p, "read cache", "banners", exit[p])
           \/ cmd(p).mode \in {"scan", "validate", "test"} /\ Moves(p, "notify", back[p], exit[p])
    BY <1>0, <1>a, <1>c, <1>16, Moving DEF Scan, CheckVersion
  <2>2. /\ (cmd(p).mode = "version" => FlowAt(p, "read cache", "banners", exit[p]))
        /\ (cmd(p).mode \in {"scan", "validate", "test"} => FlowAt(p, "notify", back[p], exit[p]))
    BY <1>0, <1>a, <1>d, <1>16 DEF Scan, At, Flow, FlowAt, Starting, Versions, Caching, Testing, Phase
  <2>3. Onward(p) /\ Ending(p)
    BY <1>0, <1>a, <1>c, <1>16, <2>1 DEF Scan, At, Flow, FlowAt, Moves, Onward, Ending, Saving, Starting, Versions, Caching, Testing, Phase
  <2> QED BY <1>0, <1>a, <1>b, <1>c, <2>1, <2>2, <2>3, Moved
<1>30. CASE Notify(p)
  <2>1. /\ UNCHANGED job
        /\ Moves(p, "claim", back[p], exit[p]) \/ Moves(p, Phase(p), back[p], exit[p])
    BY <1>0, <1>a, <1>c, <1>30, Moving DEF Notify
  <2>2. FlowAt(p, "claim", back[p], exit[p]) /\ FlowAt(p, Phase(p), back[p], exit[p])
    BY <1>0, <1>a, <1>d, <1>30 DEF Notify, At, Flow, FlowAt, Starting, Versions, Caching, Testing, Phase
  <2>3. Onward(p) /\ Ending(p)
    BY <1>0, <1>a, <1>c, <1>30, <2>1 DEF Notify, At, Flow, FlowAt, Moves, Onward, Ending, Saving, Starting, Versions, Caching, Testing, Phase
  <2> QED BY <1>0, <1>a, <1>b, <1>c, <2>1, <2>2, <2>3, Moved
<1>31. CASE Claim(p)
  <2>1. UNCHANGED job /\ Moves(p, "save", Phase(p), exit[p])
    BY <1>0, <1>a, <1>c, <1>31, Moving DEF Claim
  <2>2. FlowAt(p, "save", Phase(p), exit[p])
    BY <1>0, <1>a, <1>d, <1>31 DEF Claim, At, Flow, FlowAt, Starting, Versions, Caching, Testing, Phase
  <2>3. Onward(p) /\ Ending(p)
    BY <1>0, <1>a, <1>c, <1>31, <2>1 DEF Claim, At, Flow, FlowAt, Moves, Onward, Ending, Saving, Starting, Versions, Caching, Testing, Phase
  <2> QED BY <1>0, <1>a, <1>b, <1>c, <2>1, <2>2, <2>3, Moved
<1>17. CASE RunScan(p)
  <2>1. /\ UNCHANGED job
        /\ \/ (\E c \in 0 .. 13 : Moves(p, "done", back[p], c))
           \/ Moves(p, "read cache", "banners", exit[p])
    BY <1>0, <1>a, <1>c, <1>17, Moving DEF RunScan, CheckVersion
  <2>2. /\ FlowAt(p, "read cache", "banners", exit[p])
    BY <1>0, <1>a, <1>d, <1>17 DEF RunScan, At, Flow, FlowAt, Starting, Versions, Caching, Testing, Phase
  <2>3. Onward(p) /\ Ending(p)
    BY <1>0, <1>a, <1>c, <1>17, <2>1 DEF RunScan, At, Flow, FlowAt, Moves, Onward, Ending, Saving, Starting, Versions, Caching, Testing, Phase
  <2> QED BY <1>0, <1>a, <1>b, <1>c, <2>1, <2>2, <2>3, Moved
<1>18. CASE Validate(p)
  <2>1. /\ UNCHANGED job
        /\ \/ (\E c \in 0 .. 13 : Moves(p, "done", back[p], c))
           \/ Moves(p, "read cache", "banners", exit[p])
    BY <1>0, <1>a, <1>c, <1>18, Moving DEF Validate, CheckVersion
  <2>2. /\ FlowAt(p, "read cache", "banners", exit[p])
    BY <1>0, <1>a, <1>d, <1>18 DEF Validate, At, Flow, FlowAt, Starting, Versions, Caching, Testing, Phase
  <2>3. Onward(p) /\ Ending(p)
    BY <1>0, <1>a, <1>c, <1>18, <2>1 DEF Validate, At, Flow, FlowAt, Moves, Onward, Ending, Saving, Starting, Versions, Caching, Testing, Phase
  <2> QED BY <1>0, <1>a, <1>b, <1>c, <2>1, <2>2, <2>3, Moved
<1>19. CASE ReadCache(p)
  <2>1. /\ UNCHANGED job
        /\ \/ Moves(p, "open cache", back[p], exit[p])
           \/ Moves(p, "fetch", back[p], exit[p])
           \/ Moves(p, back[p], back[p], exit[p])
    BY <1>0, <1>a, <1>c, <1>19, Moving DEF ReadCache
  <2>2. /\ FlowAt(p, "open cache", back[p], exit[p])
        /\ FlowAt(p, "fetch", back[p], exit[p])
        /\ FlowAt(p, back[p], back[p], exit[p])
    BY <1>0, <1>a, <1>d, <1>19 DEF ReadCache, At, Flow, FlowAt, Starting, Versions, Caching, Testing, Phase
  <2>3. Onward(p) /\ Ending(p)
    BY <1>0, <1>a, <1>c, <1>19, <2>1 DEF ReadCache, At, Flow, FlowAt, Moves, Onward, Ending, Saving, Starting, Versions, Caching, Testing, Phase
  <2> QED BY <1>0, <1>a, <1>b, <1>c, <2>1, <2>2, <2>3, Moved
<1>20. CASE Fetch(p)
  <2>1. /\ UNCHANGED job
        /\ \/ Moves(p, "open cache", back[p], exit[p])
           \/ Moves(p, back[p], back[p], exit[p])
    BY <1>0, <1>a, <1>c, <1>20, Moving DEF Fetch
  <2>2. /\ FlowAt(p, "open cache", back[p], exit[p])
        /\ FlowAt(p, back[p], back[p], exit[p])
    BY <1>0, <1>a, <1>d, <1>20 DEF Fetch, At, Flow, FlowAt, Starting, Versions, Caching, Testing, Phase
  <2>3. Onward(p) /\ Ending(p)
    BY <1>0, <1>a, <1>c, <1>20, <2>1 DEF Fetch, At, Flow, FlowAt, Moves, Onward, Ending, Saving, Starting, Versions, Caching, Testing, Phase
  <2> QED BY <1>0, <1>a, <1>b, <1>c, <2>1, <2>2, <2>3, Moved
<1>21. CASE OpenCache(p)
  <2>1. /\ UNCHANGED job
        /\ \/ Moves(p, "done", back[p], FATAL)
           \/ Moves(p, "done", back[p], OK)
           \/ Moves(p, "write cache", back[p], exit[p])
    BY <1>0, <1>a, <1>c, <1>21, Moving DEF OpenCache, FailOpen
  <2>2. /\ FlowAt(p, "write cache", back[p], exit[p])
    BY <1>0, <1>a, <1>d, <1>21 DEF OpenCache, At, Flow, FlowAt, Starting, Versions, Caching, Testing, Phase
  <2>3. Onward(p) /\ Ending(p)
    BY <1>0, <1>a, <1>c, <1>21, <2>1 DEF OpenCache, At, Flow, FlowAt, Moves, Onward, Ending, Saving, Starting, Versions, Caching, Testing, Phase
  <2> QED BY <1>0, <1>a, <1>b, <1>c, <2>1, <2>2, <2>3, Moved
<1>22. CASE WriteCache(p)
  <2>1. /\ UNCHANGED job
        /\ Moves(p, back[p], back[p], exit[p])
    BY <1>0, <1>a, <1>c, <1>22, Moving DEF WriteCache
  <2>2. /\ FlowAt(p, back[p], back[p], exit[p])
    BY <1>0, <1>a, <1>d, <1>22 DEF WriteCache, At, Flow, FlowAt, Starting, Versions, Caching, Testing, Phase
  <2>3. Onward(p) /\ Ending(p)
    BY <1>0, <1>a, <1>c, <1>22, <2>1 DEF WriteCache, At, Flow, FlowAt, Moves, Onward, Ending, Saving, Starting, Versions, Caching, Testing, Phase
  <2> QED BY <1>0, <1>a, <1>b, <1>c, <2>1, <2>2, <2>3, Moved
<1>23. CASE ShowBanners(p)
  <2>1. /\ UNCHANGED job
        /\ \/ (\E c \in 0 .. 13 : Moves(p, "done", back[p], c) /\ (cmd(p).name # "ci" => c = OK))
           \/ cmd(p).name = "scan" /\ Moves(p, "read cache", "no findings", exit[p])
           \/ cmd(p).name = "scan" /\ Moves(p, "read cache", "too many findings", exit[p])
    BY <1>0, <1>a, <1>c, <1>23, Moving DEF ShowBanners, ExitCode
  <2>2. cmd(p).name = "scan" => /\ FlowAt(p, "read cache", "no findings", exit[p])
                                /\ FlowAt(p, "read cache", "too many findings", exit[p])
    BY <1>0, <1>a, <1>d, <1>23 DEF ShowBanners, At, Flow, FlowAt, Starting, Versions, Caching, Testing, Phase
  <2>3. Onward(p) /\ Ending(p)
    BY <1>0, <1>a, <1>c, <1>23, <2>1 DEF ShowBanners, At, Flow, FlowAt, Moves, Onward, Ending, Saving, Starting, Versions, Caching, Testing, Phase
  <2> QED BY <1>0, <1>a, <1>b, <1>c, <2>1, <2>2, <2>3, Moved
<1>24. CASE LogFindings(p)
  <2>1. /\ UNCHANGED job
        /\ Moves(p, "done", back[p], OK)
    BY <1>0, <1>a, <1>c, <1>24, Moving DEF LogFindings
  <2>3. Onward(p) /\ Ending(p)
    BY <1>0, <1>a, <1>c, <1>24, <2>1 DEF LogFindings, At, Flow, FlowAt, Moves, Onward, Ending, Saving, Starting, Versions, Caching, Testing, Phase
  <2> QED BY <1>0, <1>a, <1>b, <1>c, <2>1, <2>3, Moved
<1>25. CASE TestConfigs(p)
  <2>1. /\ UNCHANGED job
        /\ \/ Moves(p, "done", back[p], FATAL)
           \/ Moves(p, "compare", back[p], exit[p])
    BY <1>0, <1>a, <1>c, <1>25, Moving DEF TestConfigs
  <2>2. /\ FlowAt(p, "compare", back[p], exit[p])
    BY <1>0, <1>a, <1>d, <1>25 DEF TestConfigs, At, Flow, FlowAt, Starting, Versions, Caching, Testing, Phase
  <2>3. Onward(p) /\ Ending(p)
    BY <1>0, <1>a, <1>c, <1>25, <2>1 DEF TestConfigs, At, Flow, FlowAt, Moves, Onward, Ending, Saving, Starting, Versions, Caching, Testing, Phase
  <2> QED BY <1>0, <1>a, <1>b, <1>c, <2>1, <2>2, <2>3, Moved
<1>26. CASE TestCompare(p)
  <2>1. /\ UNCHANGED job
        /\ \/ Moves(p, "done", back[p], EXIT_FAILURE)
           \/ Moves(p, "done", back[p], FATAL)
           \/ Moves(p, "fix", back[p], exit[p])
    BY <1>0, <1>a, <1>c, <1>26, Moving DEF TestCompare
  <2>2. /\ FlowAt(p, "fix", back[p], exit[p])
    BY <1>0, <1>a, <1>d, <1>26 DEF TestCompare, At, Flow, FlowAt, Starting, Versions, Caching, Testing, Phase
  <2>3. Onward(p) /\ Ending(p)
    <3>1. pc[p] = "compare" /\ EXIT_FAILURE # FINDINGS
      BY <1>26 DEF TestCompare, At, EXIT_FAILURE, FINDINGS
    <3>2. cmd(p).name = "scan" /\ cmd(p).mode = "test"
      BY <1>0, <3>1 DEF Flow, FlowAt, Versions, Caching, Testing, Starting
    <3>3. Onward(p)
      BY <1>26, <2>1, <3>1, <3>2 DEF Moves, Onward, Saving, Versions, Caching
    <3> QED BY <1>c, <2>1, <3>1, <3>2, <3>3 DEF Moves, Ending
  <2> QED BY <1>0, <1>a, <1>b, <1>c, <2>1, <2>2, <2>3, Moved
<1>27. CASE EndTests(p)
  <2>1. /\ UNCHANGED job
        /\ (\E c \in 0 .. 13 : Moves(p, "done", back[p], c))
    BY <1>0, <1>a, <1>c, <1>27, Moving DEF EndTests
  <2>3. Onward(p) /\ Ending(p)
    BY <1>0, <1>a, <1>c, <1>27, <2>1 DEF EndTests, At, Flow, FlowAt, Moves, Onward, Ending, Saving, Starting, Versions, Caching, Testing, Phase
  <2> QED BY <1>0, <1>a, <1>b, <1>c, <2>1, <2>3, Moved
<1>28. CASE Kill(p)
  <2>1. /\ UNCHANGED job
        /\ Moves(p, "killed", back[p], exit[p])
    BY <1>0, <1>a, <1>c, <1>28, Moving DEF Kill, Moves, Typed
  <2>2. /\ FlowAt(p, "killed", back[p], exit[p])
    BY <1>0, <1>a, <1>d, <1>28 DEF Kill, At, Flow, FlowAt, Starting, Versions, Caching, Testing, Phase
  <2>3. Onward(p) /\ Ending(p)
    BY <1>0, <1>a, <1>c, <1>28, <2>1 DEF Kill, Flow, FlowAt, Moves, Onward, Ending, Saving, Starting, Versions, Caching, Testing, Phase
  <2> QED BY <1>0, <1>a, <1>b, <1>c, <2>1, <2>2, <2>3, Moved
<1>29. CASE \E w \in DOMAIN test[p].fixer : FixScan(p, w) \/ FixRead(p, w) \/ FixWrite(p, w)
  <2>1. UNCHANGED <<job, pc, back, exit>> /\ pc[p] = "fix"
    BY <1>29 DEF FixScan, FixRead, FixWrite, FixStep, control, At
  <2>2. Flowing'
    BY ZenonT(40), <1>0, <2>1 DEF Flowing, Typed, Flow, FlowAt, Phase, cmd
  <2> QED BY <2>1, <2>2 DEF Onward, Ending, Saving, Versions, Caching, Others
<1> QED
  BY <1>1, <1>2, <1>3, <1>4, <1>5, <1>6, <1>7, <1>8, <1>9, <1>10, <1>11, <1>12, <1>13, <1>14,
     <1>15, <1>16, <1>17, <1>18, <1>19, <1>20, <1>21, <1>22, <1>23, <1>24, <1>25, <1>26, <1>27,
     <1>28, <1>29, <1>30, <1>31
  DEF Act

-----------------------------------------------------------------------------
(* What a command holds                                                    *)

LEMMA Heard ==
  ASSUME Answered, NEW p \in Procs
  PROVE  /\ own[p].latest # NoAnswer => own[p].latest.msg \in Messages
         /\ \A b \in FilteredBanners(own[p].latest) : b.msg \in Messages
<1>1. CASE own[p].latest = NoAnswer
  <2>1. NoAnswer.banners = {}
    BY DEF NoAnswer, NoCache
  <2> QED BY <1>1, <2>1 DEF FilteredBanners
<1>2. CASE own[p].latest # NoAnswer
  <2>1. PICK f \in {FirstApp, NextApp} : own[p].latest.msg = f.msg /\ own[p].latest.banners = f.banners
    BY <1>2 DEF Answered, Whole
  <2>2. {f.msg} \cup {b.msg : b \in f.banners} \subseteq Messages
    BY DEF Messages
  <2> QED BY <2>1, <2>2 DEF FilteredBanners
<1> QED BY <1>1, <1>2

(* Of what a command holds only one field changes.                         *)
Kept(p, field) ==
  /\ own' \in [Procs -> Owns] /\ \A q \in Procs \ {p} : own'[q] = own[q]
  /\ field # "mem" => own'[p].mem = own[p].mem
  /\ field # "latest" => own'[p].latest = own[p].latest
  /\ field # "candidate" => own'[p].candidate = own[p].candidate
  /\ field # "outcome" => own'[p].outcome = own[p].outcome
  /\ field # "uploaded" => own'[p].uploaded = own[p].uploaded
  /\ field # "wrote" => own'[p].wrote = own[p].wrote

LEMMA Held ==
  ASSUME own \in [Procs -> Owns], NEW p \in Procs
  PROVE  /\ \A v \in [api_token : Tokens, shown : BOOLEAN] : own' = [own EXCEPT ![p].mem = v] => Kept(p, "mem")
         /\ \A v \in Tokens : own' = [own EXCEPT ![p].mem.api_token = v] => Kept(p, "mem")
         /\ \A v \in BOOLEAN : own' = [own EXCEPT ![p].mem.shown = v] => Kept(p, "mem")
         /\ \A v \in Tokens : own' = [own EXCEPT ![p].token = v] => Kept(p, "token")
         /\ \A v \in Answers : own' = [own EXCEPT ![p].latest = v] => Kept(p, "latest")
         /\ \A v \in SUBSET Messages : own' = [own EXCEPT ![p].shown = v] => Kept(p, "shown")
         /\ \A v \in BOOLEAN : own' = [own EXCEPT ![p].installed = v] => Kept(p, "installed")
         /\ \A v \in 0 .. MAX_RETRIES : own' = [own EXCEPT ![p].polls = v] => Kept(p, "polls")
         /\ \A v \in Tokens : own' = [own EXCEPT ![p].candidate = v] => Kept(p, "candidate")
         /\ \A v \in SUBSET Tokens : own' = [own EXCEPT ![p].wrote = v] => Kept(p, "wrote")
         /\ \A v \in Outcomes : own' = [own EXCEPT ![p].outcome = v] => Kept(p, "outcome")
         /\ \A v \in SUBSET Uploads : own' = [own EXCEPT ![p].uploaded = v] => Kept(p, "uploaded")
<1>0. own[p] \in Owns
  OBVIOUS
<1>1. ASSUME NEW v \in [api_token : Tokens, shown : BOOLEAN], own' = [own EXCEPT ![p].mem = v]
      PROVE  Kept(p, "mem")
  <2> DEFINE r == [own[p] EXCEPT !.mem = v]
  <2>1. /\ r \in Owns
        /\ r.latest = own[p].latest /\ r.candidate = own[p].candidate /\ r.outcome =
           own[p].outcome /\ r.uploaded = own[p].uploaded /\ r.wrote = own[p].wrote
    BY <1>0 DEF Owns
  <2>2. own' = [own EXCEPT ![p] = r]
    BY <1>1
  <2> HIDE DEF r
  <2>3. own' \in [Procs -> Owns] /\ own'[p] = r /\ \A q \in Procs \ {p} : own'[q] = own[q]
    BY <2>1, <2>2
  <2> QED BY <2>1, <2>3 DEF Kept
<1>2. ASSUME NEW v \in Tokens, own' = [own EXCEPT ![p].mem.api_token = v]
      PROVE  Kept(p, "mem")
  <2> DEFINE r == [own[p] EXCEPT !.mem.api_token = v]
  <2>1. /\ r \in Owns
        /\ r.latest = own[p].latest /\ r.candidate = own[p].candidate /\ r.outcome =
           own[p].outcome /\ r.uploaded = own[p].uploaded /\ r.wrote = own[p].wrote
    BY <1>0 DEF Owns
  <2>2. own' = [own EXCEPT ![p] = r]
    BY <1>2
  <2> HIDE DEF r
  <2>3. own' \in [Procs -> Owns] /\ own'[p] = r /\ \A q \in Procs \ {p} : own'[q] = own[q]
    BY <2>1, <2>2
  <2> QED BY <2>1, <2>3 DEF Kept
<1>3. ASSUME NEW v \in BOOLEAN, own' = [own EXCEPT ![p].mem.shown = v]
      PROVE  Kept(p, "mem")
  <2> DEFINE r == [own[p] EXCEPT !.mem.shown = v]
  <2>1. /\ r \in Owns
        /\ r.latest = own[p].latest /\ r.candidate = own[p].candidate /\ r.outcome =
           own[p].outcome /\ r.uploaded = own[p].uploaded /\ r.wrote = own[p].wrote
    BY <1>0 DEF Owns
  <2>2. own' = [own EXCEPT ![p] = r]
    BY <1>3
  <2> HIDE DEF r
  <2>3. own' \in [Procs -> Owns] /\ own'[p] = r /\ \A q \in Procs \ {p} : own'[q] = own[q]
    BY <2>1, <2>2
  <2> QED BY <2>1, <2>3 DEF Kept
<1>4. ASSUME NEW v \in Tokens, own' = [own EXCEPT ![p].token = v]
      PROVE  Kept(p, "token")
  <2> DEFINE r == [own[p] EXCEPT !.token = v]
  <2>1. /\ r \in Owns
        /\ r.mem = own[p].mem /\ r.latest = own[p].latest /\ r.candidate = own[p].candidate /\
           r.outcome = own[p].outcome /\ r.uploaded = own[p].uploaded /\ r.wrote = own[p].wrote
    BY <1>0 DEF Owns
  <2>2. own' = [own EXCEPT ![p] = r]
    BY <1>4
  <2> HIDE DEF r
  <2>3. own' \in [Procs -> Owns] /\ own'[p] = r /\ \A q \in Procs \ {p} : own'[q] = own[q]
    BY <2>1, <2>2
  <2> QED BY <2>1, <2>3 DEF Kept
<1>5. ASSUME NEW v \in Answers, own' = [own EXCEPT ![p].latest = v]
      PROVE  Kept(p, "latest")
  <2> DEFINE r == [own[p] EXCEPT !.latest = v]
  <2>1. /\ r \in Owns
        /\ r.mem = own[p].mem /\ r.candidate = own[p].candidate /\ r.outcome = own[p].outcome
           /\ r.uploaded = own[p].uploaded /\ r.wrote = own[p].wrote
    BY <1>0 DEF Owns
  <2>2. own' = [own EXCEPT ![p] = r]
    BY <1>5
  <2> HIDE DEF r
  <2>3. own' \in [Procs -> Owns] /\ own'[p] = r /\ \A q \in Procs \ {p} : own'[q] = own[q]
    BY <2>1, <2>2
  <2> QED BY <2>1, <2>3 DEF Kept
<1>6. ASSUME NEW v \in SUBSET Messages, own' = [own EXCEPT ![p].shown = v]
      PROVE  Kept(p, "shown")
  <2> DEFINE r == [own[p] EXCEPT !.shown = v]
  <2>1. /\ r \in Owns
        /\ r.mem = own[p].mem /\ r.latest = own[p].latest /\ r.candidate = own[p].candidate /\
           r.outcome = own[p].outcome /\ r.uploaded = own[p].uploaded /\ r.wrote = own[p].wrote
    BY <1>0 DEF Owns
  <2>2. own' = [own EXCEPT ![p] = r]
    BY <1>6
  <2> HIDE DEF r
  <2>3. own' \in [Procs -> Owns] /\ own'[p] = r /\ \A q \in Procs \ {p} : own'[q] = own[q]
    BY <2>1, <2>2
  <2> QED BY <2>1, <2>3 DEF Kept
<1>7. ASSUME NEW v \in BOOLEAN, own' = [own EXCEPT ![p].installed = v]
      PROVE  Kept(p, "installed")
  <2> DEFINE r == [own[p] EXCEPT !.installed = v]
  <2>1. /\ r \in Owns
        /\ r.mem = own[p].mem /\ r.latest = own[p].latest /\ r.candidate = own[p].candidate /\
           r.outcome = own[p].outcome /\ r.uploaded = own[p].uploaded /\ r.wrote = own[p].wrote
    BY <1>0 DEF Owns
  <2>2. own' = [own EXCEPT ![p] = r]
    BY <1>7
  <2> HIDE DEF r
  <2>3. own' \in [Procs -> Owns] /\ own'[p] = r /\ \A q \in Procs \ {p} : own'[q] = own[q]
    BY <2>1, <2>2
  <2> QED BY <2>1, <2>3 DEF Kept
<1>8. ASSUME NEW v \in 0 .. MAX_RETRIES, own' = [own EXCEPT ![p].polls = v]
      PROVE  Kept(p, "polls")
  <2> DEFINE r == [own[p] EXCEPT !.polls = v]
  <2>1. /\ r \in Owns
        /\ r.mem = own[p].mem /\ r.latest = own[p].latest /\ r.candidate = own[p].candidate /\
           r.outcome = own[p].outcome /\ r.uploaded = own[p].uploaded /\ r.wrote = own[p].wrote
    BY <1>0 DEF Owns
  <2>2. own' = [own EXCEPT ![p] = r]
    BY <1>8
  <2> HIDE DEF r
  <2>3. own' \in [Procs -> Owns] /\ own'[p] = r /\ \A q \in Procs \ {p} : own'[q] = own[q]
    BY <2>1, <2>2
  <2> QED BY <2>1, <2>3 DEF Kept
<1>9. ASSUME NEW v \in Tokens, own' = [own EXCEPT ![p].candidate = v]
      PROVE  Kept(p, "candidate")
  <2> DEFINE r == [own[p] EXCEPT !.candidate = v]
  <2>1. /\ r \in Owns
        /\ r.mem = own[p].mem /\ r.latest = own[p].latest /\ r.outcome = own[p].outcome /\
           r.uploaded = own[p].uploaded /\ r.wrote = own[p].wrote
    BY <1>0 DEF Owns
  <2>2. own' = [own EXCEPT ![p] = r]
    BY <1>9
  <2> HIDE DEF r
  <2>3. own' \in [Procs -> Owns] /\ own'[p] = r /\ \A q \in Procs \ {p} : own'[q] = own[q]
    BY <2>1, <2>2
  <2> QED BY <2>1, <2>3 DEF Kept
<1>10. ASSUME NEW v \in SUBSET Tokens, own' = [own EXCEPT ![p].wrote = v]
      PROVE  Kept(p, "wrote")
  <2> DEFINE r == [own[p] EXCEPT !.wrote = v]
  <2>1. /\ r \in Owns
        /\ r.mem = own[p].mem /\ r.latest = own[p].latest /\ r.candidate = own[p].candidate /\
           r.outcome = own[p].outcome /\ r.uploaded = own[p].uploaded
    BY <1>0 DEF Owns
  <2>2. own' = [own EXCEPT ![p] = r]
    BY <1>10
  <2> HIDE DEF r
  <2>3. own' \in [Procs -> Owns] /\ own'[p] = r /\ \A q \in Procs \ {p} : own'[q] = own[q]
    BY <2>1, <2>2
  <2> QED BY <2>1, <2>3 DEF Kept
<1>11. ASSUME NEW v \in Outcomes, own' = [own EXCEPT ![p].outcome = v]
      PROVE  Kept(p, "outcome")
  <2> DEFINE r == [own[p] EXCEPT !.outcome = v]
  <2>1. /\ r \in Owns
        /\ r.mem = own[p].mem /\ r.latest = own[p].latest /\ r.candidate = own[p].candidate /\
           r.uploaded = own[p].uploaded /\ r.wrote = own[p].wrote
    BY <1>0 DEF Owns
  <2>2. own' = [own EXCEPT ![p] = r]
    BY <1>11
  <2> HIDE DEF r
  <2>3. own' \in [Procs -> Owns] /\ own'[p] = r /\ \A q \in Procs \ {p} : own'[q] = own[q]
    BY <2>1, <2>2
  <2> QED BY <2>1, <2>3 DEF Kept
<1>12. ASSUME NEW v \in SUBSET Uploads, own' = [own EXCEPT ![p].uploaded = v]
      PROVE  Kept(p, "uploaded")
  <2> DEFINE r == [own[p] EXCEPT !.uploaded = v]
  <2>1. /\ r \in Owns
        /\ r.mem = own[p].mem /\ r.latest = own[p].latest /\ r.candidate = own[p].candidate /\
           r.outcome = own[p].outcome /\ r.wrote = own[p].wrote
    BY <1>0 DEF Owns
  <2>2. own' = [own EXCEPT ![p] = r]
    BY <1>12
  <2> HIDE DEF r
  <2>3. own' \in [Procs -> Owns] /\ own'[p] = r /\ \A q \in Procs \ {p} : own'[q] = own[q]
    BY <2>1, <2>2
  <2> QED BY <2>1, <2>3 DEF Kept
<1> QED
  BY <1>1, <1>2, <1>3, <1>4, <1>5, <1>6, <1>7, <1>8, <1>9, <1>10, <1>11, <1>12

LEMMA AnswerTypes == FirstApp \in Answers /\ NextApp \in Answers /\ NoCache \in Answers
<1>1. ASSUME NEW a \in {FirstApp, NextApp} PROVE a \in Answers
  <2>1. a = [stamp |-> None, banners |-> a.banners, msg |-> a.msg, len |-> a.len, json |-> TRUE]
    BY CommandAssumption
  <2> DEFINE b == a.banners
             m == a.msg
             n == a.len
  <2>2. /\ b \in {{}, FirstApp.banners, NextApp.banners, {TornBanner}}
        /\ m \in {None, "torn", FirstApp.msg, NextApp.msg} /\ n \in {0, FirstApp.len, NextApp.len}
    OBVIOUS
  <2>3. [stamp |-> None, banners |-> b, msg |-> m, len |-> n, json |-> TRUE] \in Answers
    <3> HIDE DEF b, m, n
    <3> QED BY <2>2 DEF Answers
  <2> QED BY <2>1, <2>3
<1> QED BY <1>1 DEF NoCache, Answers

(* Who changes what a command holds, and the files.                        *)
Changes(p) ==
  /\ own' \in [Procs -> Owns] /\ \A q \in Procs \ {p} : own'[q] = own[q]
  /\ own'[p].mem # own[p].mem => ReadSettings(p) \/ SaveToken(p) \/ Claim(p)
  /\ own'[p].latest # own[p].latest => ReadCache(p) \/ Fetch(p)
  /\ own'[p].candidate # own[p].candidate => pc'[p] = "save token"
  /\ own'[p].outcome # own[p].outcome => RunScan(p) \/ Validate(p) \/ Ci(p)
  /\ own'[p].uploaded # own[p].uploaded => Publish(p)
  /\ own[p].wrote \subseteq own'[p].wrote
  /\ settings' # settings => Replace(p)
  /\ (notified => notified') /\ (muted => muted')
  /\ cache' # cache => OpenCache(p) \/ WriteCache(p)
  /\ pro' # pro => Install(p)
  /\ UNCHANGED <<home, app>>

LEMMA HoldStep ==
  ASSUME IInv, NEW p \in Procs, Act(p)
  PROVE  Changes(p)
<1>0. /\ own \in [Procs -> Owns] /\ own[p] \in Owns /\ Answered /\ Typed /\ Sound
      /\ DOMAIN pc = Procs
  BY DEF IInv, Typed
<1>a. cmd(p).app_token \in Tokens /\ cmd(p).request \in Tokens /\ None \in Tokens
  BY DEF Tokens, cmd
<1>d. cache \in Answers /\ app \in Answers
  BY <1>0, AnswerTypes DEF Typed
<1>e. NoAnswer \in Answers
  BY DEF NoAnswer, NoCache, Answers
<1>f. \A s \in FirstSettings : s \in [api_token : Tokens, shown : BOOLEAN]
  <2> SUFFICES ASSUME NEW s \in FirstSettings PROVE s \in [api_token : Tokens, shown : BOOLEAN]
    OBVIOUS
  <2>1. s = [api_token |-> s.api_token, shown |-> s.shown] /\ s.shown \in BOOLEAN
    BY CommandAssumption DEF FirstSettings
  <2>2. s.api_token \in Tokens
    BY DEF Tokens
  <2> DEFINE t == s.api_token
             b == s.shown
  <2>3. [api_token |-> t, shown |-> b] \in [api_token : Tokens, shown : BOOLEAN]
    <3> HIDE DEF t, b
    <3>1. t \in Tokens /\ b \in BOOLEAN
      BY <2>1, <2>2 DEF t, b
    <3> QED BY <3>1
  <2> QED BY <2>1, <2>3
<1>b. Token(p) \in Tokens
  BY <1>0, <1>a DEF Token, Owns
<1>c. \A o \in cmd(p).outcomes : o \in Outcomes
  <2> SUFFICES ASSUME NEW o \in cmd(p).outcomes PROVE o \in Outcomes
    OBVIOUS
  <2>1. o = [found |-> o.found, code |-> o.code] /\ o.code \in (0 .. 13) \ {FINDINGS}
    BY <1>0, CommandAssumption DEF Typed, cmd
  <2>2. o.found \in Founds
    BY DEF Founds
  <2> QED BY <2>1, <2>2 DEF Outcomes
<1>1. CASE Main(p)
  BY <1>0, <1>1 DEF Main, Changes, files
<1>2. CASE ExecOsemgrep(p)
  BY <1>0, <1>2 DEF ExecOsemgrep, Changes, files
<1>3. CASE Core(p)
  BY <1>0, <1>3 DEF Core, Changes, files
<1>4. CASE AutoInstall(p)
  BY <1>0, <1>4 DEF AutoInstall, Changes, files
<1>5. CASE Save(p)
  BY <1>0, <1>5 DEF Save, Changes, files
<1>6. CASE Saved(p)
  BY <1>0, <1>6 DEF Saved, Changes, files
<1>7. CASE Scan(p)
  BY <1>0, <1>7 DEF Scan, Changes, files
<1>8. CASE OpenCache(p)
  BY <1>0, <1>8 DEF OpenCache, Changes, files
<1>9. CASE WriteCache(p)
  BY <1>0, <1>9 DEF WriteCache, Changes, files
<1>10. CASE TestConfigs(p)
  BY <1>0, <1>10 DEF TestConfigs, Changes, files
<1>11. CASE TestCompare(p)
  BY <1>0, <1>11 DEF TestCompare, Changes, files
<1>12. CASE EndTests(p)
  BY <1>0, <1>12 DEF EndTests, Changes, files
<1>13. CASE Kill(p)
  BY <1>0, <1>13 DEF Kill, Changes, files
<1>14. CASE \E w \in DOMAIN test[p].fixer : FixScan(p, w) \/ FixRead(p, w) \/ FixWrite(p, w)
  <2>1. UNCHANGED <<files, own, notified, muted>>
    BY <1>14 DEF FixScan, FixRead, FixWrite, FixStep
  <2> QED BY <1>0, <2>1 DEF Changes, files
<1>15. CASE Install(p)
  <2>1. /\ own' = own \/ \E v \in BOOLEAN : own' = [own EXCEPT ![p].installed = v]
        /\ UNCHANGED <<home, settings, cache, app, notified, muted>>
    BY <1>15 DEF Install, Hold
  <2>2. Kept(p, "installed")
    <3>1. own' = own => Kept(p, "installed")
      BY <1>0 DEF Kept
    <3> QED BY <1>0, <2>1, <3>1, Held
  <2> QED BY <1>0, <1>15, <2>1, <2>2 DEF Changes, Kept, files
<1>16. CASE ReadSettings(p)
  <2>0. (IF settings \in {NoFile, NotMapping} THEN DefaultSettings ELSE settings) \in [api_token : Tokens, shown : BOOLEAN]
    <3>1. DefaultSettings \in [api_token : Tokens, shown : BOOLEAN]
      BY <1>a DEF DefaultSettings
    <3> QED BY <1>0, <1>f, <3>1 DEF Typed
  <2>1. /\ own' = own \/ \E v \in [api_token : Tokens, shown : BOOLEAN] : own' = [own EXCEPT ![p].mem = v]
        /\ UNCHANGED <<files, notified, muted>>
    BY <1>0, <2>0, <1>16 DEF ReadSettings, Hold
  <2>2. Kept(p, "mem")
    <3>1. own' = own => Kept(p, "mem")
      BY <1>0 DEF Kept
    <3> QED BY <1>0, <2>1, <3>1, Held
  <2> QED BY <1>0, <1>16, <2>1, <2>2 DEF Changes, Kept, files
<1>17. CASE Replace(p)
  <2>1. /\ own' = [own EXCEPT ![p].wrote = own[p].wrote \cup {own[p].mem.api_token}]
        /\ UNCHANGED <<home, cache, app, pro, notified, muted>>
    BY <1>17 DEF Replace, Hold
  <2>2. own[p].wrote \cup {own[p].mem.api_token} \in SUBSET Tokens
    BY <1>0 DEF Owns
  <2>3. Kept(p, "wrote")
    BY <1>0, <2>1, <2>2, Held
  <2>4. own[p].wrote \subseteq own'[p].wrote
    <3> DEFINE w == own[p].wrote \cup {own[p].mem.api_token}
    <3>1. own'[p].wrote = w
      <4> HIDE DEF w
      <4>1. DOMAIN own[p] = DOMAIN Fresh /\ "wrote" \in DOMAIN own[p]
        BY <1>0 DEF Owns, Fresh
      <4> QED BY <1>0, <2>1, <4>1 DEF w
    <3> QED BY <3>1
  <2> QED BY <1>17, <2>1, <2>3, <2>4 DEF Changes, Kept
<1>18. CASE Authenticate(p)
  <2>1. /\ own' = own \/ \E v \in Tokens : own' = [own EXCEPT ![p].token = v]
        /\ UNCHANGED <<files, notified, muted>>
    BY <1>b, <1>18 DEF Authenticate, Hold
  <2>2. Kept(p, "token")
    <3>1. own' = own => Kept(p, "token")
      BY <1>0 DEF Kept
    <3> QED BY <1>0, <2>1, <3>1, Held
  <2> QED BY <1>0, <1>18, <2>1, <2>2 DEF Changes, Kept, files
<1>19. CASE Login(p)
  <2>1. /\ own' = own \/ \E v \in Tokens : own' = [own EXCEPT ![p].candidate = v]
        /\ UNCHANGED <<files, notified, muted>>
    BY <1>a, <1>19 DEF Login, Hold
  <2>2. Kept(p, "candidate")
    <3>1. own' = own => Kept(p, "candidate")
      BY <1>0 DEF Kept
    <3> QED BY <1>0, <2>1, <3>1, Held
  <2>3. own' = own \/ pc'[p] = "save token"
    BY <1>0, <1>19 DEF Login, Hold, Goto
  <2> QED BY <1>0, <1>19, <2>1, <2>2, <2>3 DEF Changes, Kept, files
<1>20. CASE Poll(p)
  <2>1. /\ \/ own' = own
           \/ own[p].polls < MAX_RETRIES /\ own' = [own EXCEPT ![p].polls = own[p].polls + 1]
           \/ own' = [own EXCEPT ![p].candidate = cmd(p).request] /\ pc'[p] = "save token"
        /\ UNCHANGED <<files, notified, muted>>
    BY <1>0, <1>20 DEF Poll, Hold, Goto
  <2>2. own[p].polls \in 0 .. MAX_RETRIES /\ MAX_RETRIES \in Nat
    BY <1>0, CommandAssumption DEF Owns
  <2>3. own[p].polls < MAX_RETRIES => own[p].polls + 1 \in 0 .. MAX_RETRIES
    BY <2>2
  <2>4. CASE own' = own
    BY <1>0, <2>1, <2>4 DEF Changes, files
  <2>5. CASE own[p].polls < MAX_RETRIES /\ own' = [own EXCEPT ![p].polls = own[p].polls + 1]
    <3>1. Kept(p, "polls")
      BY <1>0, <2>3, <2>5, Held
    <3> QED BY <2>1, <3>1 DEF Changes, Kept, files
  <2>6. CASE own' = [own EXCEPT ![p].candidate = cmd(p).request] /\ pc'[p] = "save token"
    <3>1. Kept(p, "candidate")
      BY <1>0, <1>a, <2>6, Held
    <3> QED BY <2>1, <2>6, <3>1 DEF Changes, Kept, files
  <2> QED BY <2>1, <2>4, <2>5, <2>6
<1>21. CASE SaveToken(p)
  <2>0. own[p].candidate \in Tokens
    BY <1>0 DEF Owns
  <2>1. /\ own' = own \/ \E v \in Tokens : own' = [own EXCEPT ![p].mem.api_token = v]
        /\ UNCHANGED <<files, notified, muted>>
    BY <2>0, <1>21 DEF SaveToken, Hold
  <2>2. Kept(p, "mem")
    <3>1. own' = own => Kept(p, "mem")
      BY <1>0 DEF Kept
    <3> QED BY <1>0, <2>1, <3>1, Held
  <2> QED BY <1>0, <1>21, <2>1, <2>2 DEF Changes, Kept, files
<1>22. CASE Publish(p)
  <2>1. /\ own' = own \/ \E v \in SUBSET Uploads : own' = [own EXCEPT ![p].uploaded = v]
        /\ UNCHANGED <<files, notified, muted>>
    BY <1>22 DEF Publish, Hold, Publishable, Uploads
  <2>2. Kept(p, "uploaded")
    <3>1. own' = own => Kept(p, "uploaded")
      BY <1>0 DEF Kept
    <3> QED BY <1>0, <2>1, <3>1, Held
  <2> QED BY <1>0, <1>22, <2>1, <2>2 DEF Changes, Kept, files
<1>23. CASE Claim(p)
  <2>1. own' = [own EXCEPT ![p].mem.shown = TRUE] /\ UNCHANGED <<files, notified, muted>>
    BY <1>23 DEF Claim
  <2>2. Kept(p, "mem")
    BY <1>0, <2>1, Held
  <2> QED BY <1>23, <2>1, <2>2 DEF Changes, Kept, files
<1>30. CASE Notify(p)
  BY <1>0, <1>30 DEF Notify, Changes, files
<1>31. CASE Ci(p)
  <2>1. /\ own' = own \/ \E v \in Outcomes : own' = [own EXCEPT ![p].outcome = v]
        /\ UNCHANGED <<files, notified, muted>>
    BY <1>c, <1>31 DEF Ci, Hold
  <2>2. Kept(p, "outcome")
    <3>1. own' = own => Kept(p, "outcome")
      BY <1>0 DEF Kept
    <3> QED BY <1>0, <2>1, <3>1, Held
  <2> QED BY <1>0, <1>31, <2>1, <2>2 DEF Changes, Kept, files
<1>24. CASE RunScan(p)
  <2>1. /\ own' = own \/ \E v \in Outcomes : own' = [own EXCEPT ![p].outcome = v]
        /\ UNCHANGED <<files, notified, muted>>
    BY <1>c, <1>24 DEF RunScan, Hold
  <2>2. Kept(p, "outcome")
    <3>1. own' = own => Kept(p, "outcome")
      BY <1>0 DEF Kept
    <3> QED BY <1>0, <2>1, <3>1, Held
  <2> QED BY <1>0, <1>24, <2>1, <2>2 DEF Changes, Kept, files
<1>25. CASE Validate(p)
  <2>0. \A o \in cmd(p).outcomes : [found |-> None, code |-> o.code] \in Outcomes
    BY <1>c DEF Outcomes, Founds
  <2>1. /\ own' = own \/ \E v \in Outcomes : own' = [own EXCEPT ![p].outcome = v]
        /\ UNCHANGED <<files, notified, muted>>
    BY <1>c, <2>0, <1>25 DEF Validate, Hold
  <2>2. Kept(p, "outcome")
    <3>1. own' = own => Kept(p, "outcome")
      BY <1>0 DEF Kept
    <3> QED BY <1>0, <2>1, <3>1, Held
  <2> QED BY <1>0, <1>25, <2>1, <2>2 DEF Changes, Kept, files
<1>26. CASE ReadCache(p)
  <2>1. /\ own' = own \/ \E v \in Answers : own' = [own EXCEPT ![p].latest = v]
        /\ UNCHANGED <<files, notified, muted>>
    BY <1>d, <1>e, <1>26 DEF ReadCache, Hold
  <2>2. Kept(p, "latest")
    <3>1. own' = own => Kept(p, "latest")
      BY <1>0 DEF Kept
    <3> QED BY <1>0, <2>1, <3>1, Held
  <2> QED BY <1>0, <1>26, <2>1, <2>2 DEF Changes, Kept, files
<1>27. CASE Fetch(p)
  <2>1. /\ own' = own \/ \E v \in Answers : own' = [own EXCEPT ![p].latest = v]
        /\ UNCHANGED <<files, notified, muted>>
    BY <1>d, <1>27 DEF Fetch, Hold
  <2>2. Kept(p, "latest")
    <3>1. own' = own => Kept(p, "latest")
      BY <1>0 DEF Kept
    <3> QED BY <1>0, <2>1, <3>1, Held
  <2> QED BY <1>0, <1>27, <2>1, <2>2 DEF Changes, Kept, files
<1>28. CASE ShowBanners(p)
  <2>0. own[p].shown \cup {b.msg : b \in {f \in FilteredBanners(own[p].latest) : ~f.conditional}} \in SUBSET Messages
    <3>1. \A b \in FilteredBanners(own[p].latest) : b.msg \in Messages
      BY <1>0, Heard
    <3>2. own[p].shown \subseteq Messages
      BY <1>0 DEF Owns
    <3> QED BY <3>1, <3>2
  <2>1. /\ own' = own \/ \E v \in SUBSET Messages : own' = [own EXCEPT ![p].shown = v]
        /\ UNCHANGED <<files, notified, muted>>
    BY <2>0, <1>28 DEF ShowBanners, Hold, Shows
  <2>2. Kept(p, "shown")
    <3>1. own' = own => Kept(p, "shown")
      BY <1>0 DEF Kept
    <3> QED BY <1>0, <2>1, <3>1, Held
  <2> QED BY <1>0, <1>28, <2>1, <2>2 DEF Changes, Kept, files
<1>29. CASE LogFindings(p)
  <2> DEFINE latest == own[p].latest
             some == IF latest = NoAnswer THEN {}
                     ELSE IF pc[p] = "no findings" THEN {latest.msg}
                     ELSE {b.msg : b \in {f \in FilteredBanners(latest) : f.conditional}}
             v == own[p].shown \cup some
  <2>1. own' = [own EXCEPT ![p].shown = v] /\ UNCHANGED <<files, notified, muted>>
    BY <1>29 DEF LogFindings, Shows, Hold
  <2>2. v \in SUBSET Messages
    <3>1. /\ latest # NoAnswer => latest.msg \in Messages
          /\ \A b \in FilteredBanners(latest) : b.msg \in Messages
      BY <1>0, Heard
    <3>2. own[p].shown \subseteq Messages
      BY <1>0 DEF Owns
    <3> HIDE DEF latest
    <3>3. some \subseteq Messages
      BY <3>1
    <3> QED BY <3>2, <3>3
  <2> HIDE DEF v
  <2>3. Kept(p, "shown")
    BY <1>0, <2>1, <2>2, Held
  <2> QED BY <2>1, <2>3 DEF Changes, Kept, files
<1> QED
  BY <1>1, <1>2, <1>3, <1>4, <1>5, <1>6, <1>7, <1>8, <1>9, <1>10, <1>11, <1>12, <1>13, <1>14,
     <1>15, <1>16, <1>17, <1>18, <1>19, <1>20, <1>21, <1>22, <1>23, <1>24, <1>25, <1>26, <1>27,
     <1>28, <1>29, <1>30, <1>31
  DEF Act

(* What an assignment to one field leaves there.                           *)
LEMMA Put ==
  ASSUME own \in [Procs -> Owns], NEW p \in Procs, NEW v
  PROVE  /\ own' = [own EXCEPT ![p].mem = v] => own'[p].mem = v
         /\ own' = [own EXCEPT ![p].mem.api_token = v] =>
              own'[p].mem.api_token = v /\ own'[p].mem.shown = own[p].mem.shown
         /\ own' = [own EXCEPT ![p].mem.shown = v] =>
              own'[p].mem.api_token = own[p].mem.api_token /\ own'[p].mem.shown = v
         /\ own' = [own EXCEPT ![p].latest = v] => own'[p].latest = v
         /\ own' = [own EXCEPT ![p].candidate = v] => own'[p].candidate = v
         /\ own' = [own EXCEPT ![p].outcome = v] => own'[p].outcome = v
         /\ own' = [own EXCEPT ![p].uploaded = v] => own'[p].uploaded = v
         /\ own' = [own EXCEPT ![p].wrote = v] => own'[p].wrote = v
<1>1. DOMAIN own[p] = {"mem", "token", "latest", "shown", "installed", "polls", "candidate", "wrote",
                       "outcome", "uploaded"}
      /\ DOMAIN own[p].mem = {"api_token", "shown"} /\ DOMAIN own = Procs
  BY DEF Owns
<1> QED BY <1>1

LEMMA TokensOfFiles == Torn.api_token \notin FirstTokens /\ None \in FirstTokens /\ Accepted \subseteq FirstTokens
BY CommandAssumption DEF FirstTokens, FirstSettings, Torn, None

(* The settings stay sound, for a command saves only what it read and what *)
(* it may have changed.                                                    *)
LEMMA SoundStep ==
  ASSUME IInv, NEW p \in Procs, Act(p)
  PROVE  Sound'
<1>0. Sound /\ own \in [Procs -> Owns] /\ Changes(p) /\ Onward(p) /\ Others(p)
  BY HoldStep, FlowStep DEF IInv, Typed
<1>1. own'[p].mem.api_token \in FirstTokens /\ (own'[p].mem.shown => (notified \/ muted)')
  <2>1. CASE own'[p].mem = own[p].mem
    BY <1>0, <2>1 DEF Sound, Changes
  <2>2. CASE ReadSettings(p)
    <3>1. own' = own \/ own' = [own EXCEPT ![p].mem = DefaultSettings] \/ own' = [own EXCEPT ![p].mem = settings]
      BY <2>2 DEF ReadSettings, Hold
    <3>2. own' = own \/ own'[p].mem = DefaultSettings \/ own'[p].mem = settings
      BY <1>0, <3>1, Put
    <3>3. settings.api_token \in FirstTokens /\ (settings.shown => notified \/ muted)
      BY <1>0 DEF Sound, SettingsAreSound, FirstTokens
    <3>4. DefaultSettings.api_token \in FirstTokens /\ DefaultSettings.shown = FALSE
      BY TokensOfFiles DEF DefaultSettings
    <3> QED BY <1>0, <3>2, <3>3, <3>4 DEF Sound, Changes
  <2>3. CASE SaveToken(p)
    <3>1. \/ own' = own
          \/ (own[p].candidate \in Accepted /\ own' = [own EXCEPT ![p].mem.api_token = own[p].candidate])
      BY <2>3, Zenon DEF SaveToken
    <3>2. \/ own' = own
          \/ /\ own[p].candidate \in Accepted /\ own'[p].mem.api_token = own[p].candidate
             /\ own'[p].mem.shown = own[p].mem.shown
      BY <1>0, <3>1, Put
    <3> QED BY <1>0, <3>2, TokensOfFiles DEF Sound, Changes
  <2>4. CASE Claim(p)
    <3>1. own' = [own EXCEPT ![p].mem.shown = TRUE] /\ pc[p] = "claim"
      BY <2>4 DEF Claim, At
    <3>2. own'[p].mem.api_token = own[p].mem.api_token
      BY <1>0, <3>1, Put
    <3> QED BY <1>0, <3>1, <3>2 DEF Sound, Changes
  <2> QED BY <1>0, <2>1, <2>2, <2>3, <2>4 DEF Changes
<1>2. SettingsAreSound'
  <2>1. CASE settings' = settings
    BY <1>0, <2>1 DEF Sound, SettingsAreSound, Changes, FirstSettings
  <2>2. CASE Replace(p)
    <3>1. settings' = own[p].mem
      BY <2>2 DEF Replace
    <3>2. own[p].mem.api_token \in FirstTokens /\ (own[p].mem.shown => (notified \/ muted)')
      BY <1>0 DEF Sound, Changes
    <3> QED BY <3>1, <3>2, TokensOfFiles DEF SettingsAreSound, FirstTokens, FirstSettings
  <2> QED BY <1>0, <2>1, <2>2 DEF Changes
<1>3. \A q \in Procs \ {p} : own'[q].mem.api_token \in FirstTokens /\ (own'[q].mem.shown \/ pc'[q] = "claim" => (notified \/ muted)')
  BY <1>0 DEF Sound, Changes, Others
<1>4. pc'[p] = "claim" => (notified \/ muted)'
  <2> SUFFICES ASSUME pc'[p] = "claim" PROVE (notified \/ muted)'
    OBVIOUS
  <2>1. Notify(p)
    BY <1>0 DEF Onward
  <2>2. CASE MetricsEnabled(p) /\ ~own[p].mem.shown
    <3>1. notified' = (notified \/ ~cmd(p).quiet) /\ muted' = (muted \/ cmd(p).quiet)
      BY <2>1, <2>2 DEF Notify
    <3> QED BY <3>1, Zenon
  <2>3. CASE ~(MetricsEnabled(p) /\ ~own[p].mem.shown)
    <3>1. Goto(p, Phase(p))
      BY <2>1, <2>3 DEF Notify
    <3>2. Typed /\ pc[p] = "notify" /\ Flow(p)
      BY <2>1 DEF IInv, Notify, At
    <3>3. Phase(p) # "claim"
      BY <3>2 DEF Flow, FlowAt, Phase
    <3>4. pc'[p] = Phase(p)
      BY <3>1, <3>2, Moving DEF Moves
    <3> QED BY <3>3, <3>4
  <2> QED BY <2>2, <2>3
<1> QED BY <1>1, <1>2, <1>3, <1>4 DEF Sound, FirstTokens, FirstSettings

(* What is read from the cache as an answer is a whole one, whoever wrote  *)
(* it last.                                                                *)
LEMMA AnswerStep ==
  ASSUME IInv, NEW p \in Procs, Act(p)
  PROVE  Answered' /\ cache' \in Answers
<1>0. Answered /\ own \in [Procs -> Owns] /\ own[p].latest \in Answers /\ cache \in Answers /\ Changes(p)
      /\ app \in {FirstApp, NextApp}
  BY HoldStep DEF IInv, Typed, Owns
<1>1. cache' \in Answers /\ (cache'.json => Whole(cache'))
  <2>1. CASE cache' = cache
    BY <1>0, <2>1 DEF Answered
  <2>2. CASE OpenCache(p)
    <3>1. cache' = NoCache \/ cache' = cache
      BY <2>2 DEF OpenCache
    <3>2. NoCache.json = FALSE
      BY DEF NoCache
    <3> QED BY <2>1, <3>1, <3>2, AnswerTypes
  <2>3. CASE WriteCache(p)
    <3> DEFINE latest == own[p].latest
               new == [latest EXCEPT !.stamp = "fresh"]
               torn == [cache EXCEPT !.banners = {TornBanner}, !.msg = "torn", !.json = FALSE]
    <3>1. cache' = new \/ cache' = torn
      BY <2>3 DEF WriteCache
    <3>2. latest \in Answers /\ (latest = NoAnswer \/ Whole(latest))
      BY <1>0 DEF Answered
    <3>3. new \in Answers /\ (new.json => Whole(new))
      <4> HIDE DEF latest
      <4>1. new \in Answers /\ new.msg = latest.msg /\ new.banners = latest.banners /\ new.json = latest.json
        BY <3>2 DEF Answers
      <4>2. latest = NoAnswer => ~latest.json
        BY DEF NoAnswer, NoCache
      <4> QED BY <3>2, <4>1, <4>2 DEF Whole
    <3>4. torn \in Answers /\ torn.json = FALSE
      BY <1>0 DEF Answers
    <3> HIDE DEF new, torn
    <3> QED BY <3>1, <3>3, <3>4
  <2> QED BY <1>0, <2>1, <2>2, <2>3 DEF Changes
<1>2. own'[p].latest = NoAnswer \/ Whole(own'[p].latest)
  <2>1. CASE own'[p].latest = own[p].latest
    BY <1>0, <2>1 DEF Answered
  <2>2. CASE ReadCache(p)
    <3> DEFINE cached == IF cache.stamp = "fresh" /\ cache.json THEN cache ELSE NoAnswer
    <3>1. own' = [own EXCEPT ![p].latest = cached]
      BY <2>2 DEF ReadCache, Hold
    <3>2. own'[p].latest = cached
      <4> HIDE DEF cached
      <4> QED BY <1>0, <3>1, Put
    <3> QED BY <1>0, <3>2 DEF Answered
  <2>3. CASE Fetch(p)
    <3>1. own' = own \/ own' = [own EXCEPT ![p].latest = app]
      BY <2>3 DEF Fetch, Hold
    <3>2. own' = own \/ own'[p].latest = app
      BY <1>0, <3>1, Put
    <3> QED BY <1>0, <3>2 DEF Answered, Whole
  <2> QED BY <1>0, <2>1, <2>2, <2>3 DEF Changes
<1> QED BY ZenonT(40), <1>0, <1>1, <1>2 DEF Answered, Changes, Whole

(* A login saves the token that the app accepted, and nothing else.        *)
LEMMA LoginStep ==
  ASSUME IInv, NEW p \in Procs, Act(p)
  PROVE  \A q \in Procs : LoggingIn(q)'
<1>0. /\ \A q \in Procs : LoggingIn(q)
      /\ own \in [Procs -> Owns] /\ DOMAIN pc = Procs /\ UNCHANGED home
      /\ Changes(p) /\ Onward(p) /\ Others(p) /\ Flowing'
  BY HoldStep, FlowStep DEF IInv, Typed, Changes
<1>1. ASSUME NEW q \in Procs \ {p} PROVE LoggingIn(q)'
  <2>1. own'[q] = own[q] /\ pc'[q] = pc[q] /\ back'[q] = back[q] /\ LoggingIn(q) /\ UNCHANGED home
    BY <1>0 DEF Changes, Others
  <2> QED BY <2>1 DEF LoggingIn, Saving
<1>2. pc'[p] # "save token" => own'[p].candidate = own[p].candidate
  BY <1>0 DEF Changes
<1>3. LoggingIn(p)'
  <2>1. pc'[p] \notin {"save token", "saved", "done", "killed"} /\ ~Saving(p)' => own'[p].candidate = None
    BY <1>0, <1>2 DEF LoggingIn, Onward
  <2>2. Saving(p)' \/ pc'[p] = "saved" =>
          own'[p].candidate = own'[p].mem.api_token /\ own'[p].candidate \in Accepted
    <3> SUFFICES ASSUME Saving(p)' \/ pc'[p] = "saved"
        PROVE  own'[p].candidate = own'[p].mem.api_token /\ own'[p].candidate \in Accepted
      OBVIOUS
    <3>1. pc'[p] \notin {"save token", "done"}
      BY DEF Saving
    <3>2. CASE SaveToken(p)
      <4>1. own[p].candidate \in Accepted /\ own' = [own EXCEPT ![p].mem.api_token = own[p].candidate]
        BY <1>0, <3>1, <3>2 DEF SaveToken, Leave
      <4>2. own'[p].mem.api_token = own[p].candidate
        BY <1>0, <4>1, Put
      <4> QED BY <1>2, <3>1, <4>1, <4>2
    <3>3. CASE Saving(p)
      <4>1. ~ReadSettings(p) /\ ~SaveToken(p) /\ ~Claim(p)
        BY <3>3 DEF Saving, ReadSettings, SaveToken, Claim, At
      <4> QED BY <1>0, <1>2, <3>1, <3>3, <4>1 DEF LoggingIn, Changes
    <3> QED BY <1>0, <3>2, <3>3 DEF Onward
  <2>3. pc'[p] = "saved" /\ home = "writable" => own'[p].candidate \in own'[p].wrote
    <3> SUFFICES ASSUME pc'[p] = "saved", home = "writable" PROVE own'[p].candidate \in own'[p].wrote
      OBVIOUS
    <3>1. Replace(p)
      BY <1>0 DEF Onward
    <3>2. Saving(p)
      BY <1>0, <3>1 DEF Onward, SaveToken, Replace, At
    <3>3. own'[p].wrote = own[p].wrote \cup {own[p].mem.api_token}
      BY <1>0, <3>1, Put DEF Replace, Hold
    <3> QED BY <1>0, <1>2, <3>2, <3>3 DEF LoggingIn
  <2> QED BY <1>0, <2>1, <2>2, <2>3 DEF LoggingIn
<1> QED BY <1>1, <1>3

(* Only a scan that succeeded goes on to the version check.                *)
LEMMA SucceedStep ==
  ASSUME IInv, NEW p \in Procs, Act(p)
  PROVE  \A q \in Procs : Succeeded(q)'
<1>0. /\ \A q \in Procs : Succeeded(q)
      /\ own \in [Procs -> Owns] /\ DOMAIN pc = Procs /\ UNCHANGED job /\ Flow(p)
      /\ Changes(p) /\ Onward(p) /\ Others(p) /\ Flowing'
  BY HoldStep, FlowStep DEF IInv, Typed
<1>1. \A q \in Procs : cmd(q)' = cmd(q)
  BY <1>0 DEF cmd
<1>2. ASSUME NEW q \in Procs \ {p} PROVE Succeeded(q)'
  <2>1. own'[q] = own[q] /\ pc'[q] = pc[q] /\ Succeeded(q) /\ cmd(q)' = cmd(q)
    BY <1>0, <1>1 DEF Changes, Others
  <2> QED BY <2>1 DEF Succeeded, Versions, Caching, Blocks
<1>3. Succeeded(p)'
  <2> DEFINE o1 == own'[p].outcome
  <2> SUFFICES ASSUME pc'[p] \in Versions \cup Caching
      PROVE  /\ cmd(p).name = "ci" \/ cmd(p).mode = "scan" => o1.code = OK
             /\ cmd(p).name = "scan" /\ cmd(p).mode = "scan" => ~Blocks(p, o1)
    BY <1>1 DEF Succeeded, Versions, Caching, Blocks
  <2>0. \A c : ~Leave(p, c)
    BY <1>0 DEF Leave, Versions, Caching
  <2>1. CASE pc[p] \in Versions \cup Caching
    <3>1. ~RunScan(p) /\ ~Validate(p) /\ ~Ci(p)
      BY <2>1 DEF RunScan, Validate, Ci, At, Versions, Caching
    <3> QED BY <1>0, <2>1, <3>1 DEF Changes, Succeeded
  <2>2. CASE RunScan(p)
    <3>1. PICK o \in cmd(p).outcomes :
            /\ own' = [own EXCEPT ![p].outcome = o]
            /\ \/ \E c : Leave(p, c)
               \/ ~Blocks(p, o) /\ o.code = OK
      BY <2>2, Zenon DEF RunScan, Hold
    <3>3. own'[p].outcome = o
      BY <1>0, <3>1, Put
    <3> QED BY <2>0, <3>1, <3>3
  <2>3. CASE Validate(p)
    <3>1. pc[p] = "validate" /\ FlowAt(p, pc[p], back[p], exit[p])
      BY <1>0, <2>3 DEF Flow, Validate, At
    <3>2. "validate" = Phase(p) /\ cmd(p).name = "scan"
      BY <3>1 DEF FlowAt
    <3> QED BY <3>2 DEF Phase
  <2>4. CASE Ci(p)
    <3>1. cmd(p).name = "ci"
      BY <1>0, <2>4 DEF Flow, FlowAt, Ci, At
    <3>2. PICK o \in cmd(p).outcomes : own' = [own EXCEPT ![p].outcome = o] /\ ((\E c : Leave(p, c)) \/ o.code = OK)
      BY <2>0, <2>4, Zenon DEF Ci, Hold
    <3>3. own'[p].outcome = o
      BY <1>0, <3>2, Put
    <3> QED BY <2>0, <3>1, <3>2, <3>3
  <2> QED BY <1>0, <2>1, <2>2, <2>3, <2>4 DEF Onward
<1> QED BY <1>2, <1>3

-----------------------------------------------------------------------------
(* The tests                                                               *)

Fixes(p) == \E w \in DOMAIN test[p].fixer : FixScan(p, w) \/ FixRead(p, w) \/ FixWrite(p, w)

LEMMA TestHeld ==
  ASSUME Typed, NEW p \in Procs, Act(p)
  PROVE  /\ DOMAIN test' = Procs /\ \A q \in Procs \ {p} : test'[q] = test[q]
         /\ test'[p] = test[p] \/ TestConfigs(p) \/ TestCompare(p) \/ Fixes(p)
<1>1. \/ test' = test
      \/ TestConfigs(p) \/ TestCompare(p) \/ Fixes(p)
  BY Zenon DEF Act, Fixes, Main, ExecOsemgrep, Core, AutoInstall, Install, ReadSettings, Save, Replace,
     Authenticate, Login, Poll, SaveToken, Saved, Publish, Ci, Scan, Notify, Claim, RunScan, Validate, ReadCache, Fetch,
     OpenCache, WriteCache, ShowBanners, LogFindings, EndTests, Kill
<1>2. TestConfigs(p) => test' = test \/ \E v : test' = [test EXCEPT ![p] = v]
  BY DEF TestConfigs
<1>3. TestCompare(p) => test' = test \/ \E v : test' = [test EXCEPT ![p] = v]
  BY DEF TestCompare
<1>4. Fixes(p) => \E v : test' = [test EXCEPT ![p] = v]
  <2> SUFFICES ASSUME NEW w \in DOMAIN test[p].fixer, FixScan(p, w) \/ FixRead(p, w) \/ FixWrite(p, w)
      PROVE  \E v : test' = [test EXCEPT ![p] = v]
    BY DEF Fixes
  <2> QED BY DEF FixScan, FixRead, FixWrite
<1>5. test' = test \/ \E v : test' = [test EXCEPT ![p] = v]
  BY <1>1, <1>2, <1>3, <1>4
<1>6. DOMAIN test = Procs
  BY DEF Typed
<1>7. DOMAIN test' = Procs /\ \A q \in Procs \ {p} : test'[q] = test[q]
  BY <1>5, <1>6
<1>8. test' = test => test'[p] = test[p]
  OBVIOUS
<1> QED BY <1>1, <1>7, <1>8

(* The files to fix are what the targets say.                              *)
LEMMA SamePairs ==
  ASSUME UNCHANGED job, NEW p \in Procs, test'[p].targets = test[p].targets
  PROVE  /\ Workers(p)' = Workers(p)
         /\ \A w : Alone(p, w)' = Alone(p, w) /\ TextOf(p, w)' = TextOf(p, w) /\ ToFix(p, w)' = ToFix(p, w)
<1>1. cmd(p)' = cmd(p)
  BY DEF cmd
<1>2. FixPairs(p)' = FixPairs(p)
  BY <1>1 DEF FixPairs
<1>3. \A w : TextOf(p, w)' = TextOf(p, w)
  BY <1>1 DEF TextOf
<1> QED BY <1>1, <1>2, <1>3 DEF Workers, Alone, ToFix

LEMMA WorkerIs ==
  ASSUME NEW p, NEW w \in Workers(p)
  PROVE  /\ w = <<w[1], w[2]>> /\ w[1] \in DOMAIN FixPairs(p)
         /\ \E pair \in FixPairs(p)[w[1]] : pair[1] = w[2]
         /\ w[1] \in DOMAIN test[p].targets /\ w[2] \in test[p].targets[w[1]]
<1>1. PICK c \in DOMAIN FixPairs(p) : \E pair \in FixPairs(p)[c] : w = <<c, pair[1]>>
  BY DEF Workers
<1>2. PICK pair \in FixPairs(p)[c] : w = <<c, pair[1]>>
  BY <1>1
<1>3. c \in DOMAIN test[p].targets /\ pair[1] \in test[p].targets[c]
  BY <1>1, <1>2 DEF FixPairs, GetConfigFixtestFilenames
<1> QED BY <1>1, <1>2, <1>3

(* What a worker w does: it becomes f, and the copies are c.               *)
Made(p, w, f, c) ==
  LET copies == test[p].copies
  IN  /\ DOMAIN test'[p] = DOMAIN test[p] /\ test'[p].targets = test[p].targets
      /\ test'[p].copies = c /\ DOMAIN c = DOMAIN copies /\ \A t \in DOMAIN copies \ {w[2]} : c[t] = copies[t]
      /\ test'[p].output = test[p].output
      /\ DOMAIN f = {"at", "lines", "text"}
      /\ DOMAIN test'[p].fixer = DOMAIN test[p].fixer /\ test'[p].fixer[w] = f
      /\ \A x \in DOMAIN test[p].fixer \ {w} : test'[p].fixer[x] = test[p].fixer[x]
      /\ \/ /\ Fixer(p, w).at = "scan" /\ f.at = "read" /\ c = copies
            /\ f.lines = LinesToFix(copies[w[2]], Fixing(cmd(p).tree[w[1]]))
         \/ Fixer(p, w).at = "scan" /\ f.at = "failed" /\ c = copies
         \/ /\ Fixer(p, w).at = "read" /\ f.at = "write" /\ c = copies
            /\ f.lines = Fixer(p, w).lines /\ f.text = copies[w[2]]
         \/ /\ Fixer(p, w).at = "write" /\ f.at = "done"
            /\ c[w[2]] = ApplyFixes(Fixer(p, w).text, Fixer(p, w).lines)

LEMMA Making ==
  ASSUME DOMAIN test = Procs, NEW p \in Procs, DOMAIN test[p] = {"targets", "output", "copies", "fixer"},
         NEW w \in DOMAIN test[p].fixer, DOMAIN Fixer(p, w) = {"at", "lines", "text"}, w[2] \in DOMAIN test[p].copies,
         FixScan(p, w) \/ FixRead(p, w) \/ FixWrite(p, w)
  PROVE  \E f, c : Made(p, w, f, c)
<1> DEFINE copies == test[p].copies
           fixer == test[p].fixer
           g == fixer[w]
<1>0. DOMAIN g = {"at", "lines", "text"}
  BY DEF Fixer
<1>1. ASSUME NEW f, NEW c,
             test' = [test EXCEPT ![p] = [test[p] EXCEPT !.copies = c, !.fixer = [fixer EXCEPT ![w] = f]]]
      PROVE  /\ DOMAIN test'[p] = DOMAIN test[p] /\ test'[p].targets = test[p].targets
             /\ test'[p].copies = c /\ test'[p].output = test[p].output
             /\ DOMAIN test'[p].fixer = DOMAIN test[p].fixer /\ test'[p].fixer[w] = f
             /\ \A x \in DOMAIN test[p].fixer \ {w} : test'[p].fixer[x] = test[p].fixer[x]
  <2> DEFINE F == [fixer EXCEPT ![w] = f]
             T == [test[p] EXCEPT !.copies = c, !.fixer = F]
  <2>1. test'[p] = T
    <3> HIDE DEF T
    <3> QED BY <1>1 DEF T
  <2>2. DOMAIN T = DOMAIN test[p] /\ T.targets = test[p].targets /\ T.copies = c /\ T.fixer = F
        /\ T.output = test[p].output
    <3> HIDE DEF F
    <3> QED OBVIOUS
  <2>3. DOMAIN F = DOMAIN fixer /\ F[w] = f /\ \A x \in DOMAIN fixer \ {w} : F[x] = fixer[x]
    OBVIOUS
  <2> HIDE DEF F, T
  <2> QED BY <2>1, <2>2, <2>3
<1>2. CASE FixScan(p, w)
  <2> DEFINE lines == LinesToFix(copies[w[2]], Fixing(cmd(p).tree[w[1]]))
             f == [g EXCEPT !.at = "read", !.lines = lines]
             e == [g EXCEPT !.at = "failed"]
  <2>1. g.at = "scan" /\ (test' = [test EXCEPT ![p].fixer[w] = f] \/ test' = [test EXCEPT ![p].fixer[w] = e])
    BY <1>2 DEF FixScan, Fixer
  <2>2. /\ DOMAIN f = {"at", "lines", "text"} /\ f.at = "read" /\ f.lines = lines
        /\ DOMAIN e = {"at", "lines", "text"} /\ e.at = "failed"
    <3> HIDE DEF lines, g
    <3> QED BY <1>0
  <2> HIDE DEF f, e
  <2>3. CASE test' = [test EXCEPT ![p].fixer[w] = f]
    <3>1. test' = [test EXCEPT ![p] = [test[p] EXCEPT !.copies = copies, !.fixer = [fixer EXCEPT ![w] = f]]]
      BY <2>3
    <3>2. Made(p, w, f, copies)
      BY ZenonT(40), <1>1, <2>1, <2>2, <3>1 DEF Made, Fixer
    <3> QED BY <3>2
  <2>4. CASE test' = [test EXCEPT ![p].fixer[w] = e]
    <3>1. test' = [test EXCEPT ![p] = [test[p] EXCEPT !.copies = copies, !.fixer = [fixer EXCEPT ![w] = e]]]
      BY <2>4
    <3>2. Made(p, w, e, copies)
      BY ZenonT(40), <1>1, <2>1, <2>2, <3>1 DEF Made, Fixer
    <3> QED BY <3>2
  <2> QED BY <2>1, <2>3, <2>4
<1>3. CASE FixRead(p, w)
  <2> DEFINE f == [g EXCEPT !.at = "write", !.text = copies[w[2]]]
  <2>1. g.at = "read" /\ test' = [test EXCEPT ![p].fixer[w] = f]
    BY <1>3 DEF FixRead, Fixer
  <2>2. DOMAIN f = {"at", "lines", "text"} /\ f.at = "write" /\ f.lines = g.lines /\ f.text = copies[w[2]]
    <3> HIDE DEF g
    <3> QED BY <1>0
  <2> HIDE DEF f
  <2>3. test' = [test EXCEPT ![p] = [test[p] EXCEPT !.copies = copies, !.fixer = [fixer EXCEPT ![w] = f]]]
    BY <2>1
  <2>4. Made(p, w, f, copies)
    BY ZenonT(40), <1>1, <2>1, <2>2, <2>3 DEF Made, Fixer
  <2> QED BY <2>4
<1>4. CASE FixWrite(p, w)
  <2> DEFINE f == [g EXCEPT !.at = "done"]
             text == ApplyFixes(Fixer(p, w).text, Fixer(p, w).lines)
             c == [copies EXCEPT ![w[2]] = text]
  <2>1. /\ Fixer(p, w).at = "write"
        /\ test' = [test EXCEPT ![p] = [test[p] EXCEPT !.copies[w[2]] = text, !.fixer[w].at = "done"]]
    BY <1>4 DEF FixWrite
  <2>2. DOMAIN f = {"at", "lines", "text"} /\ f.at = "done"
    <3> HIDE DEF g
    <3> QED BY <1>0
  <2>3. c[w[2]] = text /\ DOMAIN c = DOMAIN copies /\ \A t \in DOMAIN copies \ {w[2]} : c[t] = copies[t]
    <3> HIDE DEF text
    <3> QED OBVIOUS
  <2>4. test' = [test EXCEPT ![p] = [test[p] EXCEPT !.copies = c, !.fixer = [fixer EXCEPT ![w] = f]]]
    <3> HIDE DEF text
    <3> QED BY <2>1
  <2> HIDE DEF f, c
  <2>5. /\ DOMAIN test'[p] = DOMAIN test[p] /\ test'[p].targets = test[p].targets /\ test'[p].copies = c
        /\ test'[p].output = test[p].output
        /\ DOMAIN test'[p].fixer = DOMAIN test[p].fixer /\ test'[p].fixer[w] = f
        /\ \A x \in DOMAIN test[p].fixer \ {w} : test'[p].fixer[x] = test[p].fixer[x]
    BY <1>1, <2>4
  <2> HIDE DEF text
  <2>6. Made(p, w, f, c)
    BY <2>1, <2>2, <2>3, <2>5 DEF Made, text
  <2> QED BY <2>6
<1> QED BY <1>2, <1>3, <1>4

(* The workers race for the copy of a target two of them fix; nobody       *)
(* touches the copy of one that is alone.                                  *)
LEMMA FixesStep ==
  ASSUME IInv, NEW p \in Procs, Fixes(p)
  PROVE  TestRun(p)'
<1>0. DOMAIN test = Procs /\ TestRun(p) /\ UNCHANGED <<job, pc>> /\ pc[p] = "fix"
  BY DEF IInv, Typed, Fixes, FixScan, FixRead, FixWrite, FixStep, At, control
<1>1. /\ DOMAIN test[p].copies = {x[2] : x \in Workers(p)} /\ DOMAIN test[p].fixer = Workers(p)
      /\ DOMAIN test[p].copies \subseteq UNION {test[p].targets[c] : c \in DOMAIN test[p].targets}
      /\ DOMAIN test[p] = {"targets", "output", "copies", "fixer"}
      /\ \A x \in Workers(p) : DOMAIN Fixer(p, x) = {"at", "lines", "text"}
      /\ \A x \in Workers(p) : Alone(p, x) => Worked(p, x)
  BY <1>0 DEF TestRun
<1>2. PICK w \in Workers(p) : FixScan(p, w) \/ FixRead(p, w) \/ FixWrite(p, w)
  BY <1>1 DEF Fixes
<1>3. PICK f, c : Made(p, w, f, c)
  BY <1>0, <1>1, <1>2, Making
<1>4. /\ Workers(p)' = Workers(p)
      /\ \A x : Alone(p, x)' = Alone(p, x) /\ TextOf(p, x)' = TextOf(p, x) /\ ToFix(p, x)' = ToFix(p, x)
  BY <1>0, <1>3, SamePairs DEF Made
<1>5. cmd(p)' = cmd(p)
  BY <1>0 DEF cmd
<1>6. ASSUME NEW x \in Workers(p), Alone(p, x), x # w
      PROVE  Worked(p, x)'
  <2>1. x[2] # w[2]
    <3> SUFFICES ASSUME x[2] = w[2] PROVE FALSE
      OBVIOUS
    <3>1. x[1] # w[1]
      BY <1>6, WorkerIs
    <3> QED BY <1>6, <3>1, WorkerIs DEF Alone
  <2>2. x[2] \in DOMAIN test[p].copies
    BY <1>1
  <2>3. c[x[2]] = test[p].copies[x[2]] /\ test'[p].copies = c /\ Fixer(p, x)' = Fixer(p, x)
    BY <1>1, <1>3, <1>6, <2>1, <2>2 DEF Made, Fixer
  <2>4. Worked(p, x)
    BY <1>1, <1>6
  <2> QED BY <1>4, <1>5, <2>3, <2>4 DEF Worked
<1>7. ASSUME Alone(p, w)
      PROVE  Worked(p, w)'
  <2>1. Worked(p, w)
    BY <1>1, <1>7
  <2>2. Fixer(p, w)' = f /\ test'[p].copies = c
    BY <1>3 DEF Made, Fixer
  <2> DEFINE copy == test[p].copies[w[2]]
  <2>3. \/ Fixer(p, w).at = "scan" /\ f.at = "read" /\ c = test[p].copies /\ f.lines = LinesToFix(copy, Fixing(cmd(p).tree[w[1]]))
        \/ Fixer(p, w).at = "scan" /\ f.at = "failed" /\ c = test[p].copies
        \/ /\ Fixer(p, w).at = "read" /\ f.at = "write" /\ c = test[p].copies
           /\ f.lines = Fixer(p, w).lines /\ f.text = copy
        \/ /\ Fixer(p, w).at = "write" /\ f.at = "done"
           /\ c[w[2]] = ApplyFixes(Fixer(p, w).text, Fixer(p, w).lines)
    BY <1>3 DEF Made
  <2> QED BY <1>4, <1>5, <2>1, <2>2, <2>3 DEF Worked, ToFix
<1>8. \A x \in Workers(p) : DOMAIN Fixer(p, x)' = {"at", "lines", "text"}
  BY <1>1, <1>3 DEF Made, Fixer
<1>9. DOMAIN test'[p] = DOMAIN test[p] /\ test'[p].targets = test[p].targets
      /\ DOMAIN test'[p].copies = DOMAIN test[p].copies /\ DOMAIN test'[p].fixer = DOMAIN test[p].fixer
  BY <1>3 DEF Made
<1>10. \A x \in Workers(p)' : Alone(p, x)' => Worked(p, x)'
  BY <1>4, <1>6, <1>7
<1>11. DOMAIN test'[p].copies \subseteq UNION {test'[p].targets[d] : d \in DOMAIN test'[p].targets}
  BY <1>1, <1>9
<1>12. DOMAIN test'[p].copies = {x[2] : x \in Workers(p)'} /\ DOMAIN test'[p].fixer = Workers(p)'
       /\ DOMAIN test'[p] = {"targets", "output", "copies", "fixer"}
  BY <1>1, <1>4, <1>9
<1>13. \A x \in Workers(p)' : DOMAIN Fixer(p, x)' = {"at", "lines", "text"}
  BY <1>4, <1>8
<1>14. Reports(p)'
  BY <1>0, <1>3 DEF Made, TestRun, Reports
<1> QED BY <1>0, <1>10, <1>11, <1>12, <1>13, <1>14 DEF TestRun

LEMMA SameTests ==
  ASSUME UNCHANGED job, NEW q \in Procs, TestRun(q), test'[q] = test[q], pc'[q] = "fix" => pc[q] = "fix",
         pc'[q] \notin {"fix", "done", "killed"} => pc[q] \notin {"fix", "done", "killed"}
  PROVE  TestRun(q)'
<1>1. /\ Workers(q)' = Workers(q) /\ cmd(q)' = cmd(q)
      /\ \A x : Alone(q, x)' = Alone(q, x) /\ TextOf(q, x)' = TextOf(q, x) /\ ToFix(q, x)' = ToFix(q, x)
      /\ \A x : Fixer(q, x)' = Fixer(q, x)
  BY SamePairs DEF cmd, Fixer
<1>2. \A x : Worked(q, x)' = Worked(q, x)
  BY <1>1 DEF Worked
<1>3. Reports(q)'
  BY DEF TestRun, Reports
<1> QED BY <1>1, <1>2, <1>3 DEF TestRun

(* What the tests hold once the targets are known and once the copies are  *)
(* made.                                                                   *)
LEMMA TestsStep ==
  ASSUME IInv, NEW p \in Procs, Act(p)
  PROVE  \A q \in Procs : TestRun(q)'
<1>0. /\ \A q \in Procs : TestRun(q)
      /\ DOMAIN test = Procs /\ UNCHANGED job /\ Onward(p) /\ Others(p) /\ Typed
  BY FlowStep DEF IInv, Typed
<1>1. ASSUME NEW q \in Procs, test'[q] = test[q], pc'[q] = "fix" => pc[q] = "fix",
             pc'[q] \notin {"fix", "done", "killed"} => pc[q] \notin {"fix", "done", "killed"}
      PROVE  TestRun(q)'
  BY <1>0, <1>1, SameTests
<1>2. \A q \in Procs \ {p} : TestRun(q)'
  BY <1>0, <1>1, TestHeld DEF Others
<1>3. TestRun(p)'
  <2>1. CASE Fixes(p)
    BY <2>1, FixesStep
  <2>2. CASE test'[p] = test[p] /\ ~TestCompare(p)
    BY <1>0, <1>1, <2>2 DEF Onward
  <2> DEFINE targets == GetConfigTestFilenames(cmd(p).tree, cmd(p).config, cmd(p).target)
  <2>3. CASE TestConfigs(p)
    <3> DEFINE tree == cmd(p).tree
               run == {d \in DOMAIN targets : targets[d] # {}}
               Of(c, failed) == InvokeSemgrepMulti(tree, c, targets[c], cmd(p).errors, c \in failed)
               output(failed) == [c \in run |-> Of(c, failed)]
    <3>1. \/ test' = test
          \/ \E failed : test' = [test EXCEPT ![p] = [@ EXCEPT !.targets = targets, !.output = output(failed)]]
      BY <2>3 DEF TestConfigs
    <3>2. CASE test' = test
      <4>1. ~TestCompare(p)
        BY <2>3 DEF TestConfigs, TestCompare, At
      <4> QED BY <2>2, <3>2, <4>1
    <3>3. ASSUME NEW failed, test' = [test EXCEPT ![p] = [@ EXCEPT !.targets = targets, !.output = output(failed)]]
          PROVE  TestRun(p)'
      <4>1. DOMAIN test[p] = {"targets", "output", "copies", "fixer"}
        BY <1>0 DEF TestRun
      <4>2. /\ DOMAIN test'[p] = DOMAIN test[p] /\ test'[p].copies = test[p].copies
            /\ test'[p].fixer = test[p].fixer /\ test'[p].output = output(failed)
        <5> HIDE DEF targets, output
        <5> QED BY <1>0, <3>3, <4>1
      <4>3. test[p].copies = << >> /\ test[p].fixer = << >> /\ pc'[p] # "fix"
        BY <1>0, <2>3 DEF TestRun, TestConfigs, Onward, TestCompare, At
      <4>4. DOMAIN << >> = {}
        OBVIOUS
      <4>5. ASSUME NEW c \in run, NEW t \in DOMAIN Of(c, failed).found, NEW a \in Of(c, failed).found[t]
            PROVE  a = <<a[1], a[2]>>
        <5>1. PICK text, rules : a \in LinesReported(text, rules)
          BY <4>5 DEF InvokeSemgrepMulti
        <5> QED BY <5>1 DEF LinesReported
      <4>6. Reports(p)'
        <5> HIDE DEF Of, run
        <5> QED BY <4>2, <4>5 DEF Reports
      <4> QED BY <4>1, <4>2, <4>3, <4>4, <4>6 DEF TestRun
    <3> QED BY <3>1, <3>2, <3>3
  <2>4. CASE TestCompare(p)
    <3> DEFINE tree == cmd(p).tree
               workers == UNION {{<<c, pair[1]>> : pair \in FixPairs(p)[c]} : c \in DOMAIN FixPairs(p)}
               copies == TemporaryCopies(tree, {w[2] : w \in workers})
               First(w) == [at |-> IF tree[w[1]].yaml = "valid" THEN "scan" ELSE "failed", lines |-> {}, text |-> << >>]
               fixer == [w \in workers |-> First(w)]
    <3>1. \/ test' = test /\ pc' = [pc EXCEPT ![p] = "done"]
          \/ test' = [test EXCEPT ![p] = [@ EXCEPT !.copies = copies, !.fixer = fixer]] /\ pc' = [pc EXCEPT ![p] = "fix"]
      BY <2>4 DEF TestCompare, Leave, Goto
    <3>2. DOMAIN pc = Procs
      BY <1>0 DEF Typed
    <3>3. CASE test' = test /\ pc' = [pc EXCEPT ![p] = "done"]
      <4>1. pc'[p] = "done"
        BY <3>2, <3>3
      <4> QED BY <1>1, <3>3, <4>1
    <3>4. CASE test' = [test EXCEPT ![p] = [@ EXCEPT !.copies = copies, !.fixer = fixer]]
               /\ pc' = [pc EXCEPT ![p] = "fix"]
      <4>1. DOMAIN test[p] = {"targets", "output", "copies", "fixer"}
        BY <1>0 DEF TestRun
      <4>2. /\ DOMAIN test'[p] = DOMAIN test[p] /\ test'[p].targets = test[p].targets
            /\ test'[p].copies = copies /\ test'[p].fixer = fixer /\ pc'[p] = "fix"
            /\ test'[p].output = test[p].output
        <5> HIDE DEF copies, fixer
        <5> QED BY <1>0, <3>2, <3>4, <4>1
      <4>3. workers = Workers(p) /\ workers = Workers(p)' /\ cmd(p)' = cmd(p)
            /\ \A x : TextOf(p, x)' = TextOf(p, x)
        BY <1>0, <4>2, SamePairs DEF Workers, cmd
      <4>4. DOMAIN copies = {w[2] : w \in workers} /\ DOMAIN fixer = workers
        BY DEF TemporaryCopies
      <4>5. DOMAIN test'[p].copies \subseteq UNION {test'[p].targets[d] : d \in DOMAIN test'[p].targets}
        <5> HIDE DEF copies, fixer, workers
        <5>1. \A w \in workers : \E d \in DOMAIN test[p].targets : w[2] \in test[p].targets[d]
          BY <4>3, WorkerIs
        <5> QED BY <4>2, <4>4, <5>1
      <4>6. ASSUME NEW w \in workers
            PROVE  DOMAIN Fixer(p, w)' = {"at", "lines", "text"} /\ Worked(p, w)'
        <5>1. Fixer(p, w)' = First(w)
          <6> HIDE DEF workers, First
          <6>1. fixer[w] = First(w)
            BY <4>6
          <6> QED BY <4>2, <6>1 DEF Fixer
        <5>2. copies[w[2]] = TextOf(p, w)
          <6> HIDE DEF workers
          <6> QED BY <4>6 DEF TemporaryCopies, TextOf
        <5>3. test'[p].copies[w[2]] = TextOf(p, w)'
          BY <4>2, <4>3, <5>2
        <5> QED BY <4>3, <5>1, <5>3 DEF Worked
      <4>7. \A w \in Workers(p)' : DOMAIN Fixer(p, w)' = {"at", "lines", "text"} /\ Worked(p, w)'
        <5> HIDE DEF workers
        <5> QED BY <4>3, <4>6
      <4>8. DOMAIN test'[p].copies = {x[2] : x \in Workers(p)'} /\ DOMAIN test'[p].fixer = Workers(p)'
            /\ DOMAIN test'[p] = {"targets", "output", "copies", "fixer"}
        <5> HIDE DEF copies, fixer, workers
        <5> QED BY <4>1, <4>2, <4>3, <4>4
      <4>9. Reports(p)'
        BY <1>0, <4>2 DEF TestRun, Reports
      <4> QED BY <4>2, <4>5, <4>7, <4>8, <4>9 DEF TestRun
    <3> QED BY <3>1, <3>3, <3>4
  <2> QED BY <1>0, <2>1, <2>2, <2>3, <2>4, TestHeld
<1> QED BY <1>2, <1>3

-----------------------------------------------------------------------------
(* The exit codes                                                          *)

LEMMA AnnotationsArePairs ==
  ASSUME NEW text, NEW kinds, NEW a \in Annotated(text, kinds)
  PROVE  a = <<a[1], a[2]>>
BY DEF Annotated

(* A rule of which no check failed reported what is annotated.             *)
LEMMA RulesPassed ==
  ASSUME NEW tree, NEW output, ~AnyFailures(tree, output), NEW t \in DOMAIN output.found, NEW rule,
         \E a \in Annotated(tree[t].text, {"ruleid", "todoruleid"}) \cup output.found[t] : rule = a[1]
  PROVE  LinesOfRule(ExpectedLines(tree[t].text), rule)
           = LinesOfRule(ReportedLines(tree[t].text, output.found[t]), rule)
<1> DEFINE matches == GetExpectedAndReportedLines(tree, output.found)
           E == ExpectedLines(tree[t].text)
           R == ReportedLines(tree[t].text, output.found[t])
           m == <<rule, t, E, R>>
<1>1. m \in matches
  BY DEF GetExpectedAndReportedLines, Lines
<1>2. CheckidPassed(matches, m[1])
  BY <1>1 DEF AnyFailures
<1> HIDE DEF E, R, matches
<1>3. m[1] = rule /\ m[3] = E /\ m[4] = R
  OBVIOUS
<1>4. LinesOfRule(E, rule) = LinesOfRule(R, rule)
  BY <1>1, <1>2, <1>3 DEF CheckidPassed
<1> QED BY <1>4 DEF E, R

LEMMA AnnotatedPassed ==
  ASSUME NEW p \in Procs, Reports(p), NEW c \in DOMAIN test[p].output,
         ~AnyFailures(cmd(p).tree, test[p].output[c])
  PROVE  AsAnnotated(p, c)
<1> DEFINE tree == cmd(p).tree
           found == test[p].output[c].found
<1> SUFFICES ASSUME NEW t \in DOMAIN found
    PROVE  found[t] \ Annotated(tree[t].text, {"todoruleid", "todook"})
             = Annotated(tree[t].text, {"ruleid"}) \ Annotated(tree[t].text, {"todoruleid", "todook"})
  BY DEF AsAnnotated
<1> DEFINE text == tree[t].text
           E == ExpectedLines(text)
           R == ReportedLines(text, found[t])
           todo == Annotated(text, {"todoruleid", "todook"})
           both == Annotated(text, {"ruleid", "todoruleid"})
           ruleid == Annotated(text, {"ruleid"})
<1>1. E = both \ todo /\ R = found[t] \ todo
  BY DEF ExpectedLines, ReportedLines, Todo
<1>2. both \subseteq ruleid \cup todo /\ ruleid \subseteq both
  BY DEF Annotated
<1>3. \A a \in both \cup found[t] : LinesOfRule(E, a[1]) = LinesOfRule(R, a[1])
  BY RulesPassed
<1>4. \A a \in both \cup found[t] : a = <<a[1], a[2]>>
  BY AnnotationsArePairs DEF Reports
<1> HIDE DEF E, R, todo, both, ruleid, found
<1>5. ASSUME NEW a \in R PROVE a \in E
  <2>1. a \in found[t] /\ a[2] \in LinesOfRule(R, a[1])
    BY <1>1, <1>5 DEF LinesOfRule
  <2>2. a[2] \in LinesOfRule(E, a[1])
    BY <1>3, <2>1
  <2>3. PICK b \in E : b[1] = a[1] /\ b[2] = a[2]
    BY <2>2 DEF LinesOfRule
  <2> QED BY <1>1, <1>4, <2>1, <2>3
<1>6. ASSUME NEW a \in E PROVE a \in R
  <2>1. a \in both /\ a[2] \in LinesOfRule(E, a[1])
    BY <1>1, <1>6 DEF LinesOfRule
  <2>2. a[2] \in LinesOfRule(R, a[1])
    BY <1>3, <2>1
  <2>3. PICK b \in R : b[1] = a[1] /\ b[2] = a[2]
    BY <2>2 DEF LinesOfRule
  <2> QED BY <1>1, <1>4, <2>1, <2>3
<1>7. found[t] \ todo = ruleid \ todo
  BY <1>1, <1>2, <1>5, <1>6
<1> QED BY <1>7 DEF found, todo, ruleid

LEMMA FixedLines ==
  ASSUME NEW text, NEW rules, NEW i \in DOMAIN text
  PROVE  (i \in LinesToFix(text, rules)) = (text[i].kind = "code" /\ text[i].ids \cap rules # {})
<1>1. ASSUME i \in LinesToFix(text, rules) PROVE text[i].kind = "code" /\ text[i].ids \cap rules # {}
  <2>1. PICK a \in LinesReported(text, rules) : a[2] = i
    BY <1>1 DEF LinesToFix
  <2>2. PICK j \in DOMAIN text : text[j].kind = "code" /\ a \in {<<r, j>> : r \in text[j].ids \cap rules}
    BY <2>1 DEF LinesReported
  <2> QED BY <2>1, <2>2
<1>2. ASSUME text[i].kind = "code", NEW r \in text[i].ids \cap rules PROVE i \in LinesToFix(text, rules)
  <2>1. <<r, i>> \in LinesReported(text, rules)
    BY <1>2 DEF LinesReported
  <2>2. <<r, i>>[2] = i
    OBVIOUS
  <2> QED BY <2>1, <2>2 DEF LinesToFix
<1>3. (i \in LinesToFix(text, rules)) \in BOOLEAN
  OBVIOUS
<1> QED BY <1>1, <1>2, <1>3

(* The text after a fix, as the annotations have it.                       *)
FixedText(text, rules) ==
  [i \in DOMAIN text |-> IF text[i].kind = "code" /\ text[i].ids \cap rules # {}
                         THEN [kind |-> "fixed", ids |-> {}] ELSE text[i]]

LEMMA FixesApplied ==
  ASSUME NEW text, NEW rules
  PROVE  ApplyFixes(text, LinesToFix(text, rules)) = FixedText(text, rules)
<1>1. \A i \in DOMAIN text :
        (i \in LinesToFix(text, rules)) = (text[i].kind = "code" /\ text[i].ids \cap rules # {})
  BY FixedLines
<1> HIDE DEF LinesToFix
<1> QED BY <1>1 DEF ApplyFixes, FixedText

(* What a target that is compared with one fix test only is compared with: *)
(* the text one worker made of it.                                         *)
LEMMA FixedPassed ==
  ASSUME IInv, NEW p \in Procs, pc[p] = "fix", \A w \in DOMAIN test[p].fixer : Fixer(p, w).at \in {"done", "failed"},
         NEW t \in DOMAIN test[p].copies, ~Ambiguous(p, t),
         NEW c, c \in DOMAIN FixPairs(p), NEW fixtest, <<t, fixtest>> \in FixPairs(p)[c]
  PROVE  AsFixed(p, t) <=> cmd(p).tree[fixtest].text = test[p].copies[t]
<1> DEFINE tree == cmd(p).tree
           w == <<c, t>>
           f == <<c, fixtest>>
           Fixed(d) == [i \in DOMAIN tree[t].text |->
                     IF tree[t].text[i].kind = "code" /\ tree[t].text[i].ids \cap Fixing(tree[d]) # {}
                     THEN [kind |-> "fixed", ids |-> {}] ELSE tree[t].text[i]]
<1>1. TestRun(p)
  BY DEF IInv
<1>2. w \in Workers(p) /\ w[1] = c /\ w[2] = t /\ f[1] = c /\ f[2] = fixtest
  <2>1. <<t, fixtest>>[1] = t
    OBVIOUS
  <2> QED BY <2>1 DEF Workers
<1>3. \A d \in DOMAIN FixPairs(p) : \A x \in FixPairs(p)[d] : x[1] = t => <<d, x[2]>> \in FixesOf(p, t)
  BY DEF FixesOf
<1>4. f \in FixesOf(p, t)
  <2>1. <<t, fixtest>>[1] = t /\ <<t, fixtest>>[2] = fixtest
    OBVIOUS
  <2> QED BY <1>3, <2>1
<1>5. FixesOf(p, t) = {f}
  BY <1>4 DEF Ambiguous
<1>6. Alone(p, w)
  <2> SUFFICES ASSUME NEW d \in DOMAIN FixPairs(p) \ {c}, NEW x \in FixPairs(p)[d], x[1] = t PROVE FALSE
    BY <1>2 DEF Alone
  <2>1. <<d, x[2]>> \in {f}
    BY <1>3, <1>5
  <2>2. <<d, x[2]>> = <<c, fixtest>>
    BY <2>1
  <2> QED BY <2>2
<1>7. TextOf(p, w) = tree[t].text /\ ToFix(p, w) = LinesToFix(tree[t].text, Fixing(tree[c]))
  BY <1>2 DEF TextOf, ToFix
<1>8. Fixed(c) = ApplyFixes(tree[t].text, LinesToFix(tree[t].text, Fixing(tree[c])))
  <2>1. Fixed(c) = FixedText(tree[t].text, Fixing(tree[c]))
    BY DEF FixedText
  <2> QED BY <2>1, FixesApplied
<1>9. test[p].copies[t] = IF Fixer(p, w).at = "done" THEN Fixed(c) ELSE tree[t].text
  <2> HIDE DEF w, Fixed, tree
  <2>1. Worked(p, w) /\ Fixer(p, w).at \in {"done", "failed"}
    BY <1>1, <1>2, <1>6 DEF TestRun
  <2> QED BY <1>2, <1>7, <1>8, <2>1 DEF Worked
<1>10. AsFixed(p, t) <=> \A g \in FixesOf(p, t) :
         tree[g[2]].text = IF Fixer(p, <<g[1], t>>).at = "done" THEN Fixed(g[1]) ELSE tree[t].text
  BY DEF AsFixed
<1> HIDE DEF Fixed, tree
<1>11. AsFixed(p, t) <=> tree[f[2]].text = IF Fixer(p, <<f[1], t>>).at = "done" THEN Fixed(f[1]) ELSE tree[t].text
  <2> HIDE DEF f
  <2> QED BY <1>5, <1>10
<1>12. AsFixed(p, t) <=> tree[fixtest].text = test[p].copies[t]
  BY <1>2, <1>9, <1>11
<1> QED BY <1>12 DEF tree

(* A rule of which no check failed reported what is annotated, and a check *)
(* that failed is of a rule that did not, or of errors of semgrep-core.    *)
LEMMA AnnotatedFailed ==
  ASSUME NEW p \in Procs, NEW c \in DOMAIN test[p].output, AsAnnotated(p, c), ~test[p].output[c].soft
  PROVE  ~AnyFailures(cmd(p).tree, test[p].output[c])
<1> DEFINE tree == cmd(p).tree
           found == test[p].output[c].found
           matches == GetExpectedAndReportedLines(tree, found)
<1>1. ASSUME NEW m \in matches PROVE m[3] = m[4]
  <2>0. PICK t \in DOMAIN found : \E a : m = Lines(tree, found, t, a)
    BY DEF GetExpectedAndReportedLines
  <2>1. PICK a : m = Lines(tree, found, t, a)
    BY <2>0
  <2> DEFINE text == tree[t].text
             todo == Annotated(text, {"todoruleid", "todook"})
             both == Annotated(text, {"ruleid", "todoruleid"})
             ruleid == Annotated(text, {"ruleid"})
             E == ExpectedLines(text)
             R == ReportedLines(text, found[t])
  <2>2. m[3] = E /\ m[4] = R
    <3> HIDE DEF E, R
    <3>1. m = <<a, t, E, R>>
      BY <2>1 DEF Lines, E, R
    <3> QED BY <3>1
  <2>3. E = both \ todo /\ R = found[t] \ todo
    BY DEF ExpectedLines, ReportedLines, Todo
  <2>4. both \subseteq ruleid \cup todo /\ ruleid \subseteq both
    BY DEF Annotated
  <2>5. found[t] \ todo = ruleid \ todo
    BY DEF AsAnnotated
  <2> HIDE DEF todo, both, ruleid, E, R, found
  <2> QED BY <2>2, <2>3, <2>4, <2>5
<1> HIDE DEF matches
<1>2. \A m \in matches : CheckidPassed(matches, m[1])
  BY <1>1 DEF CheckidPassed
<1> QED BY <1>2 DEF AnyFailures, matches

(* A test passes if the exit code says so, and only fails otherwise.       *)
LEMMA PassedStep ==
  ASSUME IInv, NEW p \in Procs, EndTests(p)
  PROVE  /\ exit'[p] = OK => TestPassed(p)
         /\ exit'[p] = FINDINGS =>
              \/ ~TestPassed(p) \/ \E c \in Tested(p) : test[p].output[c].soft
              \/ \E t \in DOMAIN test[p].copies : Ambiguous(p, t)
<1> DEFINE tree == cmd(p).tree
           pairs == UNION {FixPairs(p)[c] : c \in DOMAIN FixPairs(p)}
           copies == test[p].copies
           strictError == cmd(p).strict /\ Tested(p) # DOMAIN test[p].output
           anyFailures == \E c \in Tested(p) : AnyFailures(tree, test[p].output[c])
<1>1. DOMAIN exit = Procs /\ TestRun(p) /\ pc[p] = "fix"
      /\ \A w \in DOMAIN test[p].fixer : Fixer(p, w).at \in {"done", "failed"}
  BY DEF IInv, Typed, EndTests, At
<1>2. PICK fixtest \in [DOMAIN copies -> {pair[2] : pair \in pairs}] :
        /\ \A t \in DOMAIN copies : <<t, fixtest[t]>> \in pairs
        /\ Leave(p, IF strictError \/ anyFailures \/ \E t \in DOMAIN copies : copies[t] # tree[fixtest[t]].text
                    THEN 1 ELSE OK)
  BY DEF EndTests
<1> HIDE DEF strictError, anyFailures
<1> DEFINE failed == strictError \/ anyFailures \/ \E t \in DOMAIN copies : copies[t] # tree[fixtest[t]].text
<1>3. exit'[p] = IF failed THEN 1 ELSE OK
  <2>1. exit' = [exit EXCEPT ![p] = IF failed THEN 1 ELSE OK]
    BY <1>2 DEF Leave
  <2> HIDE DEF failed
  <2> QED BY <1>1, <2>1
<1>4. ASSUME NEW t \in DOMAIN copies, ~Ambiguous(p, t)
      PROVE  AsFixed(p, t) <=> tree[fixtest[t]].text = copies[t]
  <2>1. PICK c \in DOMAIN FixPairs(p) : <<t, fixtest[t]>> \in FixPairs(p)[c]
    BY <1>2
  <2> QED BY <1>1, <1>4, <2>1, FixedPassed
<1>5. ~anyFailures => \A c \in Tested(p) : AsAnnotated(p, c)
  BY <1>1, AnnotatedPassed DEF anyFailures, Tested, TestRun
<1>6. ASSUME exit'[p] = OK PROVE TestPassed(p)
  <2>1. ~strictError /\ ~anyFailures /\ \A t \in DOMAIN copies : copies[t] = tree[fixtest[t]].text
    BY <1>3, <1>6 DEF OK
  <2>2. \A t \in DOMAIN copies : Ambiguous(p, t) \/ AsFixed(p, t)
    BY <1>4, <2>1
  <2> QED BY <1>5, <2>1, <2>2 DEF TestPassed, strictError
<1>7. ASSUME exit'[p] = FINDINGS, TestPassed(p), \A c \in Tested(p) : ~test[p].output[c].soft,
             \A t \in DOMAIN copies : ~Ambiguous(p, t)
      PROVE  FALSE
  <2>1. failed
    BY <1>3, <1>7 DEF OK, FINDINGS
  <2>2. ~strictError
    BY <1>7 DEF TestPassed, strictError
  <2>3. ~anyFailures
    BY <1>7, AnnotatedFailed DEF TestPassed, anyFailures, Tested
  <2>4. \A t \in DOMAIN copies : copies[t] = tree[fixtest[t]].text
    BY <1>4, <1>7 DEF TestPassed
  <2> QED BY <2>1, <2>2, <2>3, <2>4
<1> QED BY <1>6, <1>7

(* What the exit code of one command promises.                             *)
Told(p) ==
  LET outcome == own[p].outcome
  IN  /\ Done(p, "scan", "test", OK) => TestPassed(p)
      /\ Done(p, "scan", "test", FINDINGS) =>
           \/ ~TestPassed(p) \/ \E c \in Tested(p) : test[p].output[c].soft
           \/ \E t \in DOMAIN test[p].copies : Ambiguous(p, t)
      /\ Done(p, "scan", "scan", OK) => outcome.code = OK /\ ~Blocks(p, outcome)
      /\ Done(p, "scan", "scan", FINDINGS) => Blocks(p, outcome)
      /\ Done(p, "ci", "scan", OK) =>
           \/ outcome.code = OK /\ ~Blocks(p, outcome)
           \/ cmd(p).suppress_errors /\ (outcome.code # OK \/ home # "writable")
      /\ Done(p, "ci", "scan", FINDINGS) => outcome.code = OK /\ Blocks(p, outcome)
      /\ Done(p, "login", "scan", OK) =>
           IF own[p].candidate = None THEN own[p].mem.api_token # None
           ELSE home = "writable" => own[p].candidate \in own[p].wrote
      /\ Done(p, "publish", "scan", OK) => own[p].uploaded = Configs(p)

LEMMA Telling == ExitCodeTells <=> \A p \in Procs : ~cmd(p).ported => Told(p)
BY DEF ExitCodeTells, Told

(* A target that came out as its fix test, with the annotations' text as a *)
(* function of the file and the rules alone.                               *)
Compared(p, t) ==
  \A f \in FixesOf(p, t) :
    cmd(p).tree[f[2]].text = IF Fixer(p, <<f[1], t>>).at = "done"
                             THEN FixedText(cmd(p).tree[t].text, Fixing(cmd(p).tree[f[1]]))
                             ELSE cmd(p).tree[t].text

LEMMA FixedAs ==
  ASSUME NEW p, NEW t
  PROVE  AsFixed(p, t) = Compared(p, t) /\ AsFixed(p, t)' = Compared(p, t)'
BY DEF AsFixed, FixedText, Compared

LEMMA SamePassed ==
  ASSUME UNCHANGED job, NEW p \in Procs, test'[p] = test[p]
  PROVE  /\ TestPassed(p)' = TestPassed(p) /\ Tested(p)' = Tested(p)
         /\ \A t : Ambiguous(p, t)' = Ambiguous(p, t)
<1>1. cmd(p)' = cmd(p) /\ FixPairs(p)' = FixPairs(p)
  BY DEF cmd, FixPairs
<1>2. \A c : AsAnnotated(p, c)' = AsAnnotated(p, c)
  BY <1>1 DEF AsAnnotated
<1>3. \A t : FixesOf(p, t)' = FixesOf(p, t) /\ \A w : Fixer(p, w)' = Fixer(p, w)
  BY <1>1 DEF FixesOf, Fixer
<1>4. \A t : Ambiguous(p, t)' = Ambiguous(p, t) /\ AsFixed(p, t)' = AsFixed(p, t)
  <2>1. \A t : Ambiguous(p, t)' = Ambiguous(p, t)
    BY <1>3 DEF Ambiguous
  <2>2. \A t : AsFixed(p, t)' = AsFixed(p, t)
    <3> SUFFICES ASSUME NEW t PROVE Compared(p, t)' = Compared(p, t)
      BY FixedAs
    <3> QED BY <1>1, <1>3 DEF Compared
  <2> QED BY <2>1, <2>2
<1> QED BY <1>1, <1>2, <1>4 DEF TestPassed, Tested

(* An exit code tells the truth when the command ends.                     *)
LEMMA ToldStep ==
  ASSUME IInv, NEW p \in Procs, Act(p)
  PROVE  ExitCodeTells'
<1>0. /\ \A q \in Procs : ~cmd(q).ported => Told(q)
      /\ own \in [Procs -> Owns] /\ DOMAIN pc = Procs /\ DOMAIN exit = Procs /\ DOMAIN test = Procs
      /\ UNCHANGED <<job, home>>
      /\ Changes(p) /\ Onward(p) /\ Ending(p) /\ Others(p) /\ LoggingIn(p) /\ Succeeded(p) /\ Sound
  BY HoldStep, FlowStep, Telling DEF IInv, Typed, Changes
<1>1. \A q \in Procs : cmd(q)' = cmd(q) /\ Configs(q)' = Configs(q)
  BY <1>0 DEF cmd, Configs
<1>2. ASSUME NEW q \in Procs \ {p}, ~cmd(q).ported PROVE Told(q)'
  <2>1. test'[q] = test[q] /\ own'[q] = own[q] /\ pc'[q] = pc[q] /\ exit'[q] = exit[q]
    BY <1>0, TestHeld DEF Changes, Others, IInv
  <2>2. /\ Told(q) /\ TestPassed(q)' = TestPassed(q) /\ Tested(q)' = Tested(q)
        /\ \A t : Ambiguous(q, t)' = Ambiguous(q, t)
    BY <1>0, <1>2, <2>1, SamePassed
  <2> QED BY <1>0, <1>1, <2>1, <2>2 DEF Told, Done, OK, FINDINGS, Blocks
<1>c. FINDINGS # OK /\ FATAL # OK /\ FATAL # FINDINGS
  BY DEF FINDINGS, OK, FATAL
<1>d. \A x \in cmd(p).outcomes : x.code \in (0 .. 13) \ {FINDINGS}
  BY CommandAssumption DEF IInv, Typed, cmd
<1>e. /\ \A c : Leave(p, c) => exit'[p] = c
      /\ \A l, r : Call(p, l, r) /\ l # "done" => pc'[p] # "done"
  BY <1>0 DEF Leave, Call
<1>f. settings # Torn
  BY <1>0 DEF Sound, SettingsAreSound
<1>3. ASSUME ~cmd(p).ported PROVE Told(p)'
  <2> SUFFICES ASSUME pc'[p] = "done" PROVE Told(p)'
    BY DEF Told, Done
  <2>1. ASSUME cmd(p).name = "scan", cmd(p).mode = "test"
        PROVE  /\ exit'[p] = OK => TestPassed(p)'
               /\ exit'[p] = FINDINGS =>
                    \/ ~TestPassed(p)' \/ \E c \in Tested(p)' : test'[p].output[c].soft
                    \/ \E t \in DOMAIN test'[p].copies : Ambiguous(p, t)'
    <3> SUFFICES ASSUME exit'[p] \in {OK, FINDINGS}
        PROVE  /\ exit'[p] = OK => TestPassed(p)'
               /\ exit'[p] = FINDINGS =>
                    \/ ~TestPassed(p)' \/ \E c \in Tested(p)' : test'[p].output[c].soft
                    \/ \E t \in DOMAIN test'[p].copies : Ambiguous(p, t)'
      OBVIOUS
    <3>1. EndTests(p)
      BY <1>0, <1>3, <1>f, <2>1 DEF Ending
    <3>2. test' = test
      BY <3>1 DEF EndTests
    <3>3. /\ TestPassed(p)' = TestPassed(p) /\ Tested(p)' = Tested(p)
          /\ \A t : Ambiguous(p, t)' = Ambiguous(p, t)
      BY <1>0, <3>2, SamePassed
    <3> QED BY <3>1, <3>2, <3>3, PassedStep
  <2>2. ASSUME exit'[p] = OK, cmd(p).name = "scan", cmd(p).mode = "scan"
        PROVE  own'[p].outcome.code = OK /\ ~Blocks(p, own'[p].outcome)
    <3>1. CASE pc[p] \in Versions \cup Caching
      <4>1. ~RunScan(p) /\ ~Validate(p) /\ ~Ci(p)
        BY <3>1 DEF RunScan, Validate, Ci, At, Versions, Caching
      <4> QED BY <1>0, <2>2, <3>1, <4>1 DEF Changes, Succeeded
    <3>2. CASE RunScan(p)
      <4>1. PICK o \in cmd(p).outcomes :
              /\ own' = [own EXCEPT ![p].outcome = o]
              /\ \/ Leave(p, FINDINGS)
                 \/ o.code # OK /\ Leave(p, o.code)
                 \/ ~Blocks(p, o) /\ o.code = OK
        BY <3>2, Zenon DEF RunScan, Hold
      <4>4. own'[p].outcome = o
        BY <1>0, <4>1, Put
      <4> QED BY <1>c, <1>e, <2>2, <4>1, <4>4
    <3> QED BY <1>0, <1>3, <2>2, <3>1, <3>2 DEF Ending
  <2>3. ASSUME exit'[p] = FINDINGS, cmd(p).name = "scan", cmd(p).mode = "scan"
        PROVE  Blocks(p, own'[p].outcome)
    <3>1. RunScan(p)
      BY <1>0, <1>3, <1>c, <1>f, <2>3 DEF Ending
    <3>2. PICK o \in cmd(p).outcomes :
            /\ own' = [own EXCEPT ![p].outcome = o]
            /\ \/ Blocks(p, o)
               \/ Leave(p, o.code)
               \/ Leave(p, OK)
               \/ Call(p, "read cache", "banners")
      BY <3>1, Zenon DEF RunScan, Hold, CheckVersion
    <3>3. own'[p].outcome = o /\ o.code # FINDINGS
      BY <1>0, <1>d, <3>2, Put
    <3> QED BY <1>c, <1>e, <2>3, <3>2, <3>3
  <2>4. ASSUME exit'[p] = OK, cmd(p).name = "login"
        PROVE  IF own'[p].candidate = None THEN own'[p].mem.api_token # None
               ELSE home = "writable" => own'[p].candidate \in own'[p].wrote
    <3>1. CASE Login(p)
      <4>1. own[p].mem.api_token # None /\ own' = own
        <5>1. \/ pc' = [pc EXCEPT ![p] = "save token"]
              \/ pc' = [pc EXCEPT ![p] = "poll"]
              \/ (Leave(p, OK) /\ own[p].mem.api_token # None /\ own' = own)
              \/ Leave(p, FATAL)
          BY <3>1, Zenon DEF Login, Goto
        <5>2. /\ \A c : Leave(p, c) => exit'[p] = c
              /\ pc' # [pc EXCEPT ![p] = "save token"] /\ pc' # [pc EXCEPT ![p] = "poll"]
          BY <1>0 DEF Leave
        <5>3. FATAL # OK
          BY DEF FATAL, OK
        <5> QED BY <2>4, <5>1, <5>2, <5>3
      <4>2. own[p].candidate = None
        BY <1>0, <3>1 DEF Login, At, LoggingIn, Saving
      <4> QED BY <4>1, <4>2
    <3>2. CASE Saved(p)
      <4>1. own' = own /\ pc[p] = "saved"
        BY <3>2 DEF Saved, At
      <4>2. own[p].candidate \in Accepted /\ (home = "writable" => own[p].candidate \in own[p].wrote)
        BY <1>0, <4>1 DEF LoggingIn
      <4>3. own[p].candidate # None
        BY <4>2, CommandAssumption
      <4> QED BY <4>1, <4>2, <4>3
    <3> QED BY <1>0, <1>3, <2>4, <3>1, <3>2 DEF Ending
  <2>5. ASSUME exit'[p] = OK, cmd(p).name = "publish"
        PROVE  own'[p].uploaded = Configs(p)
    <3>1. Publish(p)
      BY <1>0, <1>3, <2>5 DEF Ending
    <3>2. \/ Leave(p, FATAL)
          \/ \E sent : own' = [own EXCEPT ![p].uploaded = sent] /\ (sent # Configs(p) => Leave(p, FATAL))
      BY <3>1 DEF Publish, Hold
    <3>3. \A c : Leave(p, c) => exit'[p] = c
      BY <1>0 DEF Leave
    <3>4. FATAL # OK
      BY DEF FATAL, OK
    <3>5. own' = [own EXCEPT ![p].uploaded = Configs(p)]
      BY <2>5, <3>2, <3>3, <3>4
    <3> QED BY <1>0, <3>5, Put
  <2>6. ASSUME exit'[p] \in {OK, FINDINGS}, cmd(p).name = "ci"
        PROVE  /\ exit'[p] = OK => \/ own'[p].outcome.code = OK /\ ~Blocks(p, own'[p].outcome)
                                   \/ cmd(p).suppress_errors /\ (own'[p].outcome.code # OK \/ home # "writable")
               /\ exit'[p] = FINDINGS => own'[p].outcome.code = OK /\ Blocks(p, own'[p].outcome)
    <3>1. \A c : FailOpen(p, c) = c \/ (FailOpen(p, c) = OK /\ cmd(p).suppress_errors)
      BY DEF FailOpen
    <3>2. CASE Ci(p)
      <4>1. \/ Leave(p, FailOpen(p, FATAL)) /\ home # "writable"
            \/ \E o \in cmd(p).outcomes :
                 /\ own' = [own EXCEPT ![p].outcome = o]
                 /\ \/ o.code # OK /\ Leave(p, FailOpen(p, o.code))
                    \/ o.code = OK /\ Leave(p, IF Blocks(p, o) THEN FINDINGS ELSE OK)
                    \/ Call(p, "read cache", "banners")
        BY <3>2, Zenon DEF Ci, Hold
      <4>2. CASE Leave(p, FailOpen(p, FATAL)) /\ home # "writable"
        BY <1>c, <1>e, <2>6, <3>1, <4>2
      <4>3. ASSUME NEW o \in cmd(p).outcomes, own' = [own EXCEPT ![p].outcome = o],
                   \/ o.code # OK /\ Leave(p, FailOpen(p, o.code))
                   \/ o.code = OK /\ Leave(p, IF Blocks(p, o) THEN FINDINGS ELSE OK)
                   \/ Call(p, "read cache", "banners")
            PROVE  own'[p].outcome = o
                   /\ \/ o.code # OK /\ o.code # FINDINGS /\ exit'[p] = FailOpen(p, o.code)
                      \/ o.code = OK /\ exit'[p] = IF Blocks(p, o) THEN FINDINGS ELSE OK
        BY <1>0, <1>d, <1>e, <4>3, Put
      <4> QED BY <1>c, <2>6, <3>1, <4>1, <4>2, <4>3
    <3>3. CASE ShowBanners(p) \/ OpenCache(p)
      <4>1. pc[p] \in Versions \cup Caching /\ own'[p].outcome = own[p].outcome /\ own[p].outcome.code = OK
        <5>1. pc[p] \in {"banners", "open cache"}
          BY <3>3 DEF ShowBanners, OpenCache, At
        <5>2. ~RunScan(p) /\ ~Validate(p) /\ ~Ci(p)
          BY <5>1 DEF RunScan, Validate, Ci, At
        <5> QED BY <1>0, <2>6, <5>1, <5>2 DEF Changes, Succeeded, Versions, Caching
      <4>2. CASE ShowBanners(p)
        <5>1. Leave(p, ExitCode(p))
          BY <1>0, <1>e, <2>6, <4>2 DEF ShowBanners
        <5> QED BY <1>c, <1>e, <2>6, <4>1, <5>1 DEF ExitCode
      <4>3. CASE OpenCache(p)
        <5>0. back[p] \in Versions /\ (back[p] # "banners" => cmd(p).name = "scan")
          BY <1>0, <4>3 DEF IInv, Flow, FlowAt, OpenCache, At, Caching
        <5>1. back[p] = "banners"
          BY <2>6, <5>0
        <5>2. CASE home = "writable"
          BY <1>0, <1>c, <1>e, <4>3, <5>2 DEF OpenCache, Goto
        <5>3. CASE home # "writable"
          <6>1. Leave(p, FailOpen(p, FATAL))
            BY <4>3, <5>1, <5>3 DEF OpenCache
          <6> QED BY <1>c, <1>e, <2>6, <3>1, <4>1, <5>3, <6>1
        <5> QED BY <5>2, <5>3
      <4> QED BY <3>3, <4>2, <4>3
    <3> QED BY <1>0, <1>3, <1>c, <1>f, <2>6, <3>2, <3>3 DEF Ending
  <2> QED BY <1>0, <1>1, <1>c, <2>1, <2>2, <2>3, <2>4, <2>5, <2>6 DEF Told, Done, Blocks
<1>4. ExitCodeTells' <=> \A q \in Procs : ~cmd(q)'.ported => Told(q)'
  BY DEF ExitCodeTells, Told
<1> QED BY <1>1, <1>2, <1>3, <1>4

-----------------------------------------------------------------------------
(* The invariant                                                           *)

LEMMA InitInv == Init => IInv
<1> SUFFICES ASSUME Init PROVE IInv
  OBVIOUS
<1>1. PICK s \in Starts : job = s.job /\ home = s.home /\ settings = s.settings /\ pro = s.pro
  BY DEF Init
<1>2. \A p \in Procs : pc[p] = "main" /\ back[p] = None /\ own[p] = Fresh /\ test[p] = NoTest /\ exit[p] = NoCode
  BY DEF Init
<1>3. Fresh \in Owns
  <2>1. DefaultSettings \in [api_token : Tokens, shown : BOOLEAN] /\ None \in Tokens
    BY DEF DefaultSettings, Tokens
  <2>2. NoAnswer \in Answers
    BY AnswerTypes DEF NoAnswer
  <2>3. [found |-> "none", code |-> OK] \in Outcomes
    BY DEF Outcomes, Founds, None, OK, FINDINGS
  <2>4. 0 \in 0 .. MAX_RETRIES
    BY CommandAssumption
  <2> HIDE DEF DefaultSettings, NoAnswer
  <2> QED BY <2>1, <2>2, <2>3, <2>4 DEF Fresh, Owns
<1>4. Typed
  <2>1. settings \in FirstSettings /\ job \in {x.job : x \in Starts} /\ pro \in {"absent", "stale", "current"}
    BY <1>1, CommandAssumption DEF FirstSettings
  <2>2. own \in [Procs -> Owns] /\ DOMAIN pc = Procs /\ DOMAIN back = Procs /\ DOMAIN exit = Procs
        /\ DOMAIN test = Procs
    BY <1>3 DEF Init
  <2>3. cache \in Answers
    <3>1. [FirstApp EXCEPT !.stamp = "old"] \in Answers
      BY AnswerTypes DEF Answers
    <3> QED BY <3>1, AnswerTypes DEF Init
  <2> QED BY <2>1, <2>2, <2>3 DEF Typed, Init
<1>5. Sound
  <2>1. settings.api_token \in FirstTokens /\ settings # Torn
    BY <1>1, CommandAssumption DEF FirstTokens, FirstSettings
  <2>2. notified = settings.shown
    BY DEF Init
  <2>3. Fresh.mem.api_token = None /\ Fresh.mem.shown = FALSE
    BY DEF Fresh, DefaultSettings
  <2> QED BY <1>2, <2>1, <2>2, <2>3 DEF Sound, SettingsAreSound, FirstTokens
<1>6. Answered
  <2>1. Fresh.latest = NoAnswer /\ ~NoCache.json
    BY DEF Fresh, NoCache
  <2>2. Whole([FirstApp EXCEPT !.stamp = "old"])
    <3>1. FirstApp \in Answers
      BY AnswerTypes
    <3> QED BY <3>1 DEF Whole, Answers
  <2> QED BY <1>2, <2>1, <2>2 DEF Init, Answered
<1>7. ExitCodeTells
  BY <1>2 DEF ExitCodeTells, Done
<1>8. ASSUME NEW p \in Procs
      PROVE  Flow(p) /\ LoggingIn(p) /\ Succeeded(p) /\ TestRun(p)
  <2>1. Flow(p)
    BY <1>2 DEF Flow, FlowAt, Versions, Caching, Testing, NoCode
  <2>2. LoggingIn(p) /\ Succeeded(p)
    <3>1. Fresh.candidate = None
      BY DEF Fresh
    <3> QED BY <1>2, <3>1 DEF LoggingIn, Saving, Succeeded, Versions, Caching
  <2>3. TestRun(p)
    BY <1>2 DEF TestRun, Reports, NoTest
  <2> QED BY <2>1, <2>2, <2>3
<1> QED BY <1>4, <1>5, <1>6, <1>7, <1>8 DEF IInv

LEMMA SameSets ==
  ASSUME UNCHANGED job
  PROVE  FirstSettings' = FirstSettings /\ Tokens' = Tokens /\ Owns' = Owns
<1>1. Tokens' = Tokens
  BY DEF Tokens, cmd, FirstSettings
<1>2. Outcomes' = Outcomes /\ Uploads' = Uploads
  BY DEF Outcomes, Founds, Uploads, cmd
<1> QED BY <1>1, <1>2 DEF Owns, FirstSettings, Answers, Messages

(* A day that passes and a release change the cache and the app alone.     *)
LEMMA WorldStep ==
  ASSUME IInv, World
  PROVE  IInv'
<1>0. /\ UNCHANGED <<job, home, settings, pro, pc, back, exit, own, test, notified, muted>>
      /\ \/ UNCHANGED <<cache, app>>
         \/ cache' = [cache EXCEPT !.stamp = "old"] /\ UNCHANGED app
         \/ app' = NextApp /\ UNCHANGED cache
  BY DEF World, DayPasses, AppReleases, vars, files, control
<1>1. Typed /\ Sound /\ Answered /\ ExitCodeTells
      /\ \A p \in Procs : Flow(p) /\ LoggingIn(p) /\ Succeeded(p) /\ TestRun(p)
  BY DEF IInv
<1>2. cache' \in Answers /\ (cache'.json => Whole(cache'))
  <2>1. cache \in Answers /\ (cache.json => Whole(cache))
    BY <1>1 DEF Typed, Answered
  <2>2. CASE cache' = [cache EXCEPT !.stamp = "old"]
    BY <2>1, <2>2 DEF Answers, Whole
  <2> QED BY <1>0, <2>1, <2>2
<1>3. Typed'
  BY <1>0, <1>1, <1>2, SameSets DEF Typed, Answers
<1>4. Sound'
  BY <1>0, <1>1 DEF Sound, SettingsAreSound, FirstTokens
<1>5. Answered'
  BY <1>0, <1>1, <1>2 DEF Answered, Whole
<1>6. \A p \in Procs : cmd(p)' = cmd(p) /\ Configs(p)' = Configs(p) /\ Phase(p)' = Phase(p)
  BY <1>0 DEF cmd, Configs, Phase
<1>7. ExitCodeTells'
  <2>1. \A p \in Procs : TestPassed(p)' = TestPassed(p) /\ Tested(p)' = Tested(p)
                           /\ \A t : Ambiguous(p, t)' = Ambiguous(p, t)
    BY <1>0, SamePassed
  <2>2. \A p \in Procs : \A o : Blocks(p, o)' = Blocks(p, o)
    BY <1>6 DEF Blocks
  <2>3. ASSUME NEW p \in Procs, ~cmd(p).ported PROVE Told(p)'
    <3>1. Told(p)
      BY <1>1, <2>3, Telling
    <3> QED BY <1>0, <1>6, <2>1, <2>2, <3>1 DEF Told, Done
  <2> QED BY <1>6, <2>3 DEF ExitCodeTells, Told
<1>8. ASSUME NEW p \in Procs
      PROVE  Flow(p)' /\ LoggingIn(p)' /\ Succeeded(p)' /\ TestRun(p)'
  <2>1. Flow(p)'
    BY ZenonT(40), <1>0, <1>1, <1>6 DEF Flow, FlowAt
  <2>2. LoggingIn(p)' /\ Succeeded(p)'
    <3>1. LoggingIn(p)'
      BY <1>0, <1>1, <1>6 DEF LoggingIn, Saving
    <3>2. \A o : Blocks(p, o)' = Blocks(p, o)
      BY <1>6 DEF Blocks
    <3> QED BY <1>0, <1>1, <1>6, <3>1, <3>2 DEF Succeeded, Versions, Caching
  <2>3. TestRun(p)'
    BY <1>0, <1>1, SameTests
  <2> QED BY <2>1, <2>2, <2>3
<1> QED BY <1>3, <1>4, <1>5, <1>7, <1>8 DEF IInv

LEMMA TypedStep ==
  ASSUME IInv, NEW p \in Procs, Act(p)
  PROVE  Typed'
<1>0. Typed /\ own \in [Procs -> Owns] /\ UNCHANGED job /\ Flowing' /\ Changes(p) /\ cache' \in Answers
      /\ DOMAIN test' = Procs
  BY FlowStep, HoldStep, AnswerStep, TestHeld DEF IInv, Typed
<1>1. settings' \in FirstSettings \cup [api_token : Tokens, shown : BOOLEAN]
  <2>1. CASE Replace(p)
    <3>1. settings' = own[p].mem
      BY <2>1 DEF Replace
    <3>2. own[p].mem \in [api_token : Tokens, shown : BOOLEAN]
      BY <1>0 DEF Owns
    <3> QED BY <3>1, <3>2
  <2> QED BY <1>0, <2>1 DEF Changes, Typed
<1>2. pro' \in {"absent", "stale", "current"}
  <2>1. CASE Install(p)
    BY <1>0, <2>1 DEF Install, Typed
  <2> QED BY <1>0, <2>1 DEF Changes, Typed
<1>3. FirstSettings' = FirstSettings /\ Tokens' = Tokens /\ Owns' = Owns
  BY <1>0, SameSets
<1> QED BY <1>0, <1>1, <1>2, <1>3 DEF Typed, Changes, Flowing, Answers

LEMMA Step == IInv /\ [Next]_vars => IInv'
<1> SUFFICES ASSUME IInv, [Next]_vars PROVE IInv'
  OBVIOUS
<1>1. CASE World
  BY <1>1, WorldStep
<1>2. ASSUME NEW p \in Procs, Act(p) PROVE IInv'
  <2>1. Typed' /\ Sound' /\ Answered' /\ ExitCodeTells'
    BY <1>2, TypedStep, SoundStep, AnswerStep, ToldStep
  <2>2. \A q \in Procs : Flow(q)' /\ LoggingIn(q)' /\ Succeeded(q)' /\ TestRun(q)'
    BY <1>2, FlowStep, LoginStep, SucceedStep, TestsStep DEF Flowing
  <2> QED BY <2>1, <2>2 DEF IInv
<1> QED BY <1>1, <1>2, Steps

LEMMA Invariance == Spec => []IInv
BY InitInv, Step, PTL DEF Spec

(* Type correctness: a process has an exit code once it is done and not    *)
(* before, it polls at most MAX_RETRIES times, and only targets have       *)
(* copies.                                                                 *)
THEOREM CommandTypeCorrect == Spec => []TypeOK
<1>1. IInv => TypeOK
  <2> SUFFICES ASSUME IInv, NEW p \in Procs
      PROVE  /\ settings \in FirstSettings \cup [api_token : Tokens, shown : BOOLEAN]
             /\ pro \in {"absent", "stale", "current"}
             /\ exit[p] \in {NoCode} \cup 0 .. 13
             /\ (exit[p] = NoCode) = (pc[p] # "done")
             /\ own[p].mem \in [api_token : Tokens, shown : BOOLEAN]
             /\ own[p].polls \in 0 .. MAX_RETRIES
             /\ own[p].candidate \in Tokens
             /\ DOMAIN test[p].copies \subseteq UNION {test[p].targets[c] : c \in DOMAIN test[p].targets}
    BY DEF TypeOK, IInv, Typed
  <2>1. own[p] \in Owns
    BY DEF IInv, Typed
  <2>2. /\ own[p].mem \in [api_token : Tokens, shown : BOOLEAN]
        /\ own[p].polls \in 0 .. MAX_RETRIES /\ own[p].candidate \in Tokens
    BY <2>1 DEF Owns
  <2>3. exit[p] \in {NoCode} \cup 0 .. 13 /\ (exit[p] = NoCode) = (pc[p] # "done")
    BY DEF IInv, Flow, FlowAt
  <2> QED BY <2>2, <2>3 DEF IInv, Typed, TestRun
<1> QED BY <1>1, Invariance, PTL

(* However many commands read, change and replace the settings file at the *)
(* same time, and whichever of them die, the file is never torn, its token *)
(* is one the app accepted or had at first, and it says that the notice of *)
(* the metrics was shown only after a command showed it, or kept it from   *)
(* the user as --quiet asked.                                              *)
THEOREM SettingsStaySound == Spec => []SettingsAreSound
<1>1. IInv => SettingsAreSound
  BY DEF IInv, Sound
<1> QED BY <1>1, Invariance, PTL

(* Whoever writes the cache of the version check last, and wherever        *)
(* another write broke off, a message that is shown came whole from one    *)
(* answer of the app.                                                      *)
THEOREM MessagesAreWhole == Spec => []ShownIsWhole
<1>1. IInv => ShownIsWhole
  <2> SUFFICES ASSUME IInv, NEW p \in Procs PROVE own[p].shown \subseteq Messages
    BY DEF ShownIsWhole, Messages
  <2>1. own[p] \in Owns
    BY DEF IInv, Typed
  <2> QED BY <2>1 DEF Owns
<1> QED BY <1>1, Invariance, PTL

(* What the exit codes 0 and 1 of a finished scan, test, `ci`, `login` or  *)
(* `publish` promise, with the exceptions the property lists, for any      *)
(* files and any number of other commands: for a test, whatever order its  *)
(* workers fix the copies in and whichever of them fail.                   *)
THEOREM CodesTellTheTruth == Spec => []ExitCodeTells
<1>1. IInv => ExitCodeTells
  BY DEF IInv
<1> QED BY <1>1, Invariance, PTL
=============================================================================
