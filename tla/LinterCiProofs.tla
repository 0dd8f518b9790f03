---------------------------- MODULE LinterCiProofs ---------------------------
(***************************************************************************)
(* Proofs about LinterCi, for any command lines, configurations and scan   *)
(* outcomes, any number of retries and of jobs that are killed: what the   *)
(* app is left with, which commit is scanned, that a broken download never *)
(* becomes the engine, and that the verdict is that of the findings.       *)
(***************************************************************************)
EXTENDS LinterCi, FiniteSetTheorems, WellFoundedInduction, TLAPS

(* The pro engine while it is installed: what will be renamed answered the *)
(* version check, and the old one is gone before.                          *)
Installs ==
  /\ InstalledIsWhole
  /\ pc \in {"unlink", "rename"} => pro.tmp = "whole"
  /\ pc = "rename" => pro.bin = "none"
  /\ pc = "stamp" => pro.bin = "whole"

(* The checkout of a pull request: before fix_head it is as found, after   *)
(* it at the head of the pull request, and the way back is known.          *)
BeforeFix == {"usage", "token", "suppress", "fix head"}
AfterFix == {"merge base", "start", "poll", "rules", "engine", "download", "check version", "unlink",
             "rename", "stamp", "scan", "history", "classify", "results", "complete", "decide",
             "report failure"}
Places == BeforeFix \cup AfterFix \cup {"leave", "done"}

HeadIsKnown ==
  /\ pc \in BeforeFix => stashed = None
  /\ pc \in AfterFix /\ IsPullRequestEvent(cmd.env) /\ ~Empty => head = "pr"
  /\ pc \in {"suppress", "fix head", "merge base"} => ~Empty
  /\ head = "pr" => on = "detached"
  /\ head = "base" => cmd.branch = "base"
  /\ stashed = "base" => cmd.branch = "base"
  /\ stashed # None => on = "detached"
  /\ on # cmd.branch => IsPullRequestEvent(cmd.env)
  /\ kills = 0 => stashed # "pr" /\ (stashed = None => head # "pr")

(* What the app has been told, and when.                                   *)
Upload ==
  /\ app \in [scans : SUBSET RequestIds, findings : {NotUploaded, Report}, done : BOOLEAN, failed : BOOLEAN]
  /\ app.done => pc \in {"complete", "decide", "leave", "done"}
  /\ app.failed => pc \in {"report failure", "leave", "done"} /\ ~app.done
  /\ app.findings # NotUploaded => pc \in {"results", "complete", "decide", "leave", "done"}
  /\ app.done \/ pc = "complete" => app.findings # NotUploaded
  /\ pc = "complete" => ~DryRun
  /\ DryRun => app = NoScan

(* What was found, and what of it blocks: of the first scan everything is  *)
(* kept or removed, of the second only what was kept.                      *)
BeforeScan == BeforeFix \cup {"merge base", "start", "poll", "rules", "engine", "download",
                              "check version", "unlink", "rename", "stamp", "scan"}
Judged ==
  \/ pc \in {"results", "complete", "decide"}
  \/ pc \in {"leave", "done"} /\ code \in {OK, FINDINGS}

Findings ==
  /\ pc \in BeforeScan => found = NoFindings /\ scanned = {} /\ blocking = {}
  /\ found.kept = {m \in scanned : ~EnableNosem \/ cmd.sarif \/ ~m.ignored}
  /\ found.removed = {m \in scanned : EnableNosem /\ ~cmd.sarif /\ m.ignored /\ ~m.history}
  /\ pc = "history" => \A m \in scanned : ~m.history
  /\ \A m \in scanned : m.id # None
  /\ \A m, n \in scanned : Entry(m) = Entry(n) => m = n
  /\ Judged => blocking = {m \in Shown : ~Suppressed(m) /\ IsBlocking(m)}
  /\ pc = "poll" => Handler
  /\ ~Handler => config = NoConfig

(* The code that will be the command's, once it is chosen.                 *)
Verdict ==
  /\ pc = "report failure" => code \notin {OK, FINDINGS}
  /\ pc \in {"leave", "done"} /\ code \in {OK, FINDINGS} /\ ~Empty =>
       (code = FINDINGS <=> ~AuditMode /\ (blocking # {} \/ PolicyBlock \/ OtherBlock))

IInv == TypeOK /\ pc \in Places /\ Installs /\ HeadIsKnown /\ Upload /\ Findings /\ Verdict

(* At first nothing is found, reported or installed.                       *)
LEMMA InitInv == Init => IInv
BY CiAssumption
DEF CiAssumption, Init, StartOfJob, IInv, TypeOK, Codes, Places, BeforeFix, AfterFix, BeforeScan, Installs,
    InstalledIsWhole, HeadIsKnown, Upload, Findings, Judged, Verdict, NoScan, NotUploaded, NoFindings, NoConfig,
    Shown, Handler, NoCode, None, RequestIds, FATAL, OK, FINDINGS

(* The bounds, and the engines that --engine names.                        *)
LEMMA Bounds ==
  /\ Requests \in Nat \ {0}
  /\ Posts \in Nat /\ Polls \in Nat /\ Fetches \in Nat /\ Completes \in Nat /\ MaxKills \in Nat
BY CiAssumption DEF CiAssumption

LEMMA EngineOf ==
  ASSUME cmd \in Commands
  PROVE  cmd.engine \in {None, "oss", "intrafile", "interfile"}
BY CiAssumption DEF CiAssumption

(* The exit codes, of the command itself and of run_scan.                  *)
LEMMA CodesKnown ==
  /\ {NoCode, OK, FINDINGS, FATAL, MISSING_CONFIG, INVALID_API_KEY} \subseteq Codes
  /\ \A o \in Outcomes \cup Histories : o.code \in Codes /\ o.code # FINDINGS
BY CiAssumption DEF CiAssumption, Codes

(* The variables stay well typed, whatever the outcome of a request.       *)
LEMMA TypeStep == IInv /\ [Next]_vars => TypeOK'
<1> SUFFICES ASSUME IInv, [Next]_vars PROVE TypeOK'
  OBVIOUS
<1> USE Bounds, CodesKnown DEF IInv, TypeOK, local, counters, results, Goto, Leave, Installing, None
<1>1. CASE CheckUsage
  BY <1>1 DEF CheckUsage
<1>2. CASE CheckToken
  BY <1>2 DEF CheckToken
<1>3. CASE ForceSuppress
  <2>1. UNCHANGED <<local, config, counters, engine, pro, code, exit, kills>>
    BY <1>3 DEF ForceSuppress
  <2> QED BY <2>1
<1>4. CASE FixHead
  <2>1. UNCHANGED <<cmd, base, fetches, config, counters, engine, pro, exit, kills>>
    BY <1>4 DEF FixHead
  <2>2. FetchBase \subseteq {head, "base"}
    BY DEF FetchBase
  <2>3. /\ head' \in FetchBase \cup {head, "pr"} /\ on' \in {on, "detached"}
        /\ stashed' \in FetchBase \cup {stashed}
        /\ code' \in {code, FATAL}
    BY <1>4 DEF FixHead
  <2>4. head' \in {"found", "base", "pr"} /\ stashed' \in {None, "found", "base", "pr"}
    BY <2>2, <2>3
  <2>5. on' \in {cmd.branch, "detached"} /\ code' \in Codes
    BY <2>3
  <2> QED BY <2>1, <2>4, <2>5
<1>5. CASE KnownMergeBase
  <2>1. UNCHANGED <<cmd, head, on, stashed, fetches, config, counters, engine, pro, exit, kills>>
    BY <1>5 DEF KnownMergeBase
  <2>2. base' \in {base, "none", "commit"} /\ code' \in {code, FATAL}
    BY <1>5 DEF KnownMergeBase
  <2> QED BY <2>1, <2>2
<1>6. CASE SearchMergeBase
  <2>1. UNCHANGED <<cmd, head, on, stashed, config, counters, engine, pro, exit, kills>>
    BY <1>6 DEF SearchMergeBase
  <2>2. base' \in {base, "commit"} /\ code' \in {code, FATAL}
    BY <1>6 DEF SearchMergeBase
  <2>3. fetches' = fetches \/ (fetches < Fetches /\ fetches' = fetches + 1)
    BY <1>6 DEF SearchMergeBase
  <2>4. fetches' \in 0..Fetches
    BY <2>3
  <2> QED BY <2>1, <2>2, <2>4
<1>7. CASE StartSaved
  BY <1>7 DEF StartSaved, LoadSavedConfig, HandleScanResponse, AfterStart
<1>8. CASE PostScan
  BY <1>8 DEF PostScan, Send, RequestFailed
<1>9. CASE PollConfig
  BY <1>9 DEF PollConfig, HandleScanResponse, AfterStart, RequestFailed
<1>10. CASE PollTimeout
  BY <1>10 DEF PollTimeout
<1>11. CASE CheckRules
  <2>1. UNCHANGED <<local, config, counters, engine, pro, exit, kills>>
    BY <1>11 DEF CheckRules
  <2>2. code' \in {code, MISSING_CONFIG}
    BY <1>11 DEF CheckRules
  <2> QED BY <2>1, <2>2
<1>12. CASE DecideEngine
  BY <1>12, EngineOf DEF DecideEngine, Decided, None
<1>13. CASE Download
  <2>1. UNCHANGED <<local, config, counters, engine, exit, kills>>
    BY <1>13 DEF Download
  <2>2. code' \in Codes
    BY <1>13 DEF Download
  <2>3. \E t \in {pro.tmp, "whole", "partial"} : pro' = [pro EXCEPT !.tmp = t]
    BY <1>13 DEF Download
  <2>4. pro' \in [bin : {"none", "old", "partial", "whole"}, tmp : {"none", "partial", "whole"},
                  stamp : {"none", "old", "current"}]
    BY <2>3
  <2> QED BY <2>1, <2>2, <2>4
<1>14. CASE CheckVersion
  <2>1. UNCHANGED <<local, config, counters, engine, exit, kills>>
    BY <1>14 DEF CheckVersion
  <2>2. code' \in Codes
    BY <1>14 DEF CheckVersion
  <2>3. \E t \in {pro.tmp, "none"} : pro' = [pro EXCEPT !.tmp = t]
    BY <1>14 DEF CheckVersion
  <2>4. pro' \in [bin : {"none", "old", "partial", "whole"}, tmp : {"none", "partial", "whole"},
                  stamp : {"none", "old", "current"}]
    BY <2>3
  <2> QED BY <2>1, <2>2, <2>4
<1>15. CASE UnlinkOld
  BY <1>15 DEF UnlinkOld
<1>16. CASE Rename
  <2>1. UNCHANGED <<local, config, counters, engine, code, exit, kills>>
    BY <1>16 DEF Rename
  <2>2. pro' = [pro EXCEPT !.bin = pro.tmp, !.tmp = "none"]
    BY <1>16 DEF Rename
  <2>3. pro' \in [bin : {"none", "old", "partial", "whole"}, tmp : {"none", "partial", "whole"},
                  stamp : {"none", "old", "current"}]
    BY <2>2
  <2> QED BY <2>1, <2>3
<1>17. CASE Stamp
  BY <1>17 DEF Stamp
<1>18. CASE RunScan
  <2>1. UNCHANGED <<local, config, counters, engine, pro, exit, kills>>
    BY <1>18 DEF RunScan, Failed
  <2>2. code' \in Codes
    BY <1>18 DEF RunScan, Failed
  <2> QED BY <2>1, <2>2
<1>19. CASE Classify
  BY <1>19 DEF Classify
<1>20. CASE PostResults
  BY <1>20 DEF PostResults, Send
<1>21. CASE PostComplete
  BY <1>21 DEF PostComplete, Send
<1>22. CASE ReportFailure
  <2>1. UNCHANGED <<local, config, posts, polls, engine, pro, exit, kills>>
    BY <1>22 DEF ReportFailure
  <2>2. code' \in {code, FATAL}
    BY <1>22 DEF ReportFailure, Send
  <2>3. \/ sends' \in {sends, 0}
        \/ sends + 1 < Requests /\ sends' = sends + 1
    BY <1>22 DEF ReportFailure, Send
  <2>4. sends' \in 0..(Requests - 1)
    BY <2>3
  <2> QED BY <2>1, <2>2, <2>4
<1>23. CASE DecideExit
  BY <1>23 DEF DecideExit
<1>24. CASE Exit
  BY <1>24 DEF Exit, FailOpen
<1>25. CASE Kill
  BY <1>25 DEF Kill, NoCode, None
<1>27. CASE ScanHistory
  <2>1. UNCHANGED <<local, config, counters, engine, pro, exit, kills>>
    BY <1>27 DEF ScanHistory
  <2>2. code' \in Codes
    BY <1>27 DEF ScanHistory
  <2> QED BY <2>1, <2>2
<1>26. CASE UNCHANGED vars
  BY <1>26 DEF vars
<1> QED
  BY <1>1, <1>2, <1>3, <1>4, <1>5, <1>6, <1>7, <1>8, <1>9, <1>10, <1>11, <1>12, <1>13, <1>14,
     <1>15, <1>16, <1>17, <1>18, <1>19, <1>20, <1>21, <1>22, <1>23, <1>24, <1>25, <1>26, <1>27
  DEF Next, Step

(* The command is always at one of its places.                             *)
LEMMA PlaceStep == IInv /\ [Next]_vars => (pc \in Places)'
<1> SUFFICES ASSUME IInv, [Next]_vars PROVE (pc \in Places)'
  OBVIOUS
<1> USE DEF IInv, Places, BeforeFix, AfterFix, local, counters, results, Goto, Leave
<1>1. CASE CheckUsage
  BY <1>1 DEF CheckUsage
<1>2. CASE CheckToken
  BY <1>2 DEF CheckToken
<1>3. CASE ForceSuppress
  BY <1>3 DEF ForceSuppress
<1>4. CASE FixHead
  BY <1>4 DEF FixHead
<1>5. CASE KnownMergeBase
  BY <1>5 DEF KnownMergeBase
<1>6. CASE SearchMergeBase
  BY <1>6 DEF SearchMergeBase
<1>7. CASE StartSaved
  BY <1>7 DEF StartSaved, LoadSavedConfig, HandleScanResponse, AfterStart
<1>8. CASE PostScan
  BY <1>8 DEF PostScan, Send, RequestFailed
<1>9. CASE PollConfig
  BY <1>9 DEF PollConfig, HandleScanResponse, AfterStart, RequestFailed
<1>10. CASE PollTimeout
  BY <1>10 DEF PollTimeout
<1>11. CASE CheckRules
  BY <1>11 DEF CheckRules
<1>12. CASE DecideEngine
  BY <1>12 DEF DecideEngine
<1>13. CASE Download
  BY <1>13 DEF Download
<1>14. CASE CheckVersion
  BY <1>14 DEF CheckVersion
<1>15. CASE UnlinkOld
  BY <1>15 DEF UnlinkOld
<1>16. CASE Rename
  BY <1>16 DEF Rename
<1>17. CASE Stamp
  BY <1>17 DEF Stamp
<1>18. CASE RunScan
  BY <1>18 DEF RunScan, Failed
<1>19. CASE Classify
  BY <1>19 DEF Classify
<1>20. CASE PostResults
  BY <1>20 DEF PostResults, Send
<1>21. CASE PostComplete
  BY <1>21 DEF PostComplete, Send
<1>22. CASE ReportFailure
  BY <1>22 DEF ReportFailure, Send
<1>23. CASE DecideExit
  BY <1>23 DEF DecideExit
<1>24. CASE Exit
  BY <1>24 DEF Exit
<1>25. CASE Kill
  BY <1>25 DEF Kill
<1>27. CASE ScanHistory
  BY <1>27 DEF ScanHistory
<1>26. CASE UNCHANGED vars
  BY <1>26 DEF vars
<1> QED
  BY <1>1, <1>2, <1>3, <1>4, <1>5, <1>6, <1>7, <1>8, <1>9, <1>10, <1>11, <1>12, <1>13, <1>14,
     <1>15, <1>16, <1>17, <1>18, <1>19, <1>20, <1>21, <1>22, <1>23, <1>24, <1>25, <1>26, <1>27
  DEF Next, Step

(* Killed at any step, the installation leaves no engine that was not      *)
(* checked.                                                                *)
LEMMA InstallsStep == IInv /\ [Next]_vars => Installs'
<1> SUFFICES ASSUME IInv, [Next]_vars PROVE Installs'
  OBVIOUS
<1> USE DEF IInv, TypeOK, Installs, InstalledIsWhole, local, counters, results, Goto, Leave, Installing
<1>1. CASE CheckUsage
  BY <1>1 DEF CheckUsage
<1>2. CASE CheckToken
  BY <1>2 DEF CheckToken
<1>3. CASE ForceSuppress
  BY <1>3 DEF ForceSuppress
<1>4. CASE FixHead
  BY <1>4 DEF FixHead
<1>5. CASE KnownMergeBase
  BY <1>5 DEF KnownMergeBase
<1>6. CASE SearchMergeBase
  BY <1>6 DEF SearchMergeBase
<1>7. CASE StartSaved
  BY <1>7 DEF StartSaved, LoadSavedConfig, HandleScanResponse, AfterStart
<1>8. CASE PostScan
  BY <1>8 DEF PostScan, Send, RequestFailed
<1>9. CASE PollConfig
  BY <1>9 DEF PollConfig, HandleScanResponse, AfterStart, RequestFailed
<1>10. CASE PollTimeout
  BY <1>10 DEF PollTimeout
<1>11. CASE CheckRules
  BY <1>11 DEF CheckRules
<1>12. CASE DecideEngine
  BY <1>12 DEF DecideEngine
<1>13. CASE Download
  BY <1>13 DEF Download
<1>14. CASE CheckVersion
  BY <1>14 DEF CheckVersion
<1>15. CASE UnlinkOld
  BY <1>15 DEF UnlinkOld
<1>16. CASE Rename
  BY <1>16 DEF Rename
<1>17. CASE Stamp
  BY <1>17 DEF Stamp
<1>18. CASE RunScan
  BY <1>18 DEF RunScan, Failed
<1>19. CASE Classify
  BY <1>19 DEF Classify
<1>20. CASE PostResults
  BY <1>20 DEF PostResults, Send
<1>21. CASE PostComplete
  BY <1>21 DEF PostComplete, Send
<1>22. CASE ReportFailure
  BY <1>22 DEF ReportFailure, Send
<1>23. CASE DecideExit
  BY <1>23 DEF DecideExit
<1>24. CASE Exit
  BY <1>24 DEF Exit
<1>25. CASE Kill
  BY <1>25 DEF Kill
<1>27. CASE ScanHistory
  BY <1>27 DEF ScanHistory
<1>26. CASE UNCHANGED vars
  BY <1>26 DEF vars
<1> QED
  BY <1>1, <1>2, <1>3, <1>4, <1>5, <1>6, <1>7, <1>8, <1>9, <1>10, <1>11, <1>12, <1>13, <1>14,
     <1>15, <1>16, <1>17, <1>18, <1>19, <1>20, <1>21, <1>22, <1>23, <1>24, <1>25, <1>26, <1>27
  DEF Next, Step

(* A job that runs again is not the first.                                 *)
LEMMA KillsCounted == IInv /\ kills' = kills + 1 => kills' # 0
<1>1. IInv => kills \in Nat
  BY Bounds DEF IInv, TypeOK
<1> QED BY <1>1

(* The checkout follows the pull request, and comes back.                  *)
LEMMA HeadStep == IInv /\ [Next]_vars => HeadIsKnown'
<1> SUFFICES ASSUME IInv, [Next]_vars PROVE HeadIsKnown'
  OBVIOUS
<1> USE Bounds DEF IInv, TypeOK, HeadIsKnown, BeforeFix, AfterFix, Empty, Handler, None, local, counters, results, Goto, Leave, Installing
<1>1. CASE CheckUsage
  BY <1>1 DEF CheckUsage
<1>2. CASE CheckToken
  BY <1>2 DEF CheckToken
<1>3. CASE ForceSuppress
  BY <1>3 DEF ForceSuppress
<1>4. CASE FixHead
  <2>1. pc = "fix head" /\ stashed = None /\ ~Empty /\ UNCHANGED <<cmd, kills>>
    BY <1>4 DEF FixHead
  <2>2. \A h \in FetchBase : h \in {head, "base"} /\ (h = "base" => head = "base" \/ cmd.branch = "base")
    BY DEF FetchBase
  <2>3. \/ ~IsPullRequestEvent(cmd.env) /\ UNCHANGED <<head, on, stashed>> /\ pc' = "merge base"
        \/ head' \in FetchBase /\ UNCHANGED <<on, stashed>> /\ pc' = "leave"
        \/ IsPullRequestEvent(cmd.env) /\ head' = "pr" /\ on' = "detached" /\ stashed' \in FetchBase
           /\ pc' = "merge base"
    BY <1>4 DEF FixHead
  <2> QED BY <2>1, <2>2, <2>3
<1>5. CASE KnownMergeBase
  BY <1>5 DEF KnownMergeBase
<1>6. CASE SearchMergeBase
  BY <1>6 DEF SearchMergeBase
<1>7. CASE StartSaved
  BY <1>7 DEF StartSaved, LoadSavedConfig, HandleScanResponse, AfterStart
<1>8. CASE PostScan
  BY ZenonT(40), <1>8 DEF PostScan, Send, RequestFailed
<1>9. CASE PollConfig
  BY ZenonT(40), <1>9 DEF PollConfig, HandleScanResponse, AfterStart, RequestFailed
<1>10. CASE PollTimeout
  BY <1>10 DEF PollTimeout
<1>11. CASE CheckRules
  BY <1>11 DEF CheckRules
<1>12. CASE DecideEngine
  BY <1>12 DEF DecideEngine
<1>13. CASE Download
  BY <1>13 DEF Download
<1>14. CASE CheckVersion
  BY <1>14 DEF CheckVersion
<1>15. CASE UnlinkOld
  BY <1>15 DEF UnlinkOld
<1>16. CASE Rename
  BY <1>16 DEF Rename
<1>17. CASE Stamp
  BY <1>17 DEF Stamp
<1>18. CASE RunScan
  BY <1>18 DEF RunScan, Failed
<1>19. CASE Classify
  BY <1>19 DEF Classify
<1>20. CASE PostResults
  BY <1>20 DEF PostResults, Send
<1>21. CASE PostComplete
  BY <1>21 DEF PostComplete, Send
<1>22. CASE ReportFailure
  BY <1>22 DEF ReportFailure, Send
<1>23. CASE DecideExit
  BY <1>23 DEF DecideExit
<1>24. CASE Exit
  BY <1>24 DEF Exit
<1>25. CASE Kill
  <2>1. kills' = kills + 1 /\ stashed' = None /\ pc' = "usage" /\ UNCHANGED <<cmd, head, on>>
    BY <1>25 DEF Kill
  <2>2. kills' # 0
    BY <2>1, KillsCounted
  <2> QED BY <2>1, <2>2
<1>27. CASE ScanHistory
  BY <1>27 DEF ScanHistory
<1>26. CASE UNCHANGED vars
  BY <1>26 DEF vars
<1> QED
  BY <1>1, <1>2, <1>3, <1>4, <1>5, <1>6, <1>7, <1>8, <1>9, <1>10, <1>11, <1>12, <1>13, <1>14,
     <1>15, <1>16, <1>17, <1>18, <1>19, <1>20, <1>21, <1>22, <1>23, <1>24, <1>25, <1>26, <1>27
  DEF Next, Step

(* What a step that leaves the command line, the configuration, the        *)
(* findings and the job alone cannot change.                               *)
LEMMA SameReport ==
  /\ UNCHANGED <<cmd, kills>> => DryRun' = DryRun /\ RequestIds' = RequestIds /\ Handler' = Handler /\ Empty' = Empty
  /\ UNCHANGED <<cmd, config>> => EnableNosem' = EnableNosem
  /\ UNCHANGED <<cmd, config, found>> => Report' = Report /\ Shown' = Shown
<1>1. UNCHANGED <<cmd, kills>> => DryRun' = DryRun /\ RequestIds' = RequestIds /\ Handler' = Handler /\ Empty' = Empty
  BY DEF DryRun, RequestIds, Handler, Empty
<1>2. UNCHANGED <<cmd, config>> => EnableNosem' = EnableNosem
  BY DEF EnableNosem
<1>3. UNCHANGED <<cmd, config, found>> => Report' = Report
  BY DEF Report, EnableNosem
<1>4. UNCHANGED <<cmd, config, found>> => Shown' = Shown
  BY DEF Shown, Handler
<1> QED BY <1>1, <1>2, <1>3, <1>4

(* What is uploaded can be told from nothing: no finding has the id None.  *)
LEMMA ReportTells == Findings => Report # NotUploaded
<1> SUFFICES ASSUME Findings, Report = NotUploaded PROVE FALSE
  OBVIOUS
<1>1. NoEntry \in Report.findings
  BY DEF NotUploaded
<1>2. PICK m \in found.kept \cup found.removed : Entry(m) = NoEntry
  BY <1>1 DEF Report
<1>3. m.id = None
  BY <1>2 DEF Entry, NoEntry
<1>4. m \in scanned
  BY DEF Findings
<1> QED BY <1>3, <1>4 DEF Findings

(* Before the results are posted the app knows of the scan alone, and a    *)
(* step that tells it nothing keeps that.                                  *)
Told == {"results", "complete", "decide", "report failure", "leave", "done"}

LEMMA UploadQuiet ==
  IInv /\ pc \notin Told /\ UNCHANGED <<app, cmd, kills>> /\ pc' # "complete" => Upload'
BY SameReport DEF IInv, Upload, Told

LEMMA UploadSame ==
  /\ IInv /\ UNCHANGED <<app, cmd, config, found, kills>>
  /\ \/ pc' = pc
     \/ pc = "decide" /\ pc' = "leave"
     \/ pc = "leave" /\ pc' = "done"
  => Upload'
BY SameReport DEF IInv, Upload

(* The app keeps one scan per job, and is told of it in order.             *)
LEMMA UploadStep == IInv /\ [Next]_vars => Upload'
<1> SUFFICES ASSUME IInv, [Next]_vars PROVE Upload'
  OBVIOUS
<1> USE DEF local, counters, results, Goto, Leave, Installing
<1>1. CASE CheckUsage
  <2>1. pc \notin Told /\ UNCHANGED <<app, cmd, kills>> /\ pc' # "complete"
    BY <1>1 DEF CheckUsage, Told
  <2> QED BY <2>1, UploadQuiet
<1>2. CASE CheckToken
  <2>1. pc \notin Told /\ UNCHANGED <<app, cmd, kills>> /\ pc' # "complete"
    BY <1>2 DEF CheckToken, Told
  <2> QED BY <2>1, UploadQuiet
<1>3. CASE ForceSuppress
  <2>1. pc \notin Told /\ UNCHANGED <<app, cmd, kills>> /\ pc' # "complete"
    BY <1>3 DEF ForceSuppress, Told
  <2> QED BY <2>1, UploadQuiet
<1>4. CASE FixHead
  <2>1. pc \notin Told /\ UNCHANGED <<app, cmd, kills>> /\ pc' # "complete"
    BY <1>4 DEF FixHead, Told
  <2> QED BY <2>1, UploadQuiet
<1>5. CASE KnownMergeBase
  <2>1. pc \notin Told /\ UNCHANGED <<app, cmd, kills>> /\ pc' # "complete"
    BY <1>5 DEF KnownMergeBase, Told
  <2> QED BY <2>1, UploadQuiet
<1>6. CASE SearchMergeBase
  <2>1. pc \notin Told /\ UNCHANGED <<app, cmd, kills>> /\ pc' # "complete"
    BY <1>6 DEF SearchMergeBase, Told
  <2> QED BY <2>1, UploadQuiet
<1>7. CASE StartSaved
  <2>1. pc \notin Told /\ UNCHANGED <<app, cmd, kills>> /\ pc' # "complete"
    BY <1>7 DEF StartSaved, LoadSavedConfig, HandleScanResponse, AfterStart, Told
  <2> QED BY <2>1, UploadQuiet
<1>8. CASE PostScan
  <2>1. pc = "start" /\ pc' # "complete" /\ UNCHANGED <<cmd, kills, config, found>>
    BY <1>8 DEF PostScan, Send, RequestFailed
  <2>2. app' = app \/ app' = [app EXCEPT !.scans = @ \cup RequestIds]
    BY <1>8 DEF PostScan, Send
  <2>3. app.findings = NotUploaded /\ ~app.done /\ ~app.failed
    BY <2>1 DEF IInv, Upload
  <2>4. DryRun => RequestIds = {}
    BY DEF RequestIds
  <2>5. app' \in [scans : SUBSET RequestIds, findings : {NotUploaded}, done : {FALSE}, failed : {FALSE}]
    BY <2>2, <2>3 DEF IInv, Upload
  <2>6. DryRun => app' = NoScan
    BY <2>4, <2>5 DEF NoScan
  <2>7. DryRun' = DryRun /\ RequestIds' = RequestIds
    BY <2>1, SameReport
  <2> QED BY <2>1, <2>5, <2>6, <2>7 DEF Upload
<1>9. CASE PollConfig
  <2>1. pc \notin Told /\ UNCHANGED <<app, cmd, kills>> /\ pc' # "complete"
    BY <1>9 DEF PollConfig, HandleScanResponse, AfterStart, RequestFailed, Told
  <2> QED BY <2>1, UploadQuiet
<1>10. CASE PollTimeout
  <2>1. pc \notin Told /\ UNCHANGED <<app, cmd, kills>> /\ pc' # "complete"
    BY <1>10 DEF PollTimeout, Told
  <2> QED BY <2>1, UploadQuiet
<1>11. CASE CheckRules
  <2>1. pc \notin Told /\ UNCHANGED <<app, cmd, kills>> /\ pc' # "complete"
    BY <1>11 DEF CheckRules, Told
  <2> QED BY <2>1, UploadQuiet
<1>12. CASE DecideEngine
  <2>1. pc \notin Told /\ UNCHANGED <<app, cmd, kills>> /\ pc' # "complete"
    BY <1>12 DEF DecideEngine, Told
  <2> QED BY <2>1, UploadQuiet
<1>13. CASE Download
  <2>1. pc \notin Told /\ UNCHANGED <<app, cmd, kills>> /\ pc' # "complete"
    BY <1>13 DEF Download, Told
  <2> QED BY <2>1, UploadQuiet
<1>14. CASE CheckVersion
  <2>1. pc \notin Told /\ UNCHANGED <<app, cmd, kills>> /\ pc' # "complete"
    BY <1>14 DEF CheckVersion, Told
  <2> QED BY <2>1, UploadQuiet
<1>15. CASE UnlinkOld
  <2>1. pc \notin Told /\ UNCHANGED <<app, cmd, kills>> /\ pc' # "complete"
    BY <1>15 DEF UnlinkOld, Told
  <2> QED BY <2>1, UploadQuiet
<1>16. CASE Rename
  <2>1. pc \notin Told /\ UNCHANGED <<app, cmd, kills>> /\ pc' # "complete"
    BY <1>16 DEF Rename, Told
  <2> QED BY <2>1, UploadQuiet
<1>17. CASE Stamp
  <2>1. pc \notin Told /\ UNCHANGED <<app, cmd, kills>> /\ pc' # "complete"
    BY <1>17 DEF Stamp, Told
  <2> QED BY <2>1, UploadQuiet
<1>18. CASE RunScan
  <2>1. pc \notin Told /\ UNCHANGED <<app, cmd, kills>> /\ pc' # "complete"
    BY <1>18 DEF RunScan, Failed, Told
  <2> QED BY <2>1, UploadQuiet
<1>19. CASE Classify
  <2>1. pc \notin Told /\ UNCHANGED <<app, cmd, kills>> /\ pc' # "complete"
    BY <1>19 DEF Classify, Told
  <2> QED BY <2>1, UploadQuiet
<1>20. CASE PostResults
  <2>1. pc = "results" /\ UNCHANGED <<cmd, kills, config, found>>
    BY <1>20 DEF PostResults
  <2>2. \/ app' = app /\ pc' \in {"results", "decide", "leave"}
        \/ ~DryRun /\ app' = [app EXCEPT !.findings = Report]
           /\ pc' \in {"results", "complete", "leave"}
    BY <1>20 DEF PostResults, Send
  <2>3. ~app.done /\ ~app.failed
    BY <2>1 DEF IInv, Upload
  <2>4. Report # NotUploaded
    BY ReportTells DEF IInv
  <2>5. app' \in [scans : SUBSET RequestIds, findings : {NotUploaded, Report}, done : {FALSE}, failed : {FALSE}]
    BY <2>2, <2>3 DEF IInv, Upload
  <2>6. /\ pc' = "complete" => app'.findings # NotUploaded /\ ~DryRun
        /\ DryRun => app' = NoScan
    BY <2>2, <2>4 DEF IInv, Upload
  <2>7. pc' \in {"results", "complete", "decide", "leave"}
    BY <2>2
  <2>8. DryRun' = DryRun /\ RequestIds' = RequestIds /\ Report' = Report
    BY <2>1, SameReport
  <2> QED BY <2>5, <2>6, <2>7, <2>8 DEF Upload
<1>21. CASE PostComplete
  <2>1. pc = "complete" /\ UNCHANGED <<cmd, kills, config, found>>
    BY <1>21 DEF PostComplete
  <2>2. /\ app' = app \/ app' = [app EXCEPT !.done = TRUE]
        /\ pc' \in {"complete", "decide", "leave"}
    BY <1>21 DEF PostComplete, Send
  <2>3. app.findings # NotUploaded /\ ~app.failed /\ ~DryRun
    BY <2>1 DEF IInv, Upload
  <2>4. app' \in [scans : SUBSET RequestIds, findings : {Report}, done : BOOLEAN, failed : {FALSE}]
    BY <2>2, <2>3 DEF IInv, Upload
  <2>5. app'.findings # NotUploaded
    BY <2>2, <2>3 DEF IInv, Upload
  <2>6. DryRun' = DryRun /\ RequestIds' = RequestIds /\ Report' = Report
    BY <2>1, SameReport
  <2> QED BY <2>2, <2>3, <2>4, <2>5, <2>6 DEF Upload
<1>22. CASE ReportFailure
  <2>1. pc = "report failure" /\ UNCHANGED <<cmd, kills, config, found>>
    BY <1>22 DEF ReportFailure
  <2>2. /\ app' = app \/ (~DryRun /\ app' = [app EXCEPT !.failed = TRUE])
        /\ pc' \in {"report failure", "leave"}
    BY <1>22 DEF ReportFailure, Send
  <2>3. app.findings = NotUploaded /\ ~app.done
    BY <2>1 DEF IInv, Upload
  <2>4. app' \in [scans : SUBSET RequestIds, findings : {NotUploaded}, done : {FALSE}, failed : BOOLEAN]
    BY <2>2, <2>3 DEF IInv, Upload
  <2>5. DryRun => app' = NoScan
    BY <2>2 DEF IInv, Upload
  <2>6. DryRun' = DryRun /\ RequestIds' = RequestIds
    BY <2>1, SameReport
  <2> QED BY <2>2, <2>4, <2>5, <2>6 DEF Upload
<1>23. CASE DecideExit
  <2>1. UNCHANGED <<app, cmd, config, found, kills>> /\ pc = "decide" /\ pc' = "leave"
    BY <1>23 DEF DecideExit
  <2> QED BY <2>1, UploadSame
<1>24. CASE Exit
  <2>1. UNCHANGED <<app, cmd, config, found, kills>> /\ pc = "leave" /\ pc' = "done"
    BY <1>24 DEF Exit
  <2> QED BY <2>1, UploadSame
<1>25. CASE Kill
  <2>1. app' = NoScan /\ pc' = "usage"
    BY <1>25 DEF Kill
  <2> QED BY <2>1 DEF Upload, NoScan
<1>27. CASE ScanHistory
  <2>1. pc \notin Told /\ UNCHANGED <<app, cmd, kills>> /\ pc' # "complete"
    BY <1>27 DEF ScanHistory, Told
  <2> QED BY <2>1, UploadQuiet
<1>26. CASE UNCHANGED vars
  BY <1>26, UploadSame DEF vars
<1> QED
  BY <1>1, <1>2, <1>3, <1>4, <1>5, <1>6, <1>7, <1>8, <1>9, <1>10, <1>11, <1>12, <1>13, <1>14,
     <1>15, <1>16, <1>17, <1>18, <1>19, <1>20, <1>21, <1>22, <1>23, <1>24, <1>25, <1>26, <1>27
  DEF Next, Step

(* No error has the code of success or of findings.                        *)
LEMMA ErrorCodes ==
  /\ FATAL \notin {OK, FINDINGS} /\ MISSING_CONFIG \notin {OK, FINDINGS}
  /\ INVALID_API_KEY \notin {OK, FINDINGS} /\ OK # FINDINGS
BY DEF OK, FINDINGS, FATAL, MISSING_CONFIG, INVALID_API_KEY

(* A step that leaves the findings and what decides about them alone.      *)
LEMMA FindingsKept ==
  /\ IInv /\ UNCHANGED <<cmd, config, scanned, found, blocking>>
  /\ pc \in BeforeScan \/ (pc' \notin BeforeScan /\ (Judged' => Judged))
  /\ pc' \notin {"poll", "history"}
  => Findings'
<1> SUFFICES ASSUME IInv, UNCHANGED <<cmd, config, scanned, found, blocking>>,
                    pc \in BeforeScan \/ (pc' \notin BeforeScan /\ (Judged' => Judged)),
                    pc' \notin {"poll", "history"}
             PROVE  Findings'
  OBVIOUS
<1>1. EnableNosem' = EnableNosem /\ Shown' = Shown /\ Handler' = Handler
  BY SameReport DEF Handler
<1>2. pc' \in BeforeScan => found' = NoFindings /\ scanned' = {} /\ blocking' = {}
  BY DEF IInv, Findings
<1>3. \A m : Suppressed(m)' <=> Suppressed(m)
  BY <1>1 DEF Suppressed
<1>4. pc \in BeforeScan => Shown = {} /\ blocking = {}
  BY DEF IInv, Findings, Shown, NoFindings
<1>5. Judged' => blocking' = {m \in Shown' : ~Suppressed(m)' /\ IsBlocking(m)}
  BY <1>1, <1>3, <1>4 DEF IInv, Findings
<1> HIDE DEF Judged, Shown, Suppressed
<1> QED BY <1>1, <1>2, <1>5 DEF IInv, Findings, Entry

(* While nothing is found, nothing blocks, whatever the configuration.     *)
LEMMA NothingFound ==
  /\ IInv /\ pc \in BeforeScan => found = NoFindings /\ scanned = {} /\ blocking = {}
  /\ /\ found' = NoFindings /\ scanned' = {} /\ blocking' = {}
     /\ pc' = "poll" => Handler'
     /\ ~Handler' => config' = NoConfig
     => Findings'
<1>1. ASSUME IInv, pc \in BeforeScan PROVE found = NoFindings /\ scanned = {} /\ blocking = {}
  BY <1>1 DEF IInv, Findings
<1>2. ASSUME found' = NoFindings, scanned' = {}, blocking' = {}, pc' = "poll" => Handler',
             ~Handler' => config' = NoConfig
      PROVE  Findings'
  <2>1. Shown' = {}
    BY <1>2 DEF Shown, NoFindings
  <2>2. found'.kept = {} /\ found'.removed = {}
    BY <1>2 DEF NoFindings
  <2> QED BY <1>2, <2>1, <2>2 DEF Findings
<1> QED BY <1>1, <1>2

(* A scan keeps or removes what it returned, and tells it apart.           *)
LEMMA ScanReturns ==
  ASSUME NEW o \in Outcomes
  PROVE  /\ FilterIgnored(o.found, ~EnableNosem \/ cmd.sarif).kept =
              {m \in o.found : ~EnableNosem \/ cmd.sarif \/ ~m.ignored}
         /\ FilterIgnored(o.found, ~EnableNosem \/ cmd.sarif).removed =
              {m \in o.found : EnableNosem /\ ~cmd.sarif /\ m.ignored /\ ~m.history}
         /\ \A m \in o.found : m.id # None /\ ~m.history
         /\ \A m, n \in o.found : Entry(m) = Entry(n) => m = n
<1>1. \A m \in o.found : m.id # None /\ ~m.history
  BY CiAssumption DEF CiAssumption
<1>2. \A m, n \in o.found : Entry(m) = Entry(n) => m = n
  BY CiAssumption DEF CiAssumption, Entry
<1> QED BY <1>1, <1>2 DEF FilterIgnored

(* The history's findings join those of the checkout, all but those that   *)
(* are suppressed.                                                         *)
LEMMA HistoryReturns ==
  ASSUME Findings, pc = "history", NEW o \in Histories
  PROVE  /\ Merged(o.found).kept = {m \in scanned \cup o.found : ~EnableNosem \/ cmd.sarif \/ ~m.ignored}
         /\ Merged(o.found).removed =
              {m \in scanned \cup o.found : EnableNosem /\ ~cmd.sarif /\ m.ignored /\ ~m.history}
         /\ \A m \in scanned \cup o.found : m.id # None
         /\ \A m, n \in scanned \cup o.found : Entry(m) = Entry(n) => m = n
<1>1. \A m \in o.found : m.id # None /\ m.history
  BY CiAssumption DEF CiAssumption
<1>2. \A m, n \in o.found : m.id = n.id => m = n
  BY CiAssumption DEF CiAssumption
<1>3. \A m \in scanned : m.id # None /\ ~m.history
  BY DEF Findings
<1>4. \A m, n \in scanned \cup o.found : Entry(m) = Entry(n) => m = n
  BY <1>1, <1>2, <1>3 DEF Findings, Entry
<1> QED BY <1>1, <1>3, <1>4 DEF Findings, Merged, FilterIgnored

(* Findings come from the scan and are judged as they are.                 *)
LEMMA FindingsStep == IInv /\ [Next]_vars => Findings'
<1> SUFFICES ASSUME IInv, [Next]_vars PROVE Findings'
  OBVIOUS
<1> USE ErrorCodes DEF local, counters, results, Goto, Leave, Installing
<1>1. CASE CheckUsage
  <2>1. UNCHANGED <<cmd, config, scanned, found, blocking>>
        /\ pc \in BeforeScan /\ pc' \notin {"poll", "history"}
    BY <1>1 DEF CheckUsage, BeforeScan, BeforeFix
  <2> QED BY <2>1, FindingsKept
<1>2. CASE CheckToken
  <2>1. UNCHANGED <<cmd, config, scanned, found, blocking>>
        /\ pc \in BeforeScan /\ pc' \notin {"poll", "history"}
    BY <1>2 DEF CheckToken, BeforeScan, BeforeFix
  <2> QED BY <2>1, FindingsKept
<1>3. CASE ForceSuppress
  <2>1. UNCHANGED <<cmd, config, scanned, found, blocking>>
        /\ pc \in BeforeScan /\ pc' \notin {"poll", "history"}
    BY <1>3 DEF ForceSuppress, BeforeScan, BeforeFix
  <2> QED BY <2>1, FindingsKept
<1>4. CASE FixHead
  <2>1. UNCHANGED <<cmd, config, scanned, found, blocking>>
        /\ pc \in BeforeScan /\ pc' \notin {"poll", "history"}
    BY <1>4 DEF FixHead, BeforeScan, BeforeFix
  <2> QED BY <2>1, FindingsKept
<1>5. CASE KnownMergeBase
  <2>1. UNCHANGED <<cmd, config, scanned, found, blocking>>
        /\ pc \in BeforeScan /\ pc' \notin {"poll", "history"}
    BY <1>5 DEF KnownMergeBase, BeforeScan, BeforeFix
  <2> QED BY <2>1, FindingsKept
<1>6. CASE SearchMergeBase
  <2>1. UNCHANGED <<cmd, config, scanned, found, blocking>>
        /\ pc \in BeforeScan /\ pc' \notin {"poll", "history"}
    BY <1>6 DEF SearchMergeBase, BeforeScan, BeforeFix
  <2> QED BY <2>1, FindingsKept
<1>7. CASE StartSaved
  <2>1. /\ UNCHANGED <<cmd, scanned, found, blocking>> /\ pc = "start" /\ pc' # "poll"
        /\ Handler \/ UNCHANGED config
    BY <1>7 DEF StartSaved, LoadSavedConfig, HandleScanResponse, AfterStart
  <2>2. found' = NoFindings /\ scanned' = {} /\ blocking' = {} /\ (~Handler => config = NoConfig)
    BY <2>1, NothingFound DEF IInv, Findings, BeforeScan
  <2>3. Handler' = Handler
    BY <2>1 DEF Handler
  <2> QED BY <2>1, <2>2, <2>3, NothingFound
<1>8. CASE PostScan
  <2>1. UNCHANGED <<cmd, config, scanned, found, blocking>> /\ pc = "start" /\ Handler
    BY <1>8 DEF PostScan
  <2>2. found' = NoFindings /\ scanned' = {} /\ blocking' = {}
    BY <2>1, NothingFound DEF BeforeScan
  <2>3. Handler'
    BY <2>1 DEF Handler
  <2> QED BY <2>2, <2>3, NothingFound
<1>9. CASE PollConfig
  <2>1. UNCHANGED <<cmd, scanned, found, blocking>> /\ pc = "poll"
    BY <1>9 DEF PollConfig
  <2>2. found' = NoFindings /\ scanned' = {} /\ blocking' = {} /\ Handler
    BY <2>1, NothingFound DEF BeforeScan, IInv, Findings
  <2>3. Handler'
    BY <2>1, <2>2 DEF Handler
  <2> QED BY <2>2, <2>3, NothingFound
<1>10. CASE PollTimeout
  <2>1. UNCHANGED <<cmd, config, scanned, found, blocking>>
        /\ pc \in BeforeScan /\ pc' \notin {"poll", "history"}
    BY <1>10 DEF PollTimeout, BeforeScan, BeforeFix
  <2> QED BY <2>1, FindingsKept
<1>11. CASE CheckRules
  <2>1. UNCHANGED <<cmd, config, scanned, found, blocking>>
        /\ pc \in BeforeScan /\ pc' \notin {"poll", "history"}
    BY <1>11 DEF CheckRules, BeforeScan, BeforeFix
  <2> QED BY <2>1, FindingsKept
<1>12. CASE DecideEngine
  <2>1. UNCHANGED <<cmd, config, scanned, found, blocking>>
        /\ pc \in BeforeScan /\ pc' \notin {"poll", "history"}
    BY <1>12 DEF DecideEngine, BeforeScan, BeforeFix
  <2> QED BY <2>1, FindingsKept
<1>13. CASE Download
  <2>1. UNCHANGED <<cmd, config, scanned, found, blocking>>
        /\ pc \in BeforeScan /\ pc' \notin {"poll", "history"}
    BY <1>13 DEF Download, BeforeScan, BeforeFix
  <2> QED BY <2>1, FindingsKept
<1>14. CASE CheckVersion
  <2>1. UNCHANGED <<cmd, config, scanned, found, blocking>>
        /\ pc \in BeforeScan /\ pc' \notin {"poll", "history"}
    BY <1>14 DEF CheckVersion, BeforeScan, BeforeFix
  <2> QED BY <2>1, FindingsKept
<1>15. CASE UnlinkOld
  <2>1. UNCHANGED <<cmd, config, scanned, found, blocking>>
        /\ pc \in BeforeScan /\ pc' \notin {"poll", "history"}
    BY <1>15 DEF UnlinkOld, BeforeScan, BeforeFix
  <2> QED BY <2>1, FindingsKept
<1>16. CASE Rename
  <2>1. UNCHANGED <<cmd, config, scanned, found, blocking>>
        /\ pc \in BeforeScan /\ pc' \notin {"poll", "history"}
    BY <1>16 DEF Rename, BeforeScan, BeforeFix
  <2> QED BY <2>1, FindingsKept
<1>17. CASE Stamp
  <2>1. UNCHANGED <<cmd, config, scanned, found, blocking>>
        /\ pc \in BeforeScan /\ pc' \notin {"poll", "history"}
    BY <1>17 DEF Stamp, BeforeScan, BeforeFix
  <2> QED BY <2>1, FindingsKept
<1>18. CASE RunScan
  <2>1. UNCHANGED <<cmd, config, blocking>> /\ pc = "scan"
        /\ (pc' = "leave" => code' \notin {OK, FINDINGS})
        /\ pc' \in {"history", "classify", "leave", "report failure"}
    BY <1>18, CodesKnown DEF RunScan, Failed
  <2>2. \/ UNCHANGED <<scanned, found>> /\ pc' # "history"
        \/ /\ pc' \in {"history", "classify"}
           /\ \E o \in Outcomes :
                scanned' = o.found /\ found' = FilterIgnored(o.found, ~EnableNosem \/ cmd.sarif)
    BY <1>18 DEF RunScan, Failed
  <2>3. found = NoFindings /\ scanned = {} /\ blocking = {} /\ (~Handler => config = NoConfig)
    BY <2>1, NothingFound DEF BeforeScan, IInv, Findings
  <2>4. EnableNosem' = EnableNosem /\ Handler' = Handler
    BY <2>1, SameReport DEF Handler
  <2>5. CASE UNCHANGED <<scanned, found>> /\ pc' # "history"
    BY <2>1, <2>3, <2>4, <2>5, NothingFound
  <2>6. ASSUME NEW o \in Outcomes, pc' \in {"history", "classify"}, scanned' = o.found,
               found' = FilterIgnored(o.found, ~EnableNosem \/ cmd.sarif)
        PROVE  Findings'
    <3>1. ~Judged' /\ pc' \notin BeforeScan /\ pc' # "poll"
      BY <2>6 DEF Judged, BeforeScan, BeforeFix
    <3>2. /\ found'.kept = {m \in scanned' : ~EnableNosem \/ cmd.sarif \/ ~m.ignored}
          /\ found'.removed = {m \in scanned' : EnableNosem /\ ~cmd.sarif /\ m.ignored /\ ~m.history}
          /\ \A m \in scanned' : m.id # None /\ ~m.history
          /\ \A m, n \in scanned' : Entry(m) = Entry(n) => m = n
      BY <2>6, ScanReturns
    <3> QED BY <2>1, <2>3, <2>4, <3>1, <3>2 DEF Findings, Entry
  <2> QED BY <2>2, <2>5, <2>6
<1>27. CASE ScanHistory
  <2>1. UNCHANGED <<cmd, config, blocking>> /\ pc = "history"
        /\ (pc' = "leave" => code' \notin {OK, FINDINGS}) /\ pc' \in {"classify", "leave"}
    BY <1>27, CodesKnown DEF ScanHistory
  <2>2. \/ UNCHANGED <<scanned, found>>
        \/ \E o \in Histories : scanned' = scanned \cup o.found /\ found' = Merged(o.found)
    BY <1>27 DEF ScanHistory
  <2>3. ~Judged' /\ pc' \notin BeforeScan /\ pc' \notin {"poll", "history"}
    BY <2>1 DEF Judged, BeforeScan, BeforeFix
  <2>4. CASE UNCHANGED <<scanned, found>>
    BY <2>1, <2>3, <2>4, FindingsKept
  <2>5. ASSUME NEW o \in Histories, scanned' = scanned \cup o.found, found' = Merged(o.found)
        PROVE  Findings'
    <3>1. EnableNosem' = EnableNosem /\ Handler' = Handler /\ (~Handler => config = NoConfig)
      BY <2>1, SameReport DEF Handler, IInv, Findings
    <3>2. /\ found'.kept = {m \in scanned' : ~EnableNosem \/ cmd.sarif \/ ~m.ignored}
          /\ found'.removed = {m \in scanned' : EnableNosem /\ ~cmd.sarif /\ m.ignored /\ ~m.history}
          /\ \A m \in scanned' : m.id # None
          /\ \A m, n \in scanned' : Entry(m) = Entry(n) => m = n
      BY <2>1, <2>5, HistoryReturns DEF IInv
    <3> QED BY <2>1, <2>3, <3>1, <3>2 DEF Findings, Entry
  <2> QED BY <2>2, <2>4, <2>5
<1>19. CASE Classify
  <2>1. UNCHANGED <<cmd, config, scanned, found>> /\ pc = "classify" /\ pc' \in {"results", "decide"}
        /\ blocking' = {m \in Shown : ~Suppressed(m) /\ IsBlocking(m)}
    BY <1>19 DEF Classify
  <2>2. EnableNosem' = EnableNosem /\ Shown' = Shown /\ Handler' = Handler
    BY <2>1, SameReport DEF Handler
  <2>3. \A m : Suppressed(m)' <=> Suppressed(m)
    BY <2>2 DEF Suppressed
  <2>4. blocking' = {m \in Shown' : ~Suppressed(m)' /\ IsBlocking(m)}
    BY <2>1, <2>2, <2>3
  <2> QED BY <2>1, <2>2, <2>4 DEF IInv, Findings, BeforeScan, BeforeFix, Entry
<1>20. CASE PostResults
  <2>1. UNCHANGED <<cmd, config, scanned, found, blocking>>
        /\ pc' \notin BeforeScan /\ pc' \notin {"poll", "history"} /\ (Judged' => Judged)
    BY <1>20 DEF PostResults, Send, BeforeScan, BeforeFix, Judged
  <2> QED BY <2>1, FindingsKept DEF BeforeScan
<1>21. CASE PostComplete
  <2>1. UNCHANGED <<cmd, config, scanned, found, blocking>>
        /\ pc' \notin BeforeScan /\ pc' \notin {"poll", "history"} /\ (Judged' => Judged)
    BY <1>21 DEF PostComplete, Send, BeforeScan, BeforeFix, Judged
  <2> QED BY <2>1, FindingsKept DEF BeforeScan
<1>22. CASE ReportFailure
  <2>1. UNCHANGED <<cmd, config, scanned, found, blocking>>
        /\ pc' \notin BeforeScan /\ pc' \notin {"poll", "history"} /\ (Judged' => Judged)
    BY <1>22 DEF ReportFailure, Send, BeforeScan, BeforeFix, Judged, IInv, Verdict
  <2> QED BY <2>1, FindingsKept DEF BeforeScan
<1>23. CASE DecideExit
  <2>1. UNCHANGED <<cmd, config, scanned, found, blocking>>
        /\ pc' \notin BeforeScan /\ pc' \notin {"poll", "history"} /\ (Judged' => Judged)
    BY <1>23 DEF DecideExit, BeforeScan, BeforeFix, Judged
  <2> QED BY <2>1, FindingsKept DEF BeforeScan
<1>24. CASE Exit
  <2>1. UNCHANGED <<cmd, config, scanned, found, blocking>>
        /\ pc' \notin BeforeScan /\ pc' \notin {"poll", "history"} /\ (Judged' => Judged)
    BY <1>24 DEF Exit, BeforeScan, BeforeFix, Judged
  <2> QED BY <2>1, FindingsKept DEF BeforeScan
<1>25. CASE Kill
  <2>1. found' = NoFindings /\ scanned' = {} /\ blocking' = {} /\ config' = NoConfig /\ pc' = "usage"
    BY <1>25 DEF Kill
  <2> QED BY <2>1, NothingFound
<1>26. CASE UNCHANGED vars
  <2>1. UNCHANGED <<cmd, config, scanned, found, blocking, pc, code>>
    BY <1>26 DEF vars
  <2>2. EnableNosem' = EnableNosem /\ Shown' = Shown /\ Handler' = Handler
    BY <2>1, SameReport DEF Handler
  <2>3. \A m : Suppressed(m)' <=> Suppressed(m)
    BY <2>2 DEF Suppressed
  <2>4. Judged' = Judged
    BY <2>1 DEF Judged
  <2>5. Judged' => blocking' = {m \in Shown' : ~Suppressed(m)' /\ IsBlocking(m)}
    BY <2>1, <2>2, <2>3, <2>4 DEF IInv, Findings
  <2> QED BY <2>1, <2>2, <2>5 DEF IInv, Findings, Entry
<1> QED
  BY <1>1, <1>2, <1>3, <1>4, <1>5, <1>6, <1>7, <1>8, <1>9, <1>10, <1>11, <1>12, <1>13, <1>14,
     <1>15, <1>16, <1>17, <1>18, <1>19, <1>20, <1>21, <1>22, <1>23, <1>24, <1>25, <1>26, <1>27
  DEF Next, Step

(* A step that does not end the command, or ends it with an error.         *)
LEMMA VerdictQuiet ==
  /\ pc' # "report failure"
  /\ pc' \in {"leave", "done"} => code' \notin {OK, FINDINGS} \/ Empty'
  => Verdict'
BY DEF Verdict

(* Only the decision ends with the code of findings.                       *)
LEMMA VerdictStep == IInv /\ [Next]_vars => Verdict'
<1> SUFFICES ASSUME IInv, [Next]_vars PROVE Verdict'
  OBVIOUS
<1> USE ErrorCodes DEF local, counters, results, Goto, Leave, Installing
<1>1. CASE CheckUsage
  <2>1. pc' # "report failure" /\ (pc' = "leave" => code' \notin {OK, FINDINGS}) /\ pc' # "done"
    BY <1>1 DEF CheckUsage
  <2> QED BY <2>1, VerdictQuiet
<1>2. CASE CheckToken
  <2>1. pc' # "report failure" /\ (pc' = "leave" => code' \notin {OK, FINDINGS}) /\ pc' # "done"
    BY <1>2 DEF CheckToken
  <2> QED BY <2>1, VerdictQuiet
<1>3. CASE ForceSuppress
  <2>1. pc' # "report failure" /\ (pc' = "leave" => code' \notin {OK, FINDINGS}) /\ pc' # "done"
    BY <1>3 DEF ForceSuppress
  <2> QED BY <2>1, VerdictQuiet
<1>4. CASE FixHead
  <2>1. pc' # "report failure" /\ (pc' = "leave" => code' \notin {OK, FINDINGS}) /\ pc' # "done"
    BY <1>4 DEF FixHead
  <2> QED BY <2>1, VerdictQuiet
<1>5. CASE KnownMergeBase
  <2>1. pc' # "report failure" /\ (pc' = "leave" => code' \notin {OK, FINDINGS}) /\ pc' # "done"
    BY <1>5 DEF KnownMergeBase
  <2> QED BY <2>1, VerdictQuiet
<1>6. CASE SearchMergeBase
  <2>1. pc' # "report failure" /\ (pc' = "leave" => code' \notin {OK, FINDINGS}) /\ pc' # "done"
    BY <1>6 DEF SearchMergeBase
  <2> QED BY <2>1, VerdictQuiet
<1>7. CASE StartSaved
  <2>1. pc' # "report failure" /\ (pc' = "leave" => code' \notin {OK, FINDINGS}) /\ pc' # "done"
    BY <1>7 DEF StartSaved, LoadSavedConfig, HandleScanResponse, AfterStart
  <2> QED BY <2>1, VerdictQuiet
<1>8. CASE PostScan
  <2>1. pc' # "report failure" /\ (pc' = "leave" => code' \notin {OK, FINDINGS}) /\ pc' # "done"
    BY ZenonT(40), <1>8 DEF PostScan, Send, RequestFailed
  <2> QED BY <2>1, VerdictQuiet
<1>9. CASE PollConfig
  <2>1. pc' # "report failure" /\ (pc' = "leave" => code' \notin {OK, FINDINGS}) /\ pc' # "done"
    BY ZenonT(40), <1>9 DEF PollConfig, HandleScanResponse, AfterStart, RequestFailed
  <2> QED BY <2>1, VerdictQuiet
<1>10. CASE PollTimeout
  <2>1. pc' # "report failure" /\ (pc' = "leave" => code' \notin {OK, FINDINGS}) /\ pc' # "done"
    BY <1>10 DEF PollTimeout
  <2> QED BY <2>1, VerdictQuiet
<1>11. CASE CheckRules
  <2>1. (pc' = "leave" \/ pc' = "report failure" => code' = MISSING_CONFIG) /\ pc' # "done"
    BY <1>11 DEF CheckRules
  <2> QED BY <2>1 DEF Verdict
<1>12. CASE DecideEngine
  <2>1. pc' # "report failure" /\ (pc' = "leave" => code' \notin {OK, FINDINGS}) /\ pc' # "done"
    BY <1>12 DEF DecideEngine
  <2> QED BY <2>1, VerdictQuiet
<1>13. CASE Download
  <2>1. pc' # "report failure" /\ (pc' = "leave" => code' \notin {OK, FINDINGS}) /\ pc' # "done"
    BY <1>13 DEF Download
  <2> QED BY <2>1, VerdictQuiet
<1>14. CASE CheckVersion
  <2>1. pc' # "report failure" /\ (pc' = "leave" => code' \notin {OK, FINDINGS}) /\ pc' # "done"
    BY <1>14 DEF CheckVersion
  <2> QED BY <2>1, VerdictQuiet
<1>15. CASE UnlinkOld
  <2>1. pc' # "report failure" /\ (pc' = "leave" => code' \notin {OK, FINDINGS}) /\ pc' # "done"
    BY <1>15 DEF UnlinkOld
  <2> QED BY <2>1, VerdictQuiet
<1>16. CASE Rename
  <2>1. pc' # "report failure" /\ (pc' = "leave" => code' \notin {OK, FINDINGS}) /\ pc' # "done"
    BY <1>16 DEF Rename
  <2> QED BY <2>1, VerdictQuiet
<1>17. CASE Stamp
  <2>1. pc' # "report failure" /\ (pc' = "leave" => code' \notin {OK, FINDINGS}) /\ pc' # "done"
    BY <1>17 DEF Stamp
  <2> QED BY <2>1, VerdictQuiet
<1>18. CASE RunScan
  <2>1. (pc' = "leave" \/ pc' = "report failure" => code' \notin {OK, FINDINGS}) /\ pc' # "done"
    BY <1>18, CodesKnown DEF RunScan, Failed
  <2> QED BY <2>1 DEF Verdict
<1>19. CASE Classify
  <2>1. pc' # "report failure" /\ (pc' = "leave" => code' \notin {OK, FINDINGS}) /\ pc' # "done"
    BY <1>19 DEF Classify
  <2> QED BY <2>1, VerdictQuiet
<1>20. CASE PostResults
  <2>1. pc' # "report failure" /\ pc' # "done" /\ cmd' = cmd
        /\ (pc' = "leave" => code' \notin {OK, FINDINGS} \/ Empty)
    BY <1>20 DEF PostResults, Send
  <2>2. Empty' = Empty
    BY <2>1 DEF Empty, Handler
  <2> QED BY <2>1, <2>2, VerdictQuiet
<1>21. CASE PostComplete
  <2>1. pc' # "report failure" /\ pc' # "done" /\ cmd' = cmd
        /\ (pc' = "leave" => code' \notin {OK, FINDINGS} \/ Empty)
    BY <1>21 DEF PostComplete, Send
  <2>2. Empty' = Empty
    BY <2>1 DEF Empty, Handler
  <2> QED BY <2>1, <2>2, VerdictQuiet
<1>22. CASE ReportFailure
  <2>1. code' \in {code, FATAL} /\ pc' \in {"leave", "report failure"} /\ code \notin {OK, FINDINGS}
    BY <1>22 DEF ReportFailure, Send, IInv, Verdict
  <2> QED BY <2>1 DEF Verdict
<1>23. CASE DecideExit
  <2>1. /\ UNCHANGED <<cmd, config, blocking, complete>> /\ pc' = "leave"
        /\ code' = FINDINGS <=> ~AuditMode /\ (blocking # {} \/ PolicyBlock \/ OtherBlock)
    BY <1>23 DEF DecideExit, OK, FINDINGS
  <2> QED BY <2>1 DEF Verdict, AuditMode, PolicyBlock, OtherBlock
<1>24. CASE Exit
  <2>1. UNCHANGED <<cmd, config, blocking, complete, code>> /\ pc = "leave" /\ pc' = "done"
    BY <1>24 DEF Exit
  <2> QED BY <2>1 DEF IInv, Verdict, AuditMode, PolicyBlock, OtherBlock, Empty, Handler
<1>25. CASE Kill
  <2>1. pc' = "usage"
    BY <1>25 DEF Kill
  <2> QED BY <2>1, VerdictQuiet
<1>27. CASE ScanHistory
  <2>1. pc' # "report failure" /\ (pc' = "leave" => code' \notin {OK, FINDINGS}) /\ pc' # "done"
    BY <1>27, CodesKnown DEF ScanHistory
  <2> QED BY <2>1, VerdictQuiet
<1>26. CASE UNCHANGED vars
  <2>1. UNCHANGED <<cmd, config, blocking, complete, code, pc>>
    BY <1>26 DEF vars
  <2> QED BY <2>1 DEF IInv, Verdict, AuditMode, PolicyBlock, OtherBlock, Empty, Handler
<1> QED
  BY <1>1, <1>2, <1>3, <1>4, <1>5, <1>6, <1>7, <1>8, <1>9, <1>10, <1>11, <1>12, <1>13, <1>14,
     <1>15, <1>16, <1>17, <1>18, <1>19, <1>20, <1>21, <1>22, <1>23, <1>24, <1>25, <1>26, <1>27
  DEF Next, Step

(* The invariant holds in every state of every job.                        *)
LEMMA InvHolds == Spec => []IInv
<1>1. IInv /\ [Next]_vars => IInv'
  BY TypeStep, PlaceStep, InstallsStep, HeadStep, UploadStep, FindingsStep, VerdictStep DEF IInv
<1> QED BY InitInv, <1>1, PTL DEF Spec

(* The variables of the command keep their types.                          *)
THEOREM CiTypeCorrect == Spec => []TypeOK
<1>1. IInv => TypeOK
  BY DEF IInv
<1> QED BY <1>1, InvHolds, PTL

(* No sequence of failed downloads and killed jobs leaves an engine that   *)
(* the next job would take for the current one though it never answered    *)
(* the version check.                                                      *)
THEOREM EngineIsChecked == Spec => []InstalledIsWhole
<1>1. IInv => InstalledIsWhole
  BY DEF IInv, Installs
<1> QED BY <1>1, InvHolds, PTL

-----------------------------------------------------------------------------
(* The app's view                                                          *)

(* At most one scan is kept under one unique_id, and what was uploaded     *)
(* splits what was found by its nosemgrep comments.                        *)
LEMMA OneScan == IInv => Cardinality({s \in app.scans : s.job = kills}) <= 1
<1> SUFFICES ASSUME IInv PROVE Cardinality({s \in app.scans : s.job = kills}) <= 1
  OBVIOUS
<1> DEFINE id == [job |-> kills, id |-> 0, meta |-> ToProjectMetadata(cmd.env, cmd.subdir)]
           S == {s \in app.scans : s.job = kills}
<1>1. RequestIds \subseteq {id}
  BY DEF RequestIds
<1>2. S \subseteq {id}
  BY <1>1 DEF IInv, Upload
<1>3. IsFiniteSet({id}) /\ Cardinality({id}) = 1
  BY FS_Singleton
<1>4. Cardinality(S) <= Cardinality({id})
  BY <1>2, <1>3, FS_Subset
<1> HIDE DEF S, id
<1>5. Cardinality(S) <= 1
  BY <1>3, <1>4
<1> QED BY <1>5 DEF S

(* What is uploaded is what the scans returned, but for what is suppressed *)
(* in the history and not kept for SARIF.                                  *)
LEMMA ReportIsExact ==
  Findings =>
    /\ Report.findings = {Entry(m) : m \in scanned \ Silenced}
    /\ Report.ignores = {Entry(m) : m \in {n \in Silenced : cmd.sarif \/ ~n.history}}
    /\ Report.findings \cap Report.ignores = {}
<1> SUFFICES ASSUME Findings
             PROVE  /\ Report.findings = {Entry(m) : m \in scanned \ Silenced}
                    /\ Report.ignores = {Entry(m) : m \in {n \in Silenced : cmd.sarif \/ ~n.history}}
                    /\ Report.findings \cap Report.ignores = {}
  OBVIOUS
<1> DEFINE all == found.kept \cup found.removed
           F == {n \in all : ~EnableNosem \/ ~n.ignored}
           G == {n \in all : EnableNosem /\ n.ignored}
<1>1. Report.findings = {Entry(m) : m \in F} /\ Report.ignores = {Entry(m) : m \in G}
  BY DEF Report
<1>2. F = scanned \ Silenced
  BY DEF Findings, Silenced
<1>3. G = {n \in Silenced : cmd.sarif \/ ~n.history}
  BY DEF Findings, Silenced
<1>4. F \subseteq scanned /\ G \subseteq scanned /\ F \cap G = {}
  BY <1>2, <1>3 DEF Silenced
<1>5. \A m, n \in scanned : Entry(m) = Entry(n) => m = n
  BY DEF Findings
<1> HIDE DEF F, G
<1>6. Report.findings \cap Report.ignores = {}
  BY <1>1, <1>4, <1>5
<1> QED BY <1>1, <1>2, <1>3, <1>6

(* Requests may be lost, repeated or given up, and jobs killed, as often   *)
(* as they like: the app is never told of two scans of one job, of a scan  *)
(* both complete and failed, or of findings that are not those of its two  *)
(* scans.                                                                  *)
THEOREM AppIsNeverMisled == Spec => []AppStaysConsistent
<1>1. ASSUME IInv PROVE AppStaysConsistent
  <2>1. Cardinality({s \in app.scans : s.job = kills}) <= 1
    BY <1>1, OneScan
  <2>2. app.done => app.findings # NotUploaded /\ ~app.failed
    BY <1>1 DEF IInv, Upload
  <2>3. DryRun => app = NoScan
    BY <1>1 DEF IInv, Upload
  <2>4. app.findings # NotUploaded => app.findings = Report
    BY <1>1 DEF IInv, Upload
  <2>5. /\ Report.findings = {Entry(m) : m \in scanned \ Silenced}
        /\ Report.ignores = {Entry(m) : m \in {n \in Silenced : cmd.sarif \/ ~n.history}}
        /\ Report.findings \cap Report.ignores = {}
    BY <1>1, ReportIsExact DEF IInv
  <2> QED BY <2>1, <2>2, <2>3, <2>4, <2>5 DEF AppStaysConsistent
<1> QED BY <1>1, InvHolds, PTL

(* Findings that a comment suppresses were filtered, kept for SARIF or not *)
(* looked at, and in no case do they count; nothing else is left out.      *)
LEMMA BlockingIsExact ==
  ASSUME Findings, Judged
  PROVE  blocking # {} <=>
           \E m \in scanned \ Silenced :
             IsBlocking(m) /\ ~m.transient /\ ~m.cai /\ m.id \notin config.triaged
<1>1. blocking = {m \in Shown : ~Suppressed(m) /\ IsBlocking(m)}
  BY DEF Findings
<1>2. Shown = {m \in found.kept : ~m.transient /\ ~m.cai /\ m.id \notin config.triaged}
  BY DEF Shown, Findings, NoConfig
<1>3. \A m : m \in found.kept /\ ~Suppressed(m) <=> m \in scanned \ Silenced
  BY DEF Findings, Suppressed, Silenced
<1> QED BY <1>1, <1>2, <1>3

(* Whatever the app answers and however the scan ends: outside audit mode  *)
(* the command fails for findings if and only if one of them blocks.       *)
THEOREM VerdictIsThatOfFindings == Spec => []VerdictMatchesFindings
<1>1. ASSUME IInv, pc = "done", code \in {OK, FINDINGS}, ~Empty
      PROVE  code = FINDINGS <=>
               /\ ~AuditMode
               /\ \/ \E m \in scanned \ Silenced :
                       IsBlocking(m) /\ ~m.transient /\ ~m.cai /\ m.id \notin config.triaged
                  \/ complete = "override" /\ (config.blockIds # {} \/ config.reason)
  <2>1. code = FINDINGS <=> ~AuditMode /\ (blocking # {} \/ PolicyBlock \/ OtherBlock)
    BY <1>1 DEF IInv, Verdict
  <2>2. PolicyBlock \/ OtherBlock <=> complete = "override" /\ (config.blockIds # {} \/ config.reason)
    BY DEF PolicyBlock, OtherBlock
  <2>3. blocking # {} <=>
          \E m \in scanned \ Silenced :
            IsBlocking(m) /\ ~m.transient /\ ~m.cai /\ m.id \notin config.triaged
    BY <1>1, BlockingIsExact DEF IInv, Judged
  <2> QED BY <2>1, <2>2, <2>3
<1>2. IInv => VerdictMatchesFindings
  BY <1>1 DEF VerdictMatchesFindings
<1> QED BY <1>2, InvHolds, PTL

-----------------------------------------------------------------------------
(* The commit that is scanned                                              *)

(* A list of variables has a first one that is set, or none.               *)
LEMMA FirstIsOneOf ==
  ASSUME NEW env, NEW S, NEW names \in Seq(S), NEW default
  PROVE  First(env, names, default) = default \/ \E i \in DOMAIN names : First(env, names, default) = names[i]
<1> DEFINE set == {i \in DOMAIN names : names[i] \in env}
<1>1. CASE set = {}
  BY <1>1 DEF First
<1>2. CASE set # {}
  <2>1. set \subseteq Nat
    BY DEF First
  <2> HIDE DEF set
  <2>2. PICK k \in set : \A i \in set : <<i, k>> \notin OpToRel(<, Nat)
    BY <1>2, <2>1, NatLessThanWellFounded, WFMin
  <2>3. \A i \in set : ~(i < k)
    BY <2>1, <2>2 DEF OpToRel
  <2>4. \A i \in set : k <= i
    <3>1. k \in Nat
      BY <2>1, <2>2
    <3>2. \A i \in set : i \in Nat /\ ~(i < k)
      BY <2>1, <2>3
    <3> QED BY <3>1, <3>2
  <2>5. Min(set) \in set
    BY <2>2, <2>4 DEF Min
  <2>6. First(env, names, default) = names[Min(set)]
    BY <1>2 DEF First, set
  <2> QED BY <2>5, <2>6 DEF set
<1> QED BY <1>1, <1>2

(* The variables that commit_sha may come from: a pull request's head is   *)
(* not one of them.                                                        *)
CommitVariables == {
  "SEMGREP_COMMIT", "CI_COMMIT_SHA", "CIRCLE_SHA1", "GIT_COMMIT", "BITBUCKET_COMMIT",
  "SYSTEM_PULLREQUEST_SOURCECOMMITID", "BUILD_SOURCEVERSION", "BUILDKITE_COMMIT", "TRAVIS_COMMIT"}

LEMMA CommitSources == \A provider : Sources(provider).commit \in Seq(CommitVariables)
<1>1. GithubSources.commit \in Seq(CommitVariables)
  BY DEF GithubSources
<1>2. GitlabSources.commit \in Seq(CommitVariables)
  <2>1. GitlabSources.commit = <<"CI_COMMIT_SHA">>
    BY DEF GitlabSources
  <2> QED BY <2>1 DEF CommitVariables
<1>3. CircleCISources.commit \in Seq(CommitVariables)
  <2>1. CircleCISources.commit = <<"CIRCLE_SHA1">>
    BY DEF CircleCISources
  <2> QED BY <2>1 DEF CommitVariables
<1>4. JenkinsSources.commit \in Seq(CommitVariables)
  <2>1. JenkinsSources.commit = <<"GIT_COMMIT">>
    BY DEF JenkinsSources
  <2> QED BY <2>1 DEF CommitVariables
<1>5. BitbucketSources.commit \in Seq(CommitVariables)
  <2>1. BitbucketSources.commit = <<"BITBUCKET_COMMIT">>
    BY DEF BitbucketSources
  <2> QED BY <2>1 DEF CommitVariables
<1>6. AzureSources.commit \in Seq(CommitVariables)
  <2>1. AzureSources.commit = <<"SYSTEM_PULLREQUEST_SOURCECOMMITID", "BUILD_SOURCEVERSION">>
    BY DEF AzureSources
  <2> QED BY <2>1 DEF CommitVariables
<1>7. BuildkiteSources.commit \in Seq(CommitVariables)
  <2>1. BuildkiteSources.commit = <<"BUILDKITE_COMMIT">>
    BY DEF BuildkiteSources
  <2> QED BY <2>1 DEF CommitVariables
<1>8. TravisSources.commit \in Seq(CommitVariables)
  <2>1. TravisSources.commit = <<"TRAVIS_COMMIT">>
    BY DEF TravisSources
  <2> QED BY <2>1 DEF CommitVariables
<1>9. NoSources.commit \in Seq(CommitVariables)
  BY DEF NoSources
<1>10. \A provider : Sources(provider) \in
        {GithubSources, GitlabSources, CircleCISources, JenkinsSources, BitbucketSources,
         AzureSources, BuildkiteSources, TravisSources, NoSources}
  BY DEF Sources
<1> QED BY <1>1, <1>2, <1>3, <1>4, <1>5, <1>6, <1>7, <1>8, <1>9, <1>10

(* Only a pull request's event names the head that GitHub knows.           *)
LEMMA HeadOfPullRequest ==
  ASSUME NEW env, CommitSha(env) = "pull_request.head.sha"
  PROVE  IsPullRequestEvent(env)
<1> DEFINE commit == Sources(Provider(env)).commit
           names == <<"SEMGREP_COMMIT">> \o commit
           default == IF AsksGit(env) \/ Provider(env) = "gitlab" THEN "git rev-parse HEAD" ELSE "none"
<1>1. commit \in Seq(CommitVariables)
  BY CommitSources
<1>2. names \in Seq(CommitVariables)
  <2> HIDE DEF commit
  <2>1. <<"SEMGREP_COMMIT">> \in Seq(CommitVariables)
    BY DEF CommitVariables
  <2> QED BY <1>1, <2>1
<1>3. default # "pull_request.head.sha"
  OBVIOUS
<1> HIDE DEF names, default
<1>4. First(env, names, default) # "pull_request.head.sha"
  <2>1. \A i \in DOMAIN names : names[i] # "pull_request.head.sha"
    BY <1>2 DEF CommitVariables
  <2> QED BY <1>2, <1>3, <2>1, FirstIsOneOf
<1>5. \/ IsPullRequestEvent(env)
      \/ CommitSha(env) \in {"GITHUB_SHA", First(env, names, default)}
  BY DEF CommitSha, names, default
<1> QED BY <1>4, <1>5

(* On a pull request the commit that is scanned is the one the app is told *)
(* of, through every order of requests, failures and retries, and no       *)
(* branch is moved onto it; a job that was not killed and whose way back   *)
(* did not fail leaves the checkout where it was, or at the tip of the     *)
(* base branch if it was on that.                                          *)
THEOREM HeadIsThatOfPullRequest == Spec => []HeadFollowsPullRequest
<1>1. ASSUME IInv PROVE HeadFollowsPullRequest
  <2>1. ASSUME pc \in {"scan", "history", "classify", "results"}, ~Empty,
               CommitSha(cmd.env) = "pull_request.head.sha"
        PROVE  head = "pr"
    <3>1. IsPullRequestEvent(cmd.env)
      BY <2>1, HeadOfPullRequest
    <3> QED BY <1>1, <2>1, <3>1 DEF IInv, HeadIsKnown, AfterFix
  <2>2. /\ head = "pr" => on = "detached"
        /\ on # cmd.branch => IsPullRequestEvent(cmd.env)
    BY <1>1 DEF IInv, HeadIsKnown
  <2>3. pc = "done" /\ kills = 0 /\ stashed = None =>
          head = "found" \/ (head = "base" /\ cmd.branch = "base")
    BY <1>1 DEF IInv, TypeOK, HeadIsKnown
  <2> QED BY <2>1, <2>2, <2>3 DEF HeadFollowsPullRequest
<1> QED BY <1>1, InvHolds, PTL
=============================================================================
