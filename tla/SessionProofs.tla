--------------------------- MODULE SessionProofs ----------------------------
(***************************************************************************)
(* Proofs about what the useLsp hook keeps in step with the back end.      *)
(* LspSession, for any set of workspace folders and any number of switches *)
(* between them: no language server is lost.  DocSync, for any number of   *)
(* edits, clicks and sessions: the cache of a document never falls back,   *)
(* and a session opens it once.                                            *)
(***************************************************************************)
EXTENDS LspSession, DocSync, FiniteSetTheorems, TLAPS

(* An effect run that has not begun has left no trace.                     *)
RunsAhead ==
  \A e \in Runs : e > runs =>
    js[e] = "none" /\ stop[e] = "none" /\ cleanup # e

(* A run calls lsp_start once, when its listeners are registered, and      *)
(* settles after the call has returned.                                    *)
StartFollowsJs ==
  \A e \in Runs :
    /\ js[e] \in {"none", "skipped", "listening", "deaf"} => start[e] = "none"
    /\ js[e] = "invoked" => start[e] # "none"
    /\ js[e] = "settled" => start[e] \in {"ok", "failed"}

(* The live run has not been cleaned up: its lsp_stop is yet to come.      *)
LiveIsNotStopped == cleanup # None => stop[cleanup] = "none"

(* Between taking the old host and storing its own, lsp_start finds the    *)
(* slot empty, for no other lsp_start is under way.                        *)
Holding == {"shutdown", "token", "spawning", "store"}
SlotIsEmpty == \A e \in Runs : start[e] \in Holding => host = None

(* A server is spawned by the lsp_start of its run.                        *)
ServerWasStarted ==
  \A e \in Runs : server[e] = "running" => start[e] \in {"spawning", "store", "failed", "ok"}

(* Who answers for server e.                                               *)
Owned(e) ==
  \/ host = e
  \/ start[e] \in {"spawning", "store", "failed"}
  \/ \E f \in Runs : \/ start[f] = "shutdown" /\ startVictim[f] = e
                     \/ stop[f] = "shutdown" /\ stopVictim[f] = e

OwnedServers ==
  /\ \A e \in Runs : start[e] = "store" => host = None
  /\ \A e \in Runs : server[e] = "running" => Owned(e)

(* NoOrphanServer says no more and no less.                                *)
LEMMA OrphanFree == NoOrphanServer <=> OwnedServers
BY DEF NoOrphanServer, OwnedServers, Owned

IInv ==
  /\ TypeOK /\ RunsAhead /\ StartFollowsJs /\ StartsAreSerial /\ LiveIsNotStopped
  /\ SlotIsEmpty /\ ServerWasStarted /\ OwnedServers

(* At first no run has begun.                                              *)
LEMMA InitInv == Init => IInv
BY SessionAssumption
DEF SessionAssumption, Init, IInv, TypeOK, RunsAhead, StartFollowsJs, StartsAreSerial, LiveIsNotStopped,
    SlotIsEmpty, ServerWasStarted, OwnedServers, Owned, Starting, Holding, Runs, None, JsPCs, StartPCs, StopPCs

(* Every step keeps the variables well typed.                              *)
LEMMA TypeStep == IInv /\ [Next]_vars => TypeOK'
<1> SUFFICES ASSUME IInv, [Next]_vars PROVE TypeOK'
  OBVIOUS
<1> USE SessionAssumption DEF SessionAssumption, IInv, TypeOK, None, Runs, JsPCs, StartPCs, StopPCs,
      jsVars, startVars, stopVars, stateVars, StartGoto, Show
<1>1. ASSUME NEW r \in Roots \cup {NoRoot}, Switch(r) PROVE TypeOK'
  <2>1. runs + 1 \in Runs
    BY <1>1 DEF Switch
  <2>2. stop' \in [Runs -> StopPCs] /\ \A e \in Runs : stop'[e] = stop[e] \/ stop'[e] = "take"
    BY <1>1 DEF Switch
  <2>3. js' \in [Runs -> JsPCs] /\ rootOf' \in [Runs -> Roots \cup {NoRoot}]
    BY <1>1, <2>1 DEF Switch
  <2>4. /\ cleanup' \in Runs \cup {None} /\ currentRoot' \in Roots \cup {NoRoot}
        /\ isLspStarting' \in {"yes", "no"} /\ ui' \in {"stopped", "starting", "indexing", "ready", "error"}
    BY <1>1, <2>1 DEF Switch
  <2>5. /\ root' \in Roots \cup {NoRoot} /\ runs' \in 0..MaxRuns
        /\ UNCHANGED <<startVars, stopVictim, stateVars>>
    BY <1>1 DEF Switch
  <2> QED BY <2>2, <2>3, <2>4, <2>5
<1>2. ASSUME NEW e \in Runs, Invoke(e) PROVE TypeOK'
  BY ZenonT(40), <1>2 DEF Invoke
<1>3. ASSUME NEW e \in Runs, Settle(e) PROVE TypeOK'
  BY <1>3 DEF Settle, Outcome
<1>4. ASSUME NEW e \in Runs, StartTake(e) PROVE TypeOK'
  BY <1>4 DEF StartTake
<1>5. ASSUME NEW e \in Runs, StartShutdown(e) PROVE TypeOK'
  BY <1>5 DEF StartShutdown
<1>6. ASSUME NEW e \in Runs, StartToken(e) PROVE TypeOK'
  BY <1>6 DEF StartToken
<1>7. ASSUME NEW e \in Runs, StartSpawned(e) PROVE TypeOK'
  <2>1. /\ \E l \in {"store", "failed"} : start' = [start EXCEPT ![e] = l]
        /\ \E s \in {"running", "dead"} : server' = server \/ server' = [server EXCEPT ![e] = s]
        /\ UNCHANGED <<jsVars, startVictim, stopVars, host, cancel, cancelled, manager>>
    BY <1>7 DEF StartSpawned
  <2> QED BY <2>1
<1>8. ASSUME NEW e \in Runs, StartStore(e) PROVE TypeOK'
  BY <1>8 DEF StartStore
<1>9. ASSUME NEW e \in Runs, StopTake(e) PROVE TypeOK'
  BY <1>9 DEF StopTake
<1>10. ASSUME NEW e \in Runs, StopShutdown(e) PROVE TypeOK'
  BY <1>10 DEF StopShutdown
<1>11. ASSUME NEW e \in Runs, StopToken(e) PROVE TypeOK'
  BY <1>11 DEF StopToken
<1>12. ASSUME NEW e \in Runs, ManagerReports(e) PROVE TypeOK'
  BY <1>12 DEF ManagerReports
<1>13. ASSUME NEW e \in Runs, ManagerStops(e) PROVE TypeOK'
  BY <1>13 DEF ManagerStops
<1>14. CASE UNCHANGED vars
  BY <1>14 DEF vars
<1> QED
  BY <1>1, <1>2, <1>3, <1>4, <1>5, <1>6, <1>7, <1>8, <1>9, <1>10, <1>11, <1>12, <1>13, <1>14
  DEF Next, JsStep, StartStep, StopStep

(* What JavaScript and lsp_start know of each other.                       *)
Serial == RunsAhead /\ StartFollowsJs /\ StartsAreSerial /\ LiveIsNotStopped

LEMMA SerialStep == IInv /\ [Next]_vars => Serial'
<1> SUFFICES ASSUME IInv, [Next]_vars PROVE Serial'
  OBVIOUS
<1> USE SessionAssumption DEF SessionAssumption, IInv, TypeOK, None, Runs, jsVars, startVars, stopVars, stateVars,
      StartGoto, Serial, RunsAhead, StartFollowsJs, StartsAreSerial, LiveIsNotStopped, Starting
<1>1. ASSUME NEW r \in Roots \cup {NoRoot}, Switch(r) PROVE Serial'
  <2> DEFINE new == runs + 1
  <2>1. new \in Runs /\ js[new] = "none" /\ stop[new] = "none" /\ start[new] = "none" /\ cleanup # new
    BY <1>1 DEF Switch
  <2>2. start' = start /\ runs' = new
    BY <1>1 DEF Switch
  <2>3. \A e \in Runs : stop'[e] = stop[e] \/ (e = cleanup /\ cleanup # None)
    BY <1>1 DEF Switch
  <2>4. CASE Skips(r, IF cleanup = None THEN currentRoot ELSE NoRoot)
    <3>1. js' = [js EXCEPT ![new] = "skipped"] /\ cleanup' = None /\ isLspStarting' = isLspStarting
      BY <1>1, <2>4 DEF Switch
    <3>2. RunsAhead'
      BY <2>1, <2>2, <2>3, <3>1
    <3> QED BY <2>1, <2>2, <3>1, <3>2
  <2>5. CASE ~Skips(r, IF cleanup = None THEN currentRoot ELSE NoRoot)
    <3>1. /\ js' = [js EXCEPT ![new] = "listening"] /\ cleanup' = new /\ isLspStarting' = "yes"
          /\ isLspStarting = "no"
      BY <1>1, <2>5 DEF Switch, Skips
    <3>2. RunsAhead' /\ LiveIsNotStopped'
      BY <2>1, <2>2, <2>3, <3>1
    <3> QED BY <2>1, <2>2, <3>1, <3>2
  <2> QED BY <2>4, <2>5
<1>2. ASSUME NEW e \in Runs, Invoke(e) PROVE Serial'
  BY <1>2 DEF Invoke
<1>3. ASSUME NEW e \in Runs, Settle(e) PROVE Serial'
  BY <1>3 DEF Settle
<1>4. ASSUME NEW e \in Runs, StartStep(e) PROVE Serial'
  <2>1. /\ start[e] \notin {"none", "ok", "failed"}
        /\ \E l \in StartPCs \ {"none"} : start' = [start EXCEPT ![e] = l]
        /\ UNCHANGED <<jsVars, stopVars>>
    BY <1>4 DEF StartStep, StartTake, StartShutdown, StartToken, StartSpawned, StartStore, StartPCs
  <2>2. js[e] = "invoked"
    BY <2>1, <1>4 DEF JsPCs
  <2> QED BY <2>1, <2>2
<1>5. ASSUME NEW e \in Runs, StopStep(e) PROVE Serial'
  <2>1. stop[e] # "none" /\ UNCHANGED <<jsVars, startVars>>
        /\ \E l \in StopPCs : stop' = [stop EXCEPT ![e] = l]
    BY <1>5 DEF StopStep, StopTake, StopShutdown, StopToken, StopPCs
  <2> QED BY <2>1
<1>6. ASSUME NEW e \in Runs, ManagerReports(e) PROVE Serial'
  BY <1>6 DEF ManagerReports
<1>7. ASSUME NEW e \in Runs, ManagerStops(e) PROVE Serial'
  BY <1>7 DEF ManagerStops
<1>8. CASE UNCHANGED vars
  BY <1>8 DEF vars
<1> QED
  BY <1>1, <1>2, <1>3, <1>4, <1>5, <1>6, <1>7, <1>8 DEF Next, JsStep

(* The slot of the host and the servers.                                   *)
Kept == SlotIsEmpty /\ ServerWasStarted /\ OwnedServers

(* lsp_start calls are one at a time.                                      *)
LEMMA OneStart ==
  ASSUME IInv, NEW e \in Runs, start[e] \notin {"none", "ok", "failed"},
         NEW f \in Runs, start[f] \notin {"none", "ok", "failed"}
  PROVE  e = f
BY DEF IInv, TypeOK, StartFollowsJs, StartsAreSerial, Starting, JsPCs

LEMMA KeptStep == IInv /\ [Next]_vars => Kept'
<1> SUFFICES ASSUME IInv, [Next]_vars PROVE Kept'
  OBVIOUS
<1> USE SessionAssumption DEF SessionAssumption, IInv, TypeOK, None, Runs, jsVars, startVars, stopVars, stateVars,
      StartGoto, Kept, SlotIsEmpty, ServerWasStarted, OwnedServers, Owned, Holding
<1>1. ASSUME NEW r \in Roots \cup {NoRoot}, Switch(r) PROVE Kept'
  <2>1. UNCHANGED <<startVars, stopVictim, stateVars>>
    BY <1>1 DEF Switch
  <2>2. \A f \in Runs : stop[f] = "shutdown" => stop'[f] = "shutdown"
    BY <1>1 DEF Switch, LiveIsNotStopped
  <2>3. SlotIsEmpty' /\ ServerWasStarted'
    BY <2>1
  <2>4. OwnedServers'
    BY SMTT(30), <2>1, <2>2
  <2> QED BY <2>3, <2>4
<1>2. ASSUME NEW e \in Runs, Invoke(e) PROVE Kept'
  <2>1. /\ start[e] = "none" /\ (start' = [start EXCEPT ![e] = "take"] \/ start' = start)
        /\ UNCHANGED <<startVictim, stopVars, stateVars>>
    BY <1>2 DEF Invoke, StartFollowsJs
  <2>2. SlotIsEmpty' /\ ServerWasStarted'
    BY <2>1
  <2>3. OwnedServers'
    BY <2>1
  <2> QED BY <2>2, <2>3
<1>3. ASSUME NEW e \in Runs, Settle(e) PROVE Kept'
  BY <1>3 DEF Settle
<1>4. ASSUME NEW e \in Runs, StartTake(e) PROVE Kept'
  BY <1>4 DEF StartTake
<1>5. ASSUME NEW e \in Runs, StartShutdown(e) PROVE Kept'
  <2>1. /\ start[e] = "shutdown" /\ start' = [start EXCEPT ![e] = "token"]
        /\ server' = [server EXCEPT ![startVictim[e]] = "dead"] /\ startVictim[e] \in Runs
        /\ UNCHANGED <<startVictim, stopVars, host>>
    BY <1>5 DEF StartShutdown
  <2>2. SlotIsEmpty' /\ ServerWasStarted'
    BY <2>1
  <2>3. ASSUME NEW f \in Runs, server'[f] = "running" PROVE Owned(f)'
    <3>1. server[f] = "running" /\ f # startVictim[e]
      BY <2>1, <2>3
    <3>2. \A g \in Runs : start[g] = "shutdown" /\ startVictim[g] = f => start'[g] = "shutdown"
      BY <2>1, <3>1
    <3>3. start[f] = "failed" \/ start[f] = "spawning" \/ start[f] = "store" => start'[f] = start[f]
      BY <2>1
    <3>4. \A g \in Runs : stop'[g] = stop[g] /\ stopVictim'[g] = stopVictim[g] /\ startVictim'[g] = startVictim[g]
      BY <2>1
    <3>5. Owned(f) /\ host' = host
      BY <2>1, <3>1
    <3> HIDE DEF IInv, TypeOK, OwnedServers
    <3> QED BY <3>2, <3>3, <3>4, <3>5
  <2>4. OwnedServers'
    BY <2>2, <2>3
  <2> QED BY <2>2, <2>4
<1>6. ASSUME NEW e \in Runs, StartToken(e) PROVE Kept'
  <2>1. /\ start[e] = "token" /\ UNCHANGED <<startVictim, stopVars, host>>
        /\ start' = [start EXCEPT ![e] = start'[e]]
        /\ \/ start'[e] = "failed" /\ server' = server
           \/ start'[e] = "spawning" /\ server' = [server EXCEPT ![e] = "running"]
    BY <1>6 DEF StartToken
  <2>2. SlotIsEmpty' /\ ServerWasStarted'
    BY <2>1
  <2>3. ASSUME NEW f \in Runs, server'[f] = "running" PROVE Owned(f)'
    <3>1. CASE f = e
      <4>1. start'[e] \in {"spawning", "store", "failed"}
        BY <2>1
      <4> QED BY <3>1, <4>1 DEF Owned
    <3>2. CASE f # e
      <4>1. server[f] = "running" /\ start'[f] = start[f]
        BY <2>1, <2>3, <3>2
      <4>2. \A g \in Runs : start[g] = "shutdown" => start'[g] = "shutdown"
        BY <2>1
      <4>3. \A g \in Runs : stop'[g] = stop[g] /\ stopVictim'[g] = stopVictim[g] /\ startVictim'[g] = startVictim[g]
        BY <2>1
      <4>4. Owned(f) /\ host' = host
        BY <2>1, <4>1
      <4> HIDE DEF IInv, TypeOK, OwnedServers
      <4> QED BY <4>1, <4>2, <4>3, <4>4
    <3> QED BY <3>1, <3>2
  <2>4. OwnedServers'
    BY <2>2, <2>3
  <2> QED BY <2>2, <2>4
<1>7. ASSUME NEW e \in Runs, StartSpawned(e) PROVE Kept'
  <2>1. /\ start[e] = "spawning" /\ start' = [start EXCEPT ![e] = start'[e]]
        /\ start'[e] \in {"store", "failed"}
        /\ server' = [server EXCEPT ![e] = server'[e]]
        /\ UNCHANGED <<startVictim, stopVars, host>>
    BY <1>7 DEF StartSpawned
  <2>2. SlotIsEmpty' /\ ServerWasStarted'
    BY <2>1
  <2>3. ASSUME NEW f \in Runs, server'[f] = "running" PROVE Owned(f)'
    <3>1. CASE f = e
      <4>1. start'[e] \in {"spawning", "store", "failed"}
        BY <2>1
      <4> QED BY <3>1, <4>1 DEF Owned
    <3>2. CASE f # e
      <4>1. server[f] = "running" /\ start'[f] = start[f]
        BY <2>1, <2>3, <3>2
      <4>2. \A g \in Runs : start[g] = "shutdown" => start'[g] = "shutdown"
        BY <2>1
      <4>3. \A g \in Runs : stop'[g] = stop[g] /\ stopVictim'[g] = stopVictim[g] /\ startVictim'[g] = startVictim[g]
        BY <2>1
      <4>4. Owned(f) /\ host' = host
        BY <2>1, <4>1
      <4> HIDE DEF IInv, TypeOK, OwnedServers
      <4> QED BY <4>1, <4>2, <4>3, <4>4
    <3> QED BY <3>1, <3>2
  <2>4. OwnedServers'
    BY <2>2, <2>3
  <2> QED BY <2>2, <2>4
<1>8. ASSUME NEW e \in Runs, StartStore(e) PROVE Kept'
  <2>1. /\ start[e] = "store" /\ host = None /\ host' = e
        /\ start' = [start EXCEPT ![e] = "ok"]
        /\ UNCHANGED <<startVictim, stopVars, server>>
    BY <1>8 DEF StartStore
  <2>2. \A f \in Runs : start[f] \in Holding => f = e
    BY <2>1, OneStart DEF IInv
  <2>3. \A f \in Runs : start'[f] \notin Holding
    BY <2>1, <2>2
  <2>4. ServerWasStarted'
    BY <2>1
  <2>5. \A f \in Runs : server[f] = "running" /\ f # e =>
          \/ start[f] = "failed"
          \/ \E g \in Runs : stop[g] = "shutdown" /\ stopVictim[g] = f
    BY SMTT(30), <2>1, <2>2
  <2>6. OwnedServers'
    BY <2>1, <2>3, <2>5
  <2> QED BY <2>3, <2>4, <2>6
<1>9. ASSUME NEW e \in Runs, StopTake(e) PROVE Kept'
  <2>1. /\ stop[e] = "take" /\ stopVictim' = [stopVictim EXCEPT ![e] = host] /\ host' = None
        /\ stop' = [stop EXCEPT ![e] = IF host = None THEN "token" ELSE "shutdown"]
        /\ UNCHANGED <<startVars, server>>
    BY <1>9 DEF StopTake
  <2>2. SlotIsEmpty' /\ ServerWasStarted'
    BY <2>1
  <2>3. \A f, g \in Runs : stop[g] = "shutdown" /\ stopVictim[g] = f =>
                           stop'[g] = "shutdown" /\ stopVictim'[g] = f
    BY <2>1
  <2>4. host # None => stop'[e] = "shutdown" /\ stopVictim'[e] = host
    BY <2>1
  <2>5. ASSUME NEW f \in Runs, server'[f] = "running" PROVE Owned(f)'
    <3>1. \A g \in Runs : start'[g] = start[g] /\ startVictim'[g] = startVictim[g]
      BY <2>1
    <3>2. Owned(f) /\ f # None
      <4>1. server[f] = "running"
        BY <2>1, <2>5
      <4>2. f # None
        OBVIOUS
      <4> HIDE DEF Owned
      <4> QED BY <4>1, <4>2
    <3> HIDE DEF IInv, TypeOK, OwnedServers
    <3> QED BY <2>3, <2>4, <3>1, <3>2
  <2>6. OwnedServers'
    BY <2>2, <2>5
  <2> QED BY <2>2, <2>6
<1>10. ASSUME NEW e \in Runs, StopShutdown(e) PROVE Kept'
  <2>1. /\ stop[e] = "shutdown" /\ stop' = [stop EXCEPT ![e] = "token"]
        /\ server' = [server EXCEPT ![stopVictim[e]] = "dead"] /\ stopVictim[e] \in Runs
        /\ UNCHANGED <<startVars, stopVictim, host>>
    BY <1>10 DEF StopShutdown
  <2>2. SlotIsEmpty' /\ ServerWasStarted'
    BY <2>1
  <2>3. ASSUME NEW f \in Runs, server'[f] = "running" PROVE Owned(f)'
    <3>1. server[f] = "running" /\ f # stopVictim[e]
      BY <2>1, <2>3
    <3>2. \A g \in Runs : stop[g] = "shutdown" /\ stopVictim[g] = f => stop'[g] = "shutdown"
      BY <2>1, <3>1
    <3>3. \A g \in Runs : /\ start'[g] = start[g] /\ startVictim'[g] = startVictim[g]
                         /\ stopVictim'[g] = stopVictim[g]
      BY <2>1
    <3>4. Owned(f) /\ host' = host
      BY <2>1, <3>1
    <3> HIDE DEF IInv, TypeOK, OwnedServers
    <3> QED BY <3>2, <3>3, <3>4
  <2>4. OwnedServers'
    BY <2>2, <2>3
  <2> QED BY <2>2, <2>4
<1>11. ASSUME NEW e \in Runs, StopToken(e) PROVE Kept'
  BY <1>11 DEF StopToken
<1>12. ASSUME NEW e \in Runs, ManagerReports(e) PROVE Kept'
  <2>1. UNCHANGED <<startVars, stopVars, stateVars>>
    BY <1>12 DEF ManagerReports
  <2> QED BY SMTT(30), <2>1
<1>13. ASSUME NEW e \in Runs, ManagerStops(e) PROVE Kept'
  BY <1>13 DEF ManagerStops
<1>14. CASE UNCHANGED vars
  BY <1>14 DEF vars
<1> QED
  BY <1>1, <1>2, <1>3, <1>4, <1>5, <1>6, <1>7, <1>8, <1>9, <1>10, <1>11, <1>12, <1>13, <1>14
  DEF Next, JsStep, StartStep, StopStep

LEMMA InvHolds == Spec => []IInv
<1>1. IInv /\ [Next]_vars => IInv'
  BY TypeStep, SerialStep, KeptStep DEF IInv, Serial, Kept
<1> QED BY InitInv, <1>1, PTL DEF Spec

(* The variables of every session are well typed; in particular a command  *)
(* that shuts a host down has one (useLsp.ts, lsp_commands.rs).            *)
THEOREM SessionTypeCorrect == Spec => []TypeOK
<1>1. IInv => TypeOK
  BY DEF IInv
<1> QED BY InvHolds, <1>1, PTL

(* isLspStarting is raised exactly while one lsp_start of the hook is      *)
(* under way, whatever the order of switches, starts and stops.            *)
THEOREM StartsNeverOverlap == Spec => []StartsAreSerial
<1>1. IInv => StartsAreSerial
  BY DEF IInv
<1> QED BY InvHolds, <1>1, PTL

(* No interleaving of lsp_start and lsp_stop loses a server that runs.     *)
THEOREM ServersAreNeverLost == Spec => []NoOrphanServer
<1>1. IInv => NoOrphanServer
  BY OrphanFree DEF IInv
<1> QED BY InvHolds, <1>1, PTL

-----------------------------------------------------------------------------
(* DocSync                                                                 *)

(* A version is given out for an edit or for a read of the file.           *)
VersionsAreFew == version <= text + (clicks - reading)

(* Commands on their way carry versions of their session; versions of the  *)
(* live one have been given out.                                           *)
OnTheirWay == sent \cup cached \cup failed
VersionsGivenOut ==
  \A c \in OnTheirWay : c.doc.epoch <= epoch /\ (c.doc.epoch = epoch => c.doc.version <= version)

(* No command in `applied` is ahead of the cache, of whatever session.     *)
CacheLeads ==
  /\ cache = Closed => applied = {}
  /\ cache # Closed => cache \in applied /\ \A d \in applied : d.version <= cache.version

(* Of two texts of one session, on their way to the cache or come to it,   *)
(* the one with the higher version is the later edit or the file on disk.  *)
Written == {c.doc : c \in sent} \cup applied
TextsFollowVersions ==
  /\ \A d \in Written : d.text <= text /\ d.epoch <= epoch /\ (d.epoch = epoch => d.version <= version)
  /\ \A d, e \in Written : d.epoch = e.epoch /\ d.version <= e.version => d.text <= e.text \/ e.text = 0

(* In the first session: a command is at one place, only an open fails,    *)
(* and while the document counts as open at most one open is on its way,   *)
(* and none once rust-analyzer has the document.                           *)
Opens == {c \in OnTheirWay : c.what = "open"}
FirstSession ==
  epoch = 1 =>
    /\ sent \cap cached = {} /\ sent \cap failed = {} /\ cached \cap failed = {}
    /\ \A c \in failed : c.what = "open"
    /\ isOpen = "no" => Opens = {} /\ mirror = Closed
    /\ \A c, d \in Opens : c = d
    /\ mirror # Closed => Opens = {}

DocInv ==
  /\ DocTypeOK /\ VersionsAreFew /\ VersionsGivenOut /\ CacheLeads /\ TextsFollowVersions
  /\ FirstSession

(* At first nothing is open and no command is on its way.                  *)
LEMMA DocInitInv == DocInit => DocInv
BY DocAssumption
DEF DocAssumption, DocInit, DocInv, DocTypeOK, Texts, Epochs, Versions, Docs, Closed, Commands, VersionsAreFew,
    VersionsGivenOut, OnTheirWay, CacheLeads, TextsFollowVersions, Written, FirstSession, Opens

(* A command that the hook invokes is well typed, and new.                 *)
LEMMA Invoked ==
  ASSUME DocInv, NEW what \in {"open", "sync"}, NEW t \in Texts, InvokeCommand(what, t),
         version < MaxEdits + MaxOpens
  PROVE  \E c \in Commands : /\ c.what = what /\ c.doc.epoch = epoch /\ c.doc.version = version + 1
                             /\ c.doc.text = t
                             /\ sent' = sent \cup {c} /\ version' = version + 1 /\ version' \in Versions
                             /\ c \notin OnTheirWay
<1> DEFINE c == [what |-> what, doc |-> [epoch |-> epoch, version |-> version + 1, text |-> t]]
<1>1. version \in Nat /\ version + 1 \in Versions /\ epoch \in Epochs
  BY DocAssumption DEF DocAssumption, DocInv, DocTypeOK, Versions
<1>2. c \in Commands
  BY <1>1 DEF Commands, Docs
<1>3. c \notin OnTheirWay
  BY <1>1 DEF DocInv, VersionsGivenOut
<1> QED BY <1>1, <1>2, <1>3 DEF InvokeCommand

(* openDoc, as FileRead and Edit call it: nothing happens, or the document *)
(* counts as open and a new command is on its way.                         *)
LEMMA Opened ==
  ASSUME DocInv, NEW t \in Texts, OpenDoc(t), version < MaxEdits + MaxOpens
  PROVE  \/ isOpen = "yes" /\ UNCHANGED <<isOpen, version, sent>>
         \/ /\ isOpen = "no" /\ isOpen' = "yes"
            /\ version' = version + 1 /\ version' \in Versions
            /\ \E c \in Commands : /\ c.what = "open" /\ c.doc.epoch = epoch /\ c.doc.version = version + 1
                                   /\ c.doc.text = t
                                   /\ sent' = sent \cup {c} /\ c \notin OnTheirWay
BY Invoked DEF OpenDoc, DocInv, DocTypeOK

(* What comes to the cache had been sent, and was of a session that began. *)
LEMMA FewerTexts ==
  ASSUME DocInv, Written' \subseteq Written, text' = text, epoch <= epoch', epoch' \in Nat,
         epoch' = epoch => version' = version
  PROVE  TextsFollowVersions'
<1>1. \A d \in Written : d.epoch \in Nat
  BY DEF Written, DocInv, DocTypeOK, Commands, Docs, Epochs
<1>2. epoch \in Nat
  BY DEF DocInv, DocTypeOK, Epochs
<1> QED BY <1>1, <1>2 DEF DocInv, TextsFollowVersions

(* What a new command on its way leaves as it was.                         *)
LEMMA Dispatched ==
  ASSUME DocInv, NEW c \in Commands, c.what = "open" => isOpen = "no",
         c.doc.epoch = epoch, c.doc.version = version + 1, c \notin OnTheirWay,
         sent' = sent \cup {c}, isOpen' = "yes", version' = version + 1, version' \in Versions,
         text' \in Texts, reading' \in 0..clicks, text' - reading' = text - reading + 1,
         text <= text', c.doc.text \in {0, text'},
         UNCHANGED <<clicks, epoch, cached, failed, cache, applied, hasHost, mirror>>
  PROVE  DocInv'
<1>1. /\ text \in Nat /\ clicks \in Nat /\ reading \in Nat /\ version \in Nat /\ version' # 0
      /\ text' \in Nat /\ reading' \in Nat
  BY DocAssumption DEF DocAssumption, DocInv, DocTypeOK, Texts, Versions
<1>2. DocTypeOK'
  BY <1>1 DEF DocInv, DocTypeOK
<1>3. VersionsAreFew'
  BY <1>1 DEF DocInv, VersionsAreFew
<1>4. \A d \in OnTheirWay : d.doc.version \in Nat
  BY DEF DocInv, DocTypeOK, OnTheirWay, Commands, Docs, Versions
<1>5. OnTheirWay' = OnTheirWay \cup {c} /\ epoch \in Nat
  BY DEF OnTheirWay, DocInv, DocTypeOK, Epochs
<1>6. VersionsGivenOut'
  BY <1>1, <1>4, <1>5 DEF DocInv, VersionsGivenOut
<1>7. CacheLeads'
  BY DEF DocInv, CacheLeads
<1>8. ASSUME epoch = 1 PROVE FirstSession'
  <2>1. CASE c.what = "open"
    <3>1. isOpen = "no" /\ Opens = {} /\ mirror = Closed
      BY <1>8, <2>1 DEF DocInv, FirstSession
    <3>2. Opens' = {c}
      BY <1>5, <2>1, <3>1 DEF Opens
    <3> QED BY <1>8, <3>1, <3>2 DEF DocInv, FirstSession, OnTheirWay
  <2>2. CASE c.what # "open"
    <3>1. Opens' = Opens
      BY <1>5, <2>2 DEF Opens
    <3> QED BY <1>8, <3>1 DEF DocInv, FirstSession, OnTheirWay
  <2> QED BY <2>1, <2>2
<1>9. FirstSession'
  BY <1>8 DEF FirstSession
<1>10. TextsFollowVersions'
  <2>1. Written' = Written \cup {c.doc}
    BY DEF Written
  <2>2. \A d \in Written \cup {c.doc} : d.text \in Nat /\ d.epoch \in Nat /\ d.version \in Nat
    BY DEF Written, DocInv, DocTypeOK, Commands, Docs, Epochs, Versions, Texts
  <2>3. \A d \in Written : d.text <= text /\ d.epoch <= epoch /\ (d.epoch = epoch => d.version <= version)
    BY DEF DocInv, TextsFollowVersions
  <2>4. \A d \in Written' :
          d.text <= text' /\ d.epoch <= epoch' /\ (d.epoch = epoch' => d.version <= version')
    BY <1>1, <1>5, <2>1, <2>2, <2>3
  <2>5. ASSUME NEW d \in Written', NEW e \in Written', d.epoch = e.epoch, d.version <= e.version
        PROVE  d.text <= e.text \/ e.text = 0
    <3>1. CASE d \in Written /\ e \in Written
      BY <2>5, <3>1 DEF DocInv, TextsFollowVersions
    <3>2. CASE e = c.doc
      BY <1>1, <2>1, <2>2, <2>4, <2>5, <3>2
    <3>3. CASE d = c.doc /\ e \in Written
      BY <1>1, <2>2, <2>3, <2>5, <3>3
    <3> QED BY <2>1, <2>5, <3>1, <3>2, <3>3
  <2> QED BY <2>4, <2>5 DEF TextsFollowVersions
<1> QED BY <1>2, <1>3, <1>6, <1>7, <1>9, <1>10 DEF DocInv

(* No step breaks the invariant.                                           *)
LEMMA DocNextInv == DocInv /\ [DocNext]_docVars => DocInv'
<1> SUFFICES ASSUME DocInv, [DocNext]_docVars PROVE DocInv'
  OBVIOUS
<1> USE DocAssumption DEF DocAssumption, editorVars
<1>a. epoch \in Nat
  BY DEF DocInv, DocTypeOK, Epochs
<1>b. UNCHANGED <<sent, applied, text, epoch, version>> => TextsFollowVersions'
  BY <1>a, FewerTexts DEF Written
<1>1. CASE OpenFile
  BY <1>1, <1>b DEF OpenFile, DocInv, DocTypeOK, Texts, Epochs, Versions, VersionsAreFew, VersionsGivenOut,
              OnTheirWay, CacheLeads, FirstSession, Opens
<1>2. CASE FileRead
  <2>1. 0 \in Texts /\ version < MaxEdits + MaxOpens
    BY <1>2 DEF FileRead, DocInv, DocTypeOK, VersionsAreFew, Texts, Versions
  <2>2. OpenDoc(0) /\ reading' = reading - 1 /\ reading > 0
        /\ UNCHANGED <<text, clicks, epoch, cached, failed, cache, applied, hasHost, mirror>>
    BY <1>2 DEF FileRead
  <2>3. CASE isOpen = "yes" /\ UNCHANGED <<isOpen, version, sent>>
    BY <1>b, <2>2, <2>3 DEF DocInv, DocTypeOK, Texts, Epochs, Versions, VersionsAreFew, VersionsGivenOut,
              OnTheirWay, CacheLeads, FirstSession, Opens
  <2>4. text \in Int /\ reading - 1 \in 0..clicks /\ reading \in Int
    BY <2>2 DEF DocInv, DocTypeOK, Texts
  <2>5. ASSUME NEW c \in Commands, isOpen = "no", isOpen' = "yes", version' = version + 1, version' \in Versions,
               c.what = "open", c.doc.epoch = epoch, c.doc.version = version + 1, c.doc.text = 0,
               sent' = sent \cup {c}, c \notin OnTheirWay
        PROVE  DocInv'
    BY <2>1, <2>2, <2>5, <2>4, Dispatched DEF DocInv, DocTypeOK
  <2> QED BY <2>1, <2>2, <2>3, <2>5, Opened
<1>3. CASE Edit
  <2>1. text + 1 \in Texts /\ version < MaxEdits + MaxOpens
    BY <1>3 DEF Edit, DocInv, DocTypeOK, VersionsAreFew, Texts, Versions
  <2>2. text' = text + 1
        /\ UNCHANGED <<clicks, reading, epoch, cached, failed, cache, applied, hasHost, mirror>>
    BY <1>3 DEF Edit
  <2>3. ASSUME NEW c \in Commands, isOpen' = "yes", version' = version + 1, version' \in Versions,
               c.what = "open" => isOpen = "no", c.doc.epoch = epoch, c.doc.version = version + 1,
               c.doc.text = text + 1,
               sent' = sent \cup {c}, c \notin OnTheirWay
        PROVE  DocInv'
    BY <2>1, <2>2, <2>3, Dispatched DEF DocInv, DocTypeOK, Texts
  <2>4. CASE isOpen = "yes"
    <3>1. InvokeCommand("sync", text + 1) /\ isOpen' = "yes"
      BY <1>3, <2>4 DEF Edit
    <3> QED BY <2>1, <2>3, <3>1, Invoked
  <2>5. CASE isOpen # "yes"
    <3>1. OpenDoc(text + 1)
      BY <1>3, <2>5 DEF Edit
    <3> QED BY <2>1, <2>3, <2>5, <3>1, Opened
  <2> QED BY <2>4, <2>5
<1>4. CASE Cleanup
  <2>1. epoch' = epoch + 1 /\ UNCHANGED <<sent, applied, text>>
    BY <1>4 DEF Cleanup
  <2>2. TextsFollowVersions'
    BY <1>a, <2>1, FewerTexts DEF Written
  <2> QED BY <1>4, <2>2 DEF Cleanup, DocInv, DocTypeOK, Texts, Epochs, Versions, VersionsAreFew, VersionsGivenOut,
              OnTheirWay, CacheLeads, FirstSession, Commands, Docs
<1>5. ASSUME NEW c \in failed, OpenFails(c) PROVE DocInv'
  BY <1>5, <1>b DEF OpenFails, DocInv, DocTypeOK, Texts, Epochs, Versions, VersionsAreFew, VersionsGivenOut,
              OnTheirWay, CacheLeads, FirstSession, Opens
<1>6. ASSUME NEW c \in sent, ToCache(c) PROVE DocInv'
  <2>1. c \in Commands /\ c.doc \in Docs /\ c.doc # Closed /\ c.doc.version \in Nat
    BY DEF DocInv, DocTypeOK, Commands, Docs, Closed, Epochs, Versions
  <2>2. sent' = sent \ {c} /\ cached' = cached \cup {c} /\ UNCHANGED <<editorVars, failed, hasHost, mirror>>
    BY <1>6 DEF ToCache
  <2>3. DocTypeOK'
    BY <1>6, <2>1, <2>2 DEF ToCache, CacheOpen, CacheSync, DocInv, DocTypeOK
  <2>4. CacheLeads'
    <3>1. CASE c.what = "open"
      BY <1>6, <3>1, <2>1 DEF ToCache, CacheOpen, CacheLeads
    <3>2. CASE c.what # "open"
      <4>1. CacheSync(c.doc)
        BY <1>6, <3>2 DEF ToCache
      <4>2. \A d \in applied : d.version \in Nat
        BY DEF DocInv, DocTypeOK, Docs, Versions
      <4>3. cache.version \in Nat
        BY DEF DocInv, DocTypeOK, Docs, Versions, Closed
      <4> QED BY <4>1, <4>2, <4>3, <2>1 DEF CacheSync, DocInv, CacheLeads
    <3> QED BY <3>1, <3>2
  <2>5. OnTheirWay' = OnTheirWay /\ Opens' = Opens
    BY <2>2 DEF OnTheirWay, Opens
  <2>6. VersionsAreFew' /\ VersionsGivenOut' /\ FirstSession'
    BY <2>2, <2>5 DEF DocInv, VersionsAreFew, VersionsGivenOut, FirstSession
  <2>7. Written' \subseteq Written
    BY <1>6, <2>2 DEF ToCache, CacheOpen, CacheSync, Written
  <2>8. TextsFollowVersions'
    BY <1>a, <2>2, <2>7, FewerTexts
  <2> QED BY <2>3, <2>4, <2>6, <2>8 DEF DocInv
<1>7. ASSUME NEW c \in cached, ToServer(c) PROVE DocInv'
  <2>1. c \in Commands /\ c.doc \in Docs /\ c.doc # Closed
    BY DEF DocInv, DocTypeOK, Commands, Docs, Closed, Epochs, Versions
  <2>2. cached' = cached \ {c} /\ UNCHANGED <<editorVars, sent, cache, applied, hasHost>>
    BY <1>7 DEF ToServer
  <2>3. CASE hasHost = "yes" /\ (c.what = "open" \/ mirror # Closed)
    BY <1>7, <1>b, <2>1, <2>2, <2>3 DEF ToServer, DocInv, DocTypeOK, VersionsAreFew, VersionsGivenOut,
              OnTheirWay, CacheLeads, FirstSession, Opens
  <2>4. CASE ~(hasHost = "yes" /\ (c.what = "open" \/ mirror # Closed))
    BY <1>7, <1>b, <2>1, <2>2, <2>4 DEF ToServer, DocInv, DocTypeOK, VersionsAreFew, VersionsGivenOut,
              OnTheirWay, CacheLeads, FirstSession, Opens
  <2> QED BY <2>3, <2>4
<1>8. CASE HostStored
  BY <1>8, <1>b DEF HostStored, DocInv, DocTypeOK, Texts, Epochs, Versions, VersionsAreFew, VersionsGivenOut,
              OnTheirWay, CacheLeads, FirstSession, Opens
<1>9. CASE HostTaken
  BY <1>9, <1>b DEF HostTaken, DocInv, DocTypeOK, Texts, Epochs, Versions, VersionsAreFew, VersionsGivenOut,
              OnTheirWay, CacheLeads, FirstSession, Opens
<1>10. CASE UNCHANGED docVars
  BY <1>10, <1>b DEF docVars, DocInv, DocTypeOK, VersionsAreFew, VersionsGivenOut,
              OnTheirWay, CacheLeads, FirstSession, Opens
<1> QED BY <1>1, <1>2, <1>3, <1>4, <1>5, <1>6, <1>7, <1>8, <1>9, <1>10 DEF DocNext

LEMMA DocInvHolds == DocSpec => []DocInv
BY DocInitInv, DocNextInv, PTL DEF DocSpec

(* Commands, versions and copies are well typed; no version is given out   *)
(* beyond one per edit and one per click (useLsp.ts).                      *)
THEOREM DocTypeCorrect == DocSpec => []DocTypeOK
<1>1. DocInv => DocTypeOK
  BY DEF DocInv
<1> QED BY DocInvHolds, <1>1, PTL

(* Whatever overtakes what, the cache holds the newest text that reached   *)
(* it since it was last opened, unless commands of two sessions reached it *)
(* (cache_engine.rs).                                                      *)
THEOREM CacheNeverFallsBack == DocSpec => []CacheIsNewest
<1>1. DocInv => CacheIsNewest
  <2> SUFFICES ASSUME DocInv, cache # Closed PROVE CacheIsNewest
    BY DEF CacheIsNewest
  <2>1. cache \in applied /\ \A d \in applied : d.version <= cache.version
    BY DEF DocInv, CacheLeads
  <2>2. \A d \in applied : d.epoch = cache.epoch => d.text <= cache.text \/ cache.text = 0
    BY <2>1 DEF DocInv, TextsFollowVersions, Written
  <2> QED BY <2>1, <2>2 DEF CacheIsNewest
<1> QED BY DocInvHolds, <1>1, PTL

(* In the first session rust-analyzer is sent one didOpen at a time.       *)
THEOREM OneOpenAtATime == DocSpec => []OpenedOnce
<1>1. ASSUME DocInv, epoch = 1 PROVE Cardinality(Opens) <= 1
  <2>1. \A c, d \in Opens : c = d
    BY <1>1 DEF DocInv, FirstSession
  <2>2. CASE Opens = {}
    BY <2>2, FS_EmptySet
  <2>3. ASSUME NEW c \in Opens PROVE Cardinality(Opens) <= 1
    <3>1. Opens = {c}
      BY <2>1, <2>3
    <3>2. Cardinality({c}) = 1
      BY FS_Singleton
    <3> QED BY <3>1, <3>2
  <2> QED BY <2>2, <2>3
<1>2. DocInv => OpenedOnce
  BY <1>1 DEF DocInv, FirstSession, OpenedOnce, Opens, OnTheirWay
<1> QED BY DocInvHolds, <1>2, PTL
=============================================================================
