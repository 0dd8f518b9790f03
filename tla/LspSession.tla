----------------------------- MODULE LspSession -----------------------------
(***************************************************************************)
(* The life of language servers across workspace switches: the effect of   *)
(* the useLsp hook (src/hooks/useLsp.ts) on the single JavaScript thread,  *)
(* the lsp_start and lsp_stop commands (commands/lsp_commands.rs), which   *)
(* Tauri runs as concurrent Tokio tasks that interleave at every await,    *)
(* the LspState they share, and the DiagnosticManager task of each server. *)
(*                                                                         *)
(* Effect run e, the lsp_start it makes, the lsp_stop of its cleanup, the  *)
(* server, token and manager that the start creates are all named e.  A    *)
(* server's own protocol is LspHost; here spawn and shutdown are two steps *)
(* with an await between them.                                             *)
(***************************************************************************)
EXTENDS Integers, FiniteSets

CONSTANTS
  Roots,      \* workspace folders
  NoRoot,     \* no folder is open
  MaxRuns     \* bound: effect runs, that is, changes of the workspace root

ASSUME SessionAssumption == NoRoot \notin Roots /\ MaxRuns \in Nat \ {0}

Runs == 1..MaxRuns
None == 0

VARIABLES
  root,           \* workspaceRoots[0]
  runs,           \* number of effect runs so far
  rootOf,         \* the root each effect run was made for
  isLspStarting, currentRoot,   \* the module globals of useLsp.ts
  cleanup,        \* run whose cleanup React will call, or None
  js,             \* progress of each effect run
  ui,             \* lspStatus
  start, stop,    \* progress of each lsp_start and lsp_stop
  startVictim, stopVictim,      \* the host each of them took
  host, cancel,   \* LspState.host and LspState.cancel
  cancelled,      \* tokens that were cancelled
  server,         \* rust-analyzer processes
  manager         \* DiagnosticManager tasks

jsVars == <<root, runs, rootOf, isLspStarting, currentRoot, cleanup, js, ui>>
startVars == <<start, startVictim>>
stopVars == <<stop, stopVictim>>
stateVars == <<host, cancel, cancelled, server, manager>>
vars == <<jsVars, startVars, stopVars, stateVars>>

JsPCs == {"none", "skipped", "listening", "deaf", "invoked", "settled"}
StartPCs == {"none", "take", "shutdown", "token", "spawning", "store", "ok", "failed"}
StopPCs == {"none", "take", "shutdown", "token", "returned"}

TypeOK ==
  /\ root \in Roots \cup {NoRoot} /\ currentRoot \in Roots \cup {NoRoot}
  /\ runs \in 0..MaxRuns
  /\ rootOf \in [Runs -> Roots \cup {NoRoot}]
  /\ isLspStarting \in {"yes", "no"}
  /\ cleanup \in Runs \cup {None}
  /\ js \in [Runs -> JsPCs]
  /\ ui \in {"stopped", "starting", "indexing", "ready", "error"}
  /\ start \in [Runs -> StartPCs] /\ stop \in [Runs -> StopPCs]
  /\ startVictim \in [Runs -> Runs \cup {None}]
  /\ stopVictim \in [Runs -> Runs \cup {None}]
  /\ host \in Runs \cup {None} /\ cancel \in Runs \cup {None}
  /\ cancelled \subseteq Runs
  /\ server \in [Runs -> {"none", "running", "dead"}]
  /\ manager \in [Runs -> {"none", "running", "stopped"}]
  /\ \A e \in Runs : start[e] = "shutdown" => startVictim[e] # None
  /\ \A e \in Runs : stop[e] = "shutdown" => stopVictim[e] # None

Init ==
  /\ root = NoRoot /\ currentRoot = NoRoot
  /\ runs = 0
  /\ rootOf = [e \in Runs |-> NoRoot]
  /\ isLspStarting = "no"
  /\ cleanup = None
  /\ js = [e \in Runs |-> "none"]
  /\ ui = "stopped"
  /\ start = [e \in Runs |-> "none"] /\ stop = [e \in Runs |-> "none"]
  /\ startVictim = [e \in Runs |-> None] /\ stopVictim = [e \in Runs |-> None]
  /\ host = None /\ cancel = None
  /\ cancelled = {}
  /\ server = [e \in Runs |-> "none"]
  /\ manager = [e \in Runs |-> "none"]

-----------------------------------------------------------------------------
(* The hook.  Between two awaits JavaScript is atomic; in particular React *)
(* runs the old cleanup and the new effect without a break.                *)

(* Effect run e is live until its cleanup: the captured flag `active`.     *)
Active(e) == cleanup = e

(* Mutant: the effect does not look at isLspStarting.                      *)
SkipsSameRoot(r, current) == r = NoRoot \/ current = r

(* The early returns of the effect.                                        *)
Skips(r, current) == r = NoRoot \/ isLspStarting = "yes" \/ current = r

(* The workspace root changes: the cleanup of the live run, if any, calls  *)
(* lspStop without awaiting it and forgets the current root; then the      *)
(* effect body either returns early, leaving no cleanup, or begins.        *)
Switch(r) ==
  /\ runs < MaxRuns /\ r # root
  /\ root' = r
  /\ runs' = runs + 1
  /\ rootOf' = [rootOf EXCEPT ![runs + 1] = r]
  /\ stop' = IF cleanup = None THEN stop ELSE [stop EXCEPT ![cleanup] = "take"]
  /\ LET current == IF cleanup = None THEN currentRoot ELSE NoRoot IN
       IF Skips(r, current)
         THEN /\ js' = [js EXCEPT ![runs + 1] = "skipped"]
              /\ cleanup' = None
              /\ currentRoot' = current
              /\ UNCHANGED <<isLspStarting, ui>>
         ELSE /\ js' = [js EXCEPT ![runs + 1] = "listening"]
              /\ cleanup' = runs + 1
              /\ currentRoot' = r
              /\ isLspStarting' = "yes"
              /\ ui' = "starting"
  /\ UNCHANGED <<startVars, stopVictim, stateVars>>

(* The listeners are registered and lspStart is called, even if the run    *)
(* was cleaned up meanwhile; or registering one of them is rejected: that  *)
(* await stands before the try whose finally lowers isLspStarting, so the  *)
(* run ends with the flag up, no start, and the status as it is.           *)
Invoke(e) ==
  /\ js[e] = "listening"
  /\ \/ /\ js' = [js EXCEPT ![e] = "invoked"]
        /\ start' = [start EXCEPT ![e] = "take"]
     \/ /\ js' = [js EXCEPT ![e] = "deaf"]
        /\ UNCHANGED start
  /\ UNCHANGED <<root, runs, rootOf, isLspStarting, currentRoot, cleanup, ui,
                 startVictim, stopVars, stateVars>>

Outcome(e) == IF start[e] = "ok" THEN "ready" ELSE "error"

(* Mutant: the status is only set when the start succeeds.                 *)
SettleSilently(e) ==
  /\ js[e] = "invoked" /\ start[e] \in {"ok", "failed"}
  /\ js' = [js EXCEPT ![e] = "settled"]
  /\ isLspStarting' = "no"
  /\ ui' = IF Active(e) /\ start[e] = "ok" THEN "ready" ELSE ui
  /\ UNCHANGED <<root, runs, rootOf, currentRoot, cleanup, startVars, stopVars, stateVars>>

(* The promise of lspStart settles: try, catch and finally.                *)
Settle(e) ==
  /\ js[e] = "invoked" /\ start[e] \in {"ok", "failed"}
  /\ js' = [js EXCEPT ![e] = "settled"]
  /\ isLspStarting' = "no"
  /\ ui' = IF Active(e) THEN Outcome(e) ELSE ui
  /\ UNCHANGED <<root, runs, rootOf, currentRoot, cleanup, startVars, stopVars, stateVars>>

-----------------------------------------------------------------------------
(* lsp_start                                                               *)

StartGoto(e, l) == start' = [start EXCEPT ![e] = l]

(* Mutant: the old host is dropped without being shut down.                *)
StartTakeDrops(e) ==
  /\ start[e] = "take"
  /\ startVictim' = [startVictim EXCEPT ![e] = host]
  /\ host' = None
  /\ StartGoto(e, "token")
  /\ UNCHANGED <<jsVars, stopVars, cancel, cancelled, server, manager>>

StartTake(e) ==
  /\ start[e] = "take"
  /\ startVictim' = [startVictim EXCEPT ![e] = host]
  /\ host' = None
  /\ StartGoto(e, IF host = None THEN "token" ELSE "shutdown")
  /\ UNCHANGED <<jsVars, stopVars, cancel, cancelled, server, manager>>

(* old.shutdown().await has returned; its server is gone.                  *)
StartShutdown(e) ==
  /\ start[e] = "shutdown"
  /\ server' = [server EXCEPT ![startVictim[e]] = "dead"]
  /\ StartGoto(e, "token")
  /\ UNCHANGED <<jsVars, startVictim, stopVars, host, cancel, cancelled, manager>>

(* which_ra, the new token in LspState.cancel, and the child is spawned.   *)
StartToken(e) ==
  /\ start[e] = "token"
  /\ \/ /\ StartGoto(e, "failed")
        /\ UNCHANGED <<cancel, server>>
     \/ /\ StartGoto(e, "spawning")
        /\ cancel' = e
        /\ server' = [server EXCEPT ![e] = "running"]
  /\ UNCHANGED <<jsVars, startVictim, stopVars, host, cancelled, manager>>

(* LspHost::spawn().await and DefinitionResolver::new return.  On an error *)
(* the host value is dropped, which does not by itself end the child.      *)
StartSpawned(e) ==
  /\ start[e] = "spawning"
  /\ \/ /\ StartGoto(e, "store")
        /\ UNCHANGED server
     \/ /\ StartGoto(e, "failed")
        /\ \E s \in {"running", "dead"} : server' = [server EXCEPT ![e] = s]
  /\ UNCHANGED <<jsVars, startVictim, stopVars, host, cancel, cancelled, manager>>

(* DiagnosticManager::spawn, then the host is stored.                      *)
StartStore(e) ==
  /\ start[e] = "store"
  /\ manager' = [manager EXCEPT ![e] = "running"]
  /\ host' = e
  /\ StartGoto(e, "ok")
  /\ UNCHANGED <<jsVars, startVictim, stopVars, cancel, cancelled, server>>

-----------------------------------------------------------------------------
(* lsp_stop                                                                *)

(* Mutant: shut down whether there is a host or not.                       *)
StopTakeAlways(e) ==
  /\ stop[e] = "take"
  /\ stopVictim' = [stopVictim EXCEPT ![e] = host]
  /\ host' = None
  /\ stop' = [stop EXCEPT ![e] = "shutdown"]
  /\ UNCHANGED <<jsVars, startVars, cancel, cancelled, server, manager>>

StopTake(e) ==
  /\ stop[e] = "take"
  /\ stopVictim' = [stopVictim EXCEPT ![e] = host]
  /\ host' = None
  /\ stop' = [stop EXCEPT ![e] = IF host = None THEN "token" ELSE "shutdown"]
  /\ UNCHANGED <<jsVars, startVars, cancel, cancelled, server, manager>>

StopShutdown(e) ==
  /\ stop[e] = "shutdown"
  /\ server' = [server EXCEPT ![stopVictim[e]] = "dead"]
  /\ stop' = [stop EXCEPT ![e] = "token"]
  /\ UNCHANGED <<jsVars, startVars, stopVictim, host, cancel, cancelled, manager>>

(* It takes whatever token LspState.cancel holds by now.                   *)
StopToken(e) ==
  /\ stop[e] = "token"
  /\ cancelled' = cancelled \cup ({cancel} \ {None})
  /\ cancel' = None
  /\ stop' = [stop EXCEPT ![e] = "returned"]
  /\ UNCHANGED <<jsVars, startVars, stopVictim, host, server, manager>>

(* lsp://status events reach the listeners of whichever run is live, once  *)
(* they are registered, no matter which server they are about.             *)
Show(st) ==
  ui' \in CASE cleanup = None \/ js[cleanup] = "deaf" -> {ui}
            [] cleanup # None /\ js[cleanup] = "listening" -> {ui, st}
            [] OTHER -> {st}

(* DiagnosticManager reports the progress of its server.                   *)
ManagerReports(e) ==
  /\ manager[e] = "running" /\ server[e] = "running"
  /\ Show("indexing") \/ Show("ready")
  /\ UNCHANGED <<root, runs, rootOf, isLspStarting, currentRoot, cleanup, js,
                 startVars, stopVars, stateVars>>

(* DiagnosticManager sees its token cancelled, emits Stopped and ends.  It *)
(* does not end when its server does.                                      *)
ManagerStops(e) ==
  /\ manager[e] = "running" /\ e \in cancelled
  /\ manager' = [manager EXCEPT ![e] = "stopped"]
  /\ Show("stopped")
  /\ UNCHANGED <<root, runs, rootOf, isLspStarting, currentRoot, cleanup, js,
                 startVars, stopVars, host, cancel, cancelled, server>>

-----------------------------------------------------------------------------
StartStep(e) == StartTake(e) \/ StartShutdown(e) \/ StartToken(e) \/ StartSpawned(e) \/ StartStore(e)
StopStep(e) == StopTake(e) \/ StopShutdown(e) \/ StopToken(e)
JsStep(e) == Invoke(e) \/ Settle(e)

Next ==
  \/ \E r \in Roots \cup {NoRoot} : Switch(r)
  \/ \E e \in Runs : JsStep(e) \/ StartStep(e) \/ StopStep(e)
                   \/ ManagerReports(e) \/ ManagerStops(e)

Spec == Init /\ [][Next]_vars

(***************************************************************************)
(* The runtimes run every ready task, and shutdown and spawn return within *)
(* their 120 s timers (LspHost, while rust-analyzer reads its stdin).      *)
(* Nothing makes the user switch.                                          *)
(***************************************************************************)
FairSpec ==
  Spec /\ \A e \in Runs : WF_vars(JsStep(e)) /\ WF_vars(StartStep(e))
                          /\ WF_vars(StopStep(e)) /\ WF_vars(ManagerStops(e))

-----------------------------------------------------------------------------
(* Properties                                                              *)

(* A run whose listeners could not be registered never stops starting.     *)
Starting(e) == js[e] \in {"listening", "deaf", "invoked"}

(* The isLspStarting flag keeps the lsp_start calls of the hook apart: it  *)
(* is set exactly while one run is between its effect and its settling,    *)
(* which a run without listeners never reaches.                            *)
StartsAreSerial ==
  /\ isLspStarting = "yes" <=> \E e \in Runs : Starting(e)
  /\ \A e, f \in Runs : Starting(e) /\ Starting(f) => e = f

(* No orphans: a running server is the stored one, is being shut down by   *)
(* the command that took it, or belongs to a start under way or failed.    *)
(* For this lsp_start must store its host into an empty slot: the handle   *)
(* it overwrote would be the last one of a server (lsp_commands.rs).       *)
NoOrphanServer ==
  /\ \A e \in Runs : start[e] = "store" => host = None
  /\ \A e \in Runs : server[e] = "running" =>
       \/ host = e
       \/ start[e] \in {"spawning", "store", "failed"}
       \/ \E f \in Runs : \/ start[f] = "shutdown" /\ startVictim[f] = e
                          \/ stop[f] = "shutdown" /\ stopVictim[f] = e

(* The flag that bars other starts is lowered again, also when the start   *)
(* fails; and the status bar does not say starting for ever while a run is *)
(* live: its start succeeds or fails, and the user is told.  One exception *)
(* of the code: if a listener cannot be registered, the error goes to      *)
(* nobody, the flag stays up and bars every later start, and the status    *)
(* bar goes on saying starting.                                            *)
StartIsShown ==
  /\ isLspStarting = "yes" ~> isLspStarting = "no" \/ \E e \in Runs : js[e] = "deaf"
  /\ ui = "starting" ~> ui # "starting" \/ cleanup = None \/ js[cleanup] = "deaf"

Quiescent ==
  \A e \in Runs : /\ js[e] \notin {"listening", "invoked"}
                  /\ start[e] \in {"none", "ok", "failed"}
                  /\ stop[e] \in {"none", "returned"}
                  /\ ~(manager[e] = "running" /\ e \in cancelled)

(* lsp_start spawns the "diagnostic manager to consume server messages":   *)
(* when all is quiet, the stored server has a manager that runs.           *)
ServerHasManager == Quiescent /\ host # None => manager[host] = "running"
=============================================================================
