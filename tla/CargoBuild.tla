----------------------------- MODULE CargoBuild -----------------------------
(***************************************************************************)
(* Streaming cargo builds: runCheck, runClippy, runBuild and cancelBuild   *)
(* of the useCargoDiagnostics hook, the cargo_*_streaming and              *)
(* cargo_cancel_build commands (commands/cargo_commands.rs), and the       *)
(* CargoProcessManager they share (cargo/process_manager.rs).              *)
(*                                                                         *)
(* Op i is one click of the user.  The commands of an op run as a Tokio    *)
(* task; tokio::sync::Mutex grants process_manager in the order in which   *)
(* tasks came to it, so the lock is a queue whose head holds it.  Replies  *)
(* and events travel to JavaScript separately and in any order.            *)
(***************************************************************************)
EXTENDS Integers, Sequences, FiniteSets

CONSTANT MaxOps     \* bound: clicks

ASSUME CargoAssumption == MaxOps \in Nat \ {0}

Ops == 1..MaxOps
None == 0

VARIABLES
  kind,        \* what the click asked for
  js,          \* progress of the hook's async callback
  isBuilding,  \* what the hook shows
  cmd,         \* progress of the command the op is waiting for
  queue,       \* the process_manager lock: its holder, then those waiting
  active,      \* CargoProcessManager.active_process
  cancelled,   \* tokens that were cancelled
  child,       \* cargo processes
  line,        \* the build-finished line of each cargo
  events       \* cargo://finished events on their way

jsVars == <<kind, js, isBuilding>>
managerVars == <<queue, active, cancelled>>
cargoVars == <<child, line>>
vars == <<jsVars, cmd, managerVars, cargoVars, events>>

Commands == {"idle", "sent cancel", "cancel", "sent run", "run", "spawn", "wait",
             "drain", "ok", "err"}

TypeOK ==
  /\ kind \in [Ops -> {"none", "run", "cancel"}]
  /\ js \in [Ops -> {"none", "cancelling", "streaming", "done"}]
  /\ isBuilding \in {"yes", "no"}
  /\ cmd \in [Ops -> Commands]
  /\ queue \in Seq(Ops)
  /\ \A m, n \in 1..Len(queue) : queue[m] = queue[n] => m = n
  /\ active \in Ops \cup {None}
  /\ cancelled \subseteq Ops
  /\ child \in [Ops -> {"none", "running", "succeeded", "failed", "killed"}]
  /\ line \in [Ops -> {"none", "written", "read"}]
  /\ events \subseteq Ops

Init ==
  /\ kind = [i \in Ops |-> "none"] /\ js = [i \in Ops |-> "none"]
  /\ isBuilding = "no"
  /\ cmd = [i \in Ops |-> "idle"]
  /\ queue = << >>
  /\ active = None
  /\ cancelled = {}
  /\ child = [i \in Ops |-> "none"] /\ line = [i \in Ops |-> "none"]
  /\ events = {}

JsGoto(i, l) == js' = [js EXCEPT ![i] = l]
Goto(i, l) == cmd' = [cmd EXCEPT ![i] = l]

-----------------------------------------------------------------------------
(* The hook                                                                *)

(* A menu item runs cargo at any time; the navbar offers to cancel only    *)
(* while isBuilding.  Either way cargo_cancel_build is invoked first.      *)
Click(i, k) ==
  /\ kind[i] = "none"
  /\ k = "cancel" => isBuilding = "yes"
  /\ kind' = [kind EXCEPT ![i] = k]
  /\ JsGoto(i, "cancelling")
  /\ Goto(i, "sent cancel")
  /\ UNCHANGED <<isBuilding, managerVars, cargoVars, events>>

(* await cargoCancelBuild() resumes.                                       *)
Cancelled(i) ==
  /\ js[i] = "cancelling" /\ cmd[i] = "ok"
  /\ IF kind[i] = "run"
       THEN isBuilding' = "yes" /\ JsGoto(i, "streaming") /\ Goto(i, "sent run")
       ELSE isBuilding' = "no" /\ JsGoto(i, "done") /\ Goto(i, "idle")
  /\ UNCHANGED <<kind, managerVars, cargoVars, events>>

(* Mutant: a failure is only logged.                                       *)
ReturnedLogs(i) ==
  /\ js[i] = "streaming" /\ cmd[i] \in {"ok", "err"}
  /\ JsGoto(i, "done") /\ Goto(i, "idle")
  /\ UNCHANGED <<kind, isBuilding, managerVars, cargoVars, events>>

(* The streaming command returns; the catch block takes an error.          *)
Returned(i) ==
  /\ js[i] = "streaming" /\ cmd[i] \in {"ok", "err"}
  /\ isBuilding' = IF cmd[i] = "err" THEN "no" ELSE isBuilding
  /\ JsGoto(i, "done") /\ Goto(i, "idle")
  /\ UNCHANGED <<kind, managerVars, cargoVars, events>>

(* The cargo://finished listener, which cannot tell whose event it is.     *)
Finished(i) ==
  /\ i \in events
  /\ events' = events \ {i}
  /\ isBuilding' = "no"
  /\ UNCHANGED <<kind, js, cmd, managerVars, cargoVars>>

-----------------------------------------------------------------------------
(* The commands                                                            *)

Holds(i) == queue # << >> /\ Head(queue) = i

(* The command comes to process_manager.lock().await.                      *)
Arrive(i) ==
  /\ \/ cmd[i] = "sent cancel" /\ Goto(i, "cancel")
     \/ cmd[i] = "sent run" /\ Goto(i, "run")
  /\ queue' = Append(queue, i)
  /\ UNCHANGED <<jsVars, active, cancelled, cargoVars, events>>

(* cancel_active_process; with no process active it does nothing, which is *)
(* also what the command does before the manager is created.               *)
CancelActive == cancelled' = cancelled \cup ({active} \ {None})

(* Mutant: the lock is kept.                                               *)
CancelKeepsLock(i) ==
  /\ cmd[i] = "cancel" /\ Holds(i)
  /\ CancelActive
  /\ active' = None
  /\ Goto(i, "ok")
  /\ UNCHANGED <<jsVars, queue, cargoVars, events>>

(* cargo_cancel_build, under the lock.                                     *)
Cancel(i) ==
  /\ cmd[i] = "cancel" /\ Holds(i)
  /\ CancelActive
  /\ active' = None
  /\ queue' = Tail(queue)
  /\ Goto(i, "ok")
  /\ UNCHANGED <<jsVars, cargoVars, events>>

(* Mutant: run_cargo_command without the process_manager lock.             *)
RunUnlocked(i) ==
  /\ cmd[i] = "run"
  /\ CancelActive
  /\ active' = i
  /\ Goto(i, "spawn")
  /\ UNCHANGED <<jsVars, queue, cargoVars, events>>

(* run_cargo_command cancels what is active and becomes active.            *)
Run(i) ==
  /\ cmd[i] = "run" /\ Holds(i)
  /\ CancelActive
  /\ active' = i
  /\ Goto(i, "spawn")
  /\ UNCHANGED <<jsVars, queue, cargoVars, events>>

(* Command::spawn; on an error the op stays active and the lock is freed.  *)
Spawn(i) ==
  /\ cmd[i] = "spawn"
  /\ \/ /\ Goto(i, "wait")
        /\ child' = [child EXCEPT ![i] = "running"]
        /\ UNCHANGED queue
     \/ /\ Goto(i, "err")
        /\ queue' = Tail(queue)
        /\ UNCHANGED child
  /\ UNCHANGED <<jsVars, active, cancelled, line, events>>

Exited(i) == child[i] \in {"succeeded", "failed"}

(* The branches of tokio::select! that are ready.                          *)
Ready(i) == (IF i \in cancelled THEN {"cancelled"} ELSE {})
            \cup (IF Exited(i) THEN {"exited"} ELSE {})

(* tokio::select!: a cancelled process is killed and the command returns;  *)
(* an exited one is drained first.  (The op holds process_manager, which   *)
(* whoever would cancel it needs: the branch is there but never ready.)    *)
Select(i) ==
  /\ cmd[i] = "wait"
  /\ \E branch \in Ready(i) :
       IF branch = "cancelled"
         THEN /\ child' = [child EXCEPT ![i] = IF @ = "running" THEN "killed" ELSE @]
              /\ active' = None
              /\ queue' = Tail(queue)
              /\ Goto(i, "ok")
         ELSE /\ Goto(i, "drain")
              /\ UNCHANGED <<child, active, queue>>
  /\ UNCHANGED <<jsVars, cancelled, line, events>>

DrainEarly(i) ==
  /\ cmd[i] = "drain"
  /\ active' = None
  /\ queue' = Tail(queue)
  /\ Goto(i, IF child[i] = "succeeded" THEN "ok" ELSE "err")
  /\ UNCHANGED <<jsVars, cancelled, cargoVars, events>>

(* Both stream tasks have ended, so every line was read; the op is no      *)
(* longer active and the lock is freed.                                    *)
Drain(i) ==
  /\ cmd[i] = "drain" /\ line[i] # "written"
  /\ active' = None
  /\ queue' = Tail(queue)
  /\ Goto(i, IF child[i] = "succeeded" THEN "ok" ELSE "err")
  /\ UNCHANGED <<jsVars, cancelled, cargoVars, events>>

(* The stdout task reads the build-finished line and emits the event,      *)
(* unless the op was cancelled by then.                                    *)
ReadLine(i) ==
  /\ line[i] = "written"
  /\ line' = [line EXCEPT ![i] = "read"]
  /\ events' = IF i \in cancelled THEN events ELSE events \cup {i}
  /\ UNCHANGED <<jsVars, cmd, managerVars, child>>

-----------------------------------------------------------------------------
(* cargo itself (external): it ends by writing build-finished and exiting, *)
(* or fails without a word, as on a broken manifest.                       *)

WriteLine(i) ==
  /\ child[i] = "running" /\ line[i] = "none"
  /\ line' = [line EXCEPT ![i] = "written"]
  /\ UNCHANGED <<jsVars, cmd, managerVars, child, events>>

Exit(i) ==
  /\ child[i] = "running"
  /\ \/ line[i] # "none" /\ child' = [child EXCEPT ![i] = "succeeded"]
     \/ child' = [child EXCEPT ![i] = "failed"]
  /\ UNCHANGED <<jsVars, cmd, managerVars, line, events>>

-----------------------------------------------------------------------------
JsStep(i) == Cancelled(i) \/ Returned(i) \/ Finished(i)
CommandStep(i) == Arrive(i) \/ Cancel(i) \/ Run(i) \/ Spawn(i) \/ Select(i) \/ Drain(i)

Next ==
  \E i \in Ops :
    \/ \E k \in {"run", "cancel"} : Click(i, k)
    \/ JsStep(i) \/ CommandStep(i) \/ ReadLine(i)
    \/ WriteLine(i) \/ Exit(i)

Spec == Init /\ [][Next]_vars

(* The runtimes run every ready task and deliver every event.              *)
FairSpec ==
  Spec /\ \A i \in Ops : /\ WF_vars(Cancelled(i)) /\ WF_vars(Returned(i))
                         /\ WF_vars(Finished(i))
                         /\ WF_vars(CommandStep(i)) /\ WF_vars(ReadLine(i))

(* Every build comes to an end: only where a property needs it.            *)
EndingSpec == FairSpec /\ \A i \in Ops : WF_vars(Exit(i))

-----------------------------------------------------------------------------
(* Properties                                                              *)

(* "Build locking prevention": two cargo processes never run at once, so   *)
(* none waits for the lock on the target directory.                        *)
OneCargo == \A i, j \in Ops : child[i] = "running" /\ child[j] = "running" => i = j

(* active_process names the process that runs; what else it may name is an *)
(* op whose spawn failed, which nobody will kill by mistake.               *)
ActiveIsCurrent ==
  /\ \A i \in Ops : child[i] = "running" => active = i
  /\ active # None =>
       cmd[active] \in {"spawn", "wait", "drain"} \/ child[active] = "none"

(* No event is emitted late: when a command has returned, its stdout task  *)
(* has read the last line of its cargo.                                    *)
NoLateEvent == \A i \in Ops : cmd[i] \in {"ok", "err", "idle"} => line[i] # "written"

(* No click is forgotten: its promise settles, whatever other clicks do,   *)
(* and the spinner stops when the clicks do.                               *)
ClickSettles ==
  /\ \A i \in Ops : kind[i] # "none" ~> js[i] = "done"
  /\ isBuilding = "yes" ~> isBuilding = "no"

(* cargo_cancel_build is to "cancel the currently running cargo process":  *)
(* once invoked, it returns, however long that process would go on.        *)
CancelTakesEffect ==
  \A i \in Ops : kind[i] = "cancel" /\ js[i] = "cancelling" ~> js[i] = "done"

(***************************************************************************)
(* The inductive invariant behind the safety properties.                   *)
(***************************************************************************)
Queued == {"cancel", "run", "spawn", "wait", "drain"}
Working(i) == cmd[i] \in {"spawn", "wait", "drain"}

(* The op has come to its run of cargo.                                    *)
Begun(i) == \/ Working(i)
            \/ js[i] = "streaming" /\ cmd[i] \in {"ok", "err"}
            \/ js[i] = "done"

(* The hook's callback and the command it waits for are in step.           *)
OpInStep(i) ==
  /\ kind[i] = "none" => js[i] = "none"
  /\ cmd[i] = "idle" <=> js[i] \in {"none", "done"}
  /\ cmd[i] \in {"sent cancel", "cancel"} => js[i] = "cancelling"
  /\ cmd[i] \in {"sent run", "run", "spawn", "wait", "drain", "err"} => js[i] = "streaming"

InStep == \A i \in Ops : OpInStep(i)

(* The queue holds those who came to the lock and have not left it.        *)
Queueing ==
  \A i \in Ops : cmd[i] \in Queued <=> \E n \in 1..Len(queue) : queue[n] = i

(* Who works on a cargo holds the lock, is the active process, and has not *)
(* been cancelled, since a canceller would have to hold the lock.          *)
Serial ==
  \A i \in Ops : Working(i) => queue[1] = i /\ active = i /\ i \notin cancelled

(* An op leaves no trace before it begins.                                 *)
Traceless ==
  \A i \in Ops : ~Begun(i) =>
    i \notin cancelled /\ active # i /\ child[i] = "none" /\ line[i] = "none"

(* A cargo runs, and has unread lines, only while its command waits.       *)
Attended ==
  \A i \in Ops :
    /\ child[i] = "running" => cmd[i] = "wait"
    /\ cmd[i] = "spawn" => child[i] = "none" /\ line[i] = "none"
    /\ line[i] = "written" => cmd[i] \in {"wait", "drain"}

IInv ==
  /\ TypeOK /\ InStep /\ Queueing /\ Serial /\ Traceless /\ Attended
  /\ ActiveIsCurrent
=============================================================================
