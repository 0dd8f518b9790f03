-------------------------- MODULE CargoBuildProofs --------------------------
(***************************************************************************)
(* Proofs about CargoBuild, for any number of clicks and a cargo that may  *)
(* fail, hang or end at any time.                                          *)
(***************************************************************************)
EXTENDS CargoBuild, TLAPS

Member(q, i) == \E n \in 1..Len(q) : q[n] = i
NoRepeat(q) == \A m, n \in 1..Len(q) : q[m] = q[n] => m = n

(* Joining the queue of the lock.                                          *)
LEMMA Join ==
  ASSUME NEW q \in Seq(Ops), NEW i \in Ops, NoRepeat(q), ~Member(q, i)
  PROVE  /\ Append(q, i) \in Seq(Ops)
         /\ NoRepeat(Append(q, i))
         /\ \A j \in Ops : Member(Append(q, i), j) <=> Member(q, j) \/ j = i
         /\ q # << >> => Append(q, i)[1] = q[1]
<1> DEFINE r == Append(q, i)
<1>1. /\ r \in Seq(Ops) /\ Len(r) = Len(q) + 1 /\ Len(q) \in Nat
      /\ \A k \in 1..Len(q) : r[k] = q[k]
      /\ r[Len(q) + 1] = i
  OBVIOUS
<1>2. q # << >> => 1 \in 1..Len(q)
  OBVIOUS
<1> HIDE DEF r
<1>3. NoRepeat(r)
  <2> SUFFICES ASSUME NEW m \in 1..Len(r), NEW n \in 1..Len(r), r[m] = r[n] PROVE m = n
    BY DEF NoRepeat
  <2>1. m \in 1..Len(q) \/ m = Len(q) + 1
    BY <1>1
  <2>2. n \in 1..Len(q) \/ n = Len(q) + 1
    BY <1>1
  <2> QED BY <1>1, <2>1, <2>2 DEF NoRepeat, Member
<1>4. ASSUME NEW j \in Ops PROVE Member(r, j) <=> Member(q, j) \/ j = i
  <2>1. Member(r, j) => Member(q, j) \/ j = i
    <3> SUFFICES ASSUME NEW n \in 1..Len(r), r[n] = j PROVE Member(q, j) \/ j = i
      BY DEF Member
    <3>1. n \in 1..Len(q) \/ n = Len(q) + 1
      BY <1>1
    <3> QED BY <1>1, <3>1 DEF Member
  <2>2. Member(q, j) => Member(r, j)
    <3> SUFFICES ASSUME NEW n \in 1..Len(q), q[n] = j PROVE Member(r, j)
      BY DEF Member
    <3>1. n \in 1..Len(r) /\ r[n] = j
      BY <1>1
    <3> QED BY <3>1 DEF Member
  <2>3. Member(r, i)
    <3>1. Len(q) + 1 \in 1..Len(r)
      BY <1>1
    <3> QED BY <1>1, <3>1 DEF Member
  <2> QED BY <2>1, <2>2, <2>3
<1> QED BY <1>1, <1>2, <1>3, <1>4 DEF r

(* Releasing the lock.                                                     *)
LEMMA Release ==
  ASSUME NEW q \in Seq(Ops), q # << >>, NoRepeat(q)
  PROVE  /\ Tail(q) \in Seq(Ops)
         /\ NoRepeat(Tail(q))
         /\ \A j \in Ops : Member(Tail(q), j) <=> Member(q, j) /\ j # q[1]
<1> DEFINE r == Tail(q)
<1>1. /\ r \in Seq(Ops) /\ Len(r) = Len(q) - 1 /\ Len(q) \in Nat \ {0}
      /\ \A k \in 1..Len(r) : r[k] = q[k + 1]
  OBVIOUS
<1> HIDE DEF r
<1>2. NoRepeat(r)
  <2> SUFFICES ASSUME NEW m \in 1..Len(r), NEW n \in 1..Len(r), r[m] = r[n] PROVE m = n
    BY DEF NoRepeat
  <2>1. m + 1 \in 1..Len(q) /\ n + 1 \in 1..Len(q) /\ q[m + 1] = q[n + 1]
    BY <1>1
  <2> QED BY <2>1 DEF NoRepeat
<1>3. ASSUME NEW j \in Ops PROVE Member(r, j) <=> Member(q, j) /\ j # q[1]
  <2>1. ASSUME Member(r, j) PROVE Member(q, j) /\ j # q[1]
    <3>1. PICK n \in 1..Len(r) : r[n] = j
      BY <2>1 DEF Member
    <3>2. n + 1 \in 1..Len(q) /\ 1 \in 1..Len(q) /\ n + 1 # 1 /\ q[n + 1] = j
      BY <1>1, <3>1
    <3>3. Member(q, j)
      BY <3>2 DEF Member
    <3> QED BY <3>2, <3>3 DEF NoRepeat
  <2>2. ASSUME Member(q, j), j # q[1] PROVE Member(r, j)
    <3>1. PICK n \in 1..Len(q) : q[n] = j
      BY <2>2 DEF Member
    <3>2. n - 1 \in 1..Len(r) /\ r[n - 1] = j
      BY <1>1, <2>2, <3>1
    <3> QED BY <3>2 DEF Member
  <2> QED BY <2>1, <2>2
<1> QED BY <1>1, <1>2, <1>3 DEF r

(* Who holds the lock is the first in the queue.                           *)
LEMMA Holder ==
  ASSUME TypeOK, NEW i \in Ops, Holds(i)
  PROVE  queue # << >> /\ queue[1] = i
BY DEF TypeOK, Holds

LEMMA Waiting ==
  ASSUME TypeOK, Queueing, NEW i \in Ops, cmd[i] \in Queued
  PROVE  queue # << >>
BY DEF TypeOK, Queueing

(***************************************************************************)
(* Types, and the queue: an op is in it from its arrival at the lock to    *)
(* its release, once.                                                      *)
(***************************************************************************)
LEMMA QueueInit == Init => TypeOK /\ Queueing
BY CargoAssumption DEF CargoAssumption, Init, TypeOK, Queueing, Queued, Ops, None, Commands

LEMMA QueueStep == IInv /\ [Next]_vars => TypeOK' /\ Queueing'
<1> SUFFICES ASSUME IInv, [Next]_vars PROVE TypeOK' /\ Queueing'
  OBVIOUS
<1> USE DEF IInv, jsVars, managerVars, cargoVars
<1>0. NoRepeat(queue) /\ \A i \in Ops : cmd[i] \in Queued <=> Member(queue, i)
  BY DEF TypeOK, Queueing, NoRepeat, Member
<1>a. ASSUME NEW i \in Ops, queue' = Tail(queue), queue # << >>, queue[1] = i,
             cmd' = [cmd EXCEPT ![i] = cmd'[i]], cmd'[i] \notin Queued
      PROVE  /\ queue' \in Seq(Ops)
             /\ \A m, n \in 1..Len(queue') : queue'[m] = queue'[n] => m = n
             /\ Queueing'
  <2>1. queue \in Seq(Ops)
    BY DEF TypeOK
  <2>2. queue' \in Seq(Ops) /\ NoRepeat(queue')
        /\ \A j \in Ops : Member(queue', j) <=> Member(queue, j) /\ j # i
    BY <1>0, <1>a, <2>1, Release
  <2>3. \A j \in Ops : cmd'[j] \in Queued <=> Member(queue', j)
    BY <1>0, <1>a, <2>2 DEF TypeOK
  <2> QED BY <2>2, <2>3 DEF NoRepeat, Member, Queueing
<1>b. ASSUME UNCHANGED queue, \A j \in Ops : cmd'[j] \in Queued <=> cmd[j] \in Queued
      PROVE  Queueing'
  BY <1>b DEF Queueing
<1>1. ASSUME NEW i \in Ops, NEW k \in {"run", "cancel"}, Click(i, k) PROVE TypeOK' /\ Queueing'
  <2>1. cmd[i] = "idle" /\ cmd' = [cmd EXCEPT ![i] = "sent cancel"]
    BY <1>1 DEF Click, Goto, TypeOK, InStep, OpInStep
  <2>2. \A j \in Ops : cmd'[j] \in Queued <=> cmd[j] \in Queued
    BY <2>1 DEF TypeOK, Queued
  <2>3. Queueing'
    BY <1>1, <1>b, <2>2 DEF Click
  <2>4. kind' \in [Ops -> {"none", "run", "cancel"}]
    BY <1>1 DEF Click, TypeOK
  <2>5. cmd' \in [Ops -> Commands] /\ js' \in [Ops -> {"none", "cancelling", "streaming", "done"}]
    BY <1>1, <2>1 DEF Click, JsGoto, TypeOK, Commands
  <2>6. UNCHANGED <<isBuilding, managerVars, cargoVars, events>>
    BY <1>1 DEF Click
  <2>7. TypeOK'
    BY <2>4, <2>5, <2>6 DEF TypeOK
  <2> QED BY <2>3, <2>7
<1>2. ASSUME NEW i \in Ops, Cancelled(i) PROVE TypeOK' /\ Queueing'
  <2>1. cmd[i] = "ok" /\ cmd' = [cmd EXCEPT ![i] = cmd'[i]] /\ cmd'[i] \in {"sent run", "idle"}
    BY <1>2 DEF Cancelled, Goto, TypeOK
  <2>2. \A j \in Ops : cmd'[j] \in Queued <=> cmd[j] \in Queued
    BY <2>1 DEF TypeOK, Queued
  <2>3. Queueing'
    BY <1>2, <1>b, <2>2 DEF Cancelled
  <2>4. cmd' \in [Ops -> Commands]
    <3>1. cmd'[i] \in Commands
      BY <2>1 DEF Commands
    <3> QED BY <2>1, <3>1 DEF TypeOK
  <2>5. js' \in [Ops -> {"none", "cancelling", "streaming", "done"}] /\ isBuilding' \in {"yes", "no"}
    BY <1>2 DEF Cancelled, JsGoto, TypeOK
  <2>6. UNCHANGED <<kind, managerVars, cargoVars, events>>
    BY <1>2 DEF Cancelled
  <2>7. TypeOK'
    BY <2>4, <2>5, <2>6 DEF TypeOK
  <2> QED BY <2>3, <2>7
<1>3. ASSUME NEW i \in Ops, Returned(i) PROVE TypeOK' /\ Queueing'
  BY <1>3, <1>b DEF Returned, Goto, JsGoto, TypeOK, Queued, Commands, None
<1>4. ASSUME NEW i \in Ops, Finished(i) PROVE TypeOK' /\ Queueing'
  BY <1>4, <1>b DEF Finished, Goto, JsGoto, TypeOK, Queued, Commands, None
<1>5. ASSUME NEW i \in Ops, Arrive(i) PROVE TypeOK' /\ Queueing'
  <2>1. queue' = Append(queue, i) /\ cmd' = [cmd EXCEPT ![i] = cmd'[i]]
        /\ cmd[i] \notin Queued /\ cmd'[i] \in {"cancel", "run"}
    BY <1>5 DEF Arrive, Goto, TypeOK, Queued
  <2>2. ~Member(queue, i) /\ queue \in Seq(Ops)
    BY <1>0, <2>1 DEF TypeOK
  <2>3. queue' \in Seq(Ops) /\ NoRepeat(queue')
        /\ \A j \in Ops : Member(queue', j) <=> Member(queue, j) \/ j = i
    BY <1>0, <2>1, <2>2, Join
  <2>4. \A j \in Ops : cmd'[j] \in Queued <=> Member(queue', j)
    BY <1>0, <2>1, <2>3 DEF TypeOK, Queued
  <2>5. TypeOK'
    <3>1. \A m, n \in 1..Len(queue') : queue'[m] = queue'[n] => m = n
      BY <2>3 DEF NoRepeat
    <3>2. cmd' \in [Ops -> Commands]
      BY <2>1 DEF TypeOK, Commands
    <3>3. UNCHANGED <<jsVars, active, cancelled, cargoVars, events>>
      BY <1>5 DEF Arrive
    <3> QED BY <2>3, <3>1, <3>2, <3>3 DEF TypeOK
  <2> QED BY <2>3, <2>4, <2>5 DEF Member, Queueing
<1>6. ASSUME NEW i \in Ops, Cancel(i) PROVE TypeOK' /\ Queueing'
  <2>1. queue # << >> /\ queue[1] = i
    BY <1>6, Holder DEF Cancel
  <2>2. cmd' = [cmd EXCEPT ![i] = cmd'[i]] /\ cmd'[i] = "ok" /\ queue' = Tail(queue)
    BY <1>6 DEF Cancel, Goto, TypeOK
  <2>3. cmd'[i] \notin Queued
    BY <2>2 DEF Queued
  <2>4. /\ queue' \in Seq(Ops) /\ Queueing'
        /\ \A m, n \in 1..Len(queue') : queue'[m] = queue'[n] => m = n
    BY <1>a, <2>1, <2>2, <2>3
  <2>5. TypeOK'
    <3>1. cmd' \in [Ops -> Commands]
      BY <2>2 DEF TypeOK, Commands
    <3>2. cancelled' \subseteq Ops /\ active' = None
      BY <1>6 DEF Cancel, CancelActive, TypeOK, None
    <3>3. UNCHANGED <<jsVars, cargoVars, events>>
      BY <1>6 DEF Cancel
    <3> QED BY <2>4, <3>1, <3>2, <3>3 DEF TypeOK
  <2> QED BY <2>4, <2>5
<1>7. ASSUME NEW i \in Ops, Run(i) PROVE TypeOK' /\ Queueing'
  BY <1>7, <1>b DEF Run, CancelActive, Goto, TypeOK, Queued, Commands, None
<1>8. ASSUME NEW i \in Ops, Spawn(i) PROVE TypeOK' /\ Queueing'
  <2>1. queue # << >> /\ queue[1] = i
    BY <1>8, Waiting DEF Spawn, Serial, Working, Queued
  <2>2. CASE cmd' = [cmd EXCEPT ![i] = "err"] /\ queue' = Tail(queue) /\ UNCHANGED child
    <3>1. cmd' = [cmd EXCEPT ![i] = cmd'[i]] /\ cmd'[i] \notin Queued
      BY <2>2 DEF TypeOK, Queued
    <3>2. /\ queue' \in Seq(Ops) /\ Queueing'
          /\ \A m, n \in 1..Len(queue') : queue'[m] = queue'[n] => m = n
      BY <1>a, <2>1, <2>2, <3>1
    <3>3. TypeOK'
      BY <1>8, <2>2, <3>2 DEF Spawn, TypeOK, Commands, None
    <3> QED BY <3>2, <3>3
  <2>3. CASE cmd' = [cmd EXCEPT ![i] = "wait"] /\ UNCHANGED queue /\ child' = [child EXCEPT ![i] = "running"]
    <3>1. \A j \in Ops : cmd'[j] \in Queued <=> cmd[j] \in Queued
      BY <1>8, <2>3 DEF Spawn, TypeOK, Queued
    <3>2. Queueing'
      BY <1>b, <2>3, <3>1
    <3>3. TypeOK'
      <4>1. cmd' \in [Ops -> Commands] /\ UNCHANGED queue
        BY <2>3 DEF TypeOK, Commands
      <4>2. child' \in [Ops -> {"none", "running", "succeeded", "failed", "killed"}]
        BY <2>3 DEF TypeOK
      <4>3. UNCHANGED <<jsVars, active, cancelled, line, events>>
        BY <1>8 DEF Spawn
      <4> QED BY <4>1, <4>2, <4>3 DEF TypeOK
    <3> QED BY <3>2, <3>3
  <2> QED BY <1>8, <2>2, <2>3 DEF Spawn, Goto
<1>9. ASSUME NEW i \in Ops, Select(i) PROVE TypeOK' /\ Queueing'
  <2>1. queue # << >> /\ queue[1] = i
    BY <1>9, Waiting DEF Select, Serial, Working, Queued
  <2>2. CASE cmd' = [cmd EXCEPT ![i] = "ok"] /\ queue' = Tail(queue)
    <3>1. cmd' = [cmd EXCEPT ![i] = cmd'[i]] /\ cmd'[i] \notin Queued
      BY <2>2 DEF TypeOK, Queued
    <3>2. /\ queue' \in Seq(Ops) /\ Queueing'
          /\ \A m, n \in 1..Len(queue') : queue'[m] = queue'[n] => m = n
      BY <1>a, <2>1, <2>2, <3>1
    <3>3. TypeOK'
      BY <1>9, <2>2, <3>2 DEF Select, TypeOK, Commands, None
    <3> QED BY <3>2, <3>3
  <2>3. CASE cmd' = [cmd EXCEPT ![i] = "drain"] /\ UNCHANGED <<queue, child, active>>
    <3>1. \A j \in Ops : cmd'[j] \in Queued <=> cmd[j] \in Queued
      BY <1>9, <2>3 DEF Select, TypeOK, Queued
    <3>2. Queueing'
      BY <1>b, <2>3, <3>1
    <3>3. TypeOK'
      BY <1>9, <2>3 DEF Select, TypeOK, Commands, None
    <3> QED BY <3>2, <3>3
  <2> QED BY <1>9, <2>2, <2>3 DEF Select, Goto
<1>10. ASSUME NEW i \in Ops, Drain(i) PROVE TypeOK' /\ Queueing'
  <2>1. queue # << >> /\ queue[1] = i
    BY <1>10, Waiting DEF Drain, Serial, Working, Queued
  <2>2. cmd' = [cmd EXCEPT ![i] = cmd'[i]] /\ cmd'[i] \in {"ok", "err"} /\ queue' = Tail(queue)
    BY <1>10 DEF Drain, Goto, TypeOK
  <2>3. cmd'[i] \notin Queued
    BY <2>2 DEF Queued
  <2>4. /\ queue' \in Seq(Ops) /\ Queueing'
        /\ \A m, n \in 1..Len(queue') : queue'[m] = queue'[n] => m = n
    BY <1>a, <2>1, <2>2, <2>3
  <2>5. TypeOK'
    <3>1. cmd' \in [Ops -> Commands]
      BY <2>2 DEF TypeOK, Commands
    <3>2. cancelled' \subseteq Ops /\ active' = None
      BY <1>10 DEF Drain, TypeOK
    <3>3. UNCHANGED <<jsVars, cargoVars, events>>
      BY <1>10 DEF Drain
    <3> QED BY <2>4, <3>1, <3>2, <3>3 DEF TypeOK
  <2> QED BY <2>4, <2>5
<1>11. ASSUME NEW i \in Ops, ReadLine(i) PROVE TypeOK' /\ Queueing'
  BY <1>11, <1>b DEF ReadLine, Goto, JsGoto, TypeOK, Queued, Commands, None
<1>12. ASSUME NEW i \in Ops, WriteLine(i) PROVE TypeOK' /\ Queueing'
  BY <1>12, <1>b DEF WriteLine, Goto, JsGoto, TypeOK, Queued, Commands, None
<1>13. ASSUME NEW i \in Ops, Exit(i) PROVE TypeOK' /\ Queueing'
  <2>1. UNCHANGED <<queue, cmd>>
    BY <1>13 DEF Exit, managerVars
  <2>2. Queueing'
    BY <1>b, <2>1
  <2>3. child' \in [Ops -> {"none", "running", "succeeded", "failed", "killed"}]
    BY <1>13 DEF Exit, TypeOK
  <2>4. UNCHANGED <<jsVars, cmd, managerVars, line, events>>
    BY <1>13 DEF Exit
  <2>5. TypeOK'
    BY <2>3, <2>4 DEF TypeOK
  <2> QED BY <2>2, <2>5
<1>14. CASE UNCHANGED vars
  BY <1>14 DEF vars, TypeOK, Queueing
<1> QED BY <1>1, <1>2, <1>3, <1>4, <1>5, <1>6, <1>7, <1>8, <1>9,
       <1>10, <1>11, <1>12, <1>13, <1>14 DEF Next, JsStep, CommandStep

(***************************************************************************)
(* One op works at a time: to cancel or to begin takes the lock, which the *)
(* one that works holds.                                                   *)
(***************************************************************************)
LEMMA Alone ==
  ASSUME IInv, NEW i \in Ops, Holds(i), cmd[i] \in {"cancel", "run"}
  PROVE  \A j \in Ops : ~Working(j)
<1>1. queue[1] = i
  BY Holder DEF IInv
<1> QED BY <1>1 DEF IInv, Serial, Working

LEMMA Only ==
  ASSUME IInv, NEW i \in Ops, Working(i)
  PROVE  \A j \in Ops : Working(j) => j = i
BY DEF IInv, Serial

(* Joining a queue that is not empty leaves its holder.                    *)
LEMMA HolderStays ==
  ASSUME IInv, NEW i \in Ops, Working(i), NEW j \in Ops, Arrive(j)
  PROVE  queue'[1] = queue[1]
<1>1. queue # << >> /\ queue \in Seq(Ops)
  BY Waiting DEF IInv, Working, Queued, TypeOK
<1>2. queue' = Append(queue, j)
  BY DEF Arrive
<1> QED BY <1>1, <1>2

(* What an action on op i leaves of the other ops.                         *)
Others(i) ==
  \A j \in Ops \ {i} : /\ kind'[j] = kind[j] /\ js'[j] = js[j] /\ cmd'[j] = cmd[j]
                       /\ child'[j] = child[j] /\ line'[j] = line[j]

(* An action on op i keeps the others in step.                             *)
LEMMA StaysInStep ==
  ASSUME IInv, NEW i \in Ops, Others(i), OpInStep(i)'
  PROVE  InStep'
<1> SUFFICES ASSUME NEW j \in Ops PROVE OpInStep(j)'
  BY DEF InStep
<1>1. CASE j = i
  BY <1>1
<1>2. CASE j # i
  BY <1>2 DEF IInv, InStep, OpInStep, Others
<1> QED BY <1>1, <1>2

(* The state of op i before and after.                                     *)
Now(i, c, p) == cmd[i] = c /\ js[i] = p
Then(i, c, p) == cmd'[i] = c /\ js'[i] = p
KeepsCargo(i) == child'[i] = child[i] /\ line'[i] = line[i]
KeepsManager == queue' = queue /\ active' = active /\ cancelled' = cancelled

Parts == InStep /\ Serial /\ Traceless /\ Attended /\ ActiveIsCurrent

(* An action of the hook, or an arrival at the lock, that leaves the       *)
(* working ops and the cargo processes alone.                              *)
LEMMA Quiet ==
  ASSUME IInv, UNCHANGED <<active, cancelled, child, line>>,
         \A j \in Ops : /\ Begun(j) => Begun(j)'
                        /\ Working(j) \/ Working(j)' => cmd'[j] = cmd[j]
                        /\ Working(j) => queue'[1] = queue[1]
  PROVE  Serial' /\ Traceless' /\ Attended' /\ ActiveIsCurrent'
<1>0. TypeOK /\ Serial /\ Traceless /\ Attended /\ ActiveIsCurrent
  BY DEF IInv
<1>1. Serial'
  BY <1>0 DEF Serial, Working
<1>2. Traceless'
  BY <1>0 DEF Traceless
<1>3. Attended'
  BY <1>0 DEF Attended, Working
<1>4. ActiveIsCurrent'
  <2>1. active \in Ops \/ active = None
    BY <1>0 DEF TypeOK
  <2> QED BY <1>0, <2>1 DEF ActiveIsCurrent, Working
<1> QED BY <1>1, <1>2, <1>3, <1>4

LEMMA PartsStep == IInv /\ [Next]_vars => Parts'
<1> SUFFICES ASSUME IInv, [Next]_vars PROVE Parts'
  OBVIOUS
<1> USE DEF Others, Now, Then, KeepsCargo, KeepsManager
<1>0. /\ TypeOK /\ InStep /\ Serial /\ Traceless /\ Attended /\ ActiveIsCurrent
      /\ None \notin Ops
  BY DEF IInv, None, Ops
<1>1. ASSUME NEW i \in Ops, NEW k \in {"run", "cancel"}, Click(i, k) PROVE Parts'
  <2>1. Now(i, "idle", "none")
    BY <1>1, <1>0 DEF Click, InStep, OpInStep
  <2>2. Others(i) /\ UNCHANGED <<queue, active, cancelled, child, line>>
    BY <1>1, <1>0 DEF Click, TypeOK, jsVars, managerVars, cargoVars, Goto, JsGoto
  <2>3. Then(i, "sent cancel", "cancelling") /\ kind'[i] # "none"
    BY <1>1, <1>0, <2>1 DEF Click, TypeOK, jsVars, managerVars, cargoVars, Goto, JsGoto
  <2>4. OpInStep(i)'
    BY <1>0, <2>1, <2>3 DEF InStep, OpInStep
  <2>5. \A j \in Ops : (Begun(j) => Begun(j)') /\ (Working(j) \/ Working(j)' => cmd'[j] = cmd[j])
    BY <2>1, <2>2, <2>3 DEF Begun, Working
  <2> QED BY <2>2, <2>4, <2>5, StaysInStep, Quiet DEF Parts
<1>2. ASSUME NEW i \in Ops, Cancelled(i) PROVE Parts'
  <2>1. Now(i, "ok", "cancelling")
    BY <1>2, <1>0 DEF Cancelled, InStep, OpInStep
  <2>2. Others(i) /\ UNCHANGED <<queue, active, cancelled, child, line>>
    BY <1>2, <1>0 DEF Cancelled, TypeOK, jsVars, managerVars, cargoVars, Goto, JsGoto
  <2>3. (Then(i, "sent run", "streaming") \/ Then(i, "idle", "done")) /\ kind'[i] = kind[i]
    BY <1>2, <1>0, <2>1 DEF Cancelled, TypeOK, jsVars, managerVars, cargoVars, Goto, JsGoto
  <2>4. OpInStep(i)'
    BY <1>0, <2>1, <2>3 DEF InStep, OpInStep
  <2>5. \A j \in Ops : (Begun(j) => Begun(j)') /\ (Working(j) \/ Working(j)' => cmd'[j] = cmd[j])
    BY <2>1, <2>2, <2>3 DEF Begun, Working
  <2> QED BY <2>2, <2>4, <2>5, StaysInStep, Quiet DEF Parts
<1>3. ASSUME NEW i \in Ops, Returned(i) PROVE Parts'
  <2>1. js[i] = "streaming" /\ cmd[i] \in {"ok", "err"}
    BY <1>3, <1>0 DEF Returned, InStep, OpInStep
  <2>2. Others(i) /\ UNCHANGED <<queue, active, cancelled, child, line>>
    BY <1>3, <1>0 DEF Returned, TypeOK, jsVars, managerVars, cargoVars, Goto, JsGoto
  <2>3. Then(i, "idle", "done") /\ kind'[i] = kind[i]
    BY <1>3, <1>0, <2>1 DEF Returned, TypeOK, jsVars, managerVars, cargoVars, Goto, JsGoto
  <2>4. OpInStep(i)'
    BY <1>0, <2>1, <2>3 DEF InStep, OpInStep
  <2>5. \A j \in Ops : (Begun(j) => Begun(j)') /\ (Working(j) \/ Working(j)' => cmd'[j] = cmd[j])
    BY <2>1, <2>2, <2>3 DEF Begun, Working
  <2> QED BY <2>2, <2>4, <2>5, StaysInStep, Quiet DEF Parts
<1>4. ASSUME NEW i \in Ops, Finished(i) PROVE Parts'
  <2>1. UNCHANGED <<kind, js, cmd, queue, active, cancelled, child, line>>
    BY <1>4 DEF Finished, managerVars, cargoVars
  <2>2. InStep'
    BY <1>0, <2>1 DEF InStep, OpInStep
  <2>3. \A j \in Ops : (Begun(j) => Begun(j)') /\ (Working(j) \/ Working(j)' => cmd'[j] = cmd[j])
    BY <2>1 DEF Begun, Working
  <2> QED BY <2>1, <2>2, <2>3, Quiet DEF Parts
<1>5. ASSUME NEW i \in Ops, Arrive(i) PROVE Parts'
  <2>1. Now(i, "sent cancel", "cancelling") \/ Now(i, "sent run", "streaming")
    BY <1>5, <1>0 DEF Arrive, InStep, OpInStep
  <2>2. Others(i) /\ UNCHANGED <<active, cancelled, child, line>>
    BY <1>5, <1>0 DEF Arrive, TypeOK, jsVars, managerVars, cargoVars, Goto, JsGoto
  <2>3. /\ Now(i, "sent cancel", "cancelling") => Then(i, "cancel", "cancelling")
        /\ Now(i, "sent run", "streaming") => Then(i, "run", "streaming")
        /\ kind'[i] = kind[i]
    BY <1>5, <1>0, <2>1 DEF Arrive, TypeOK, jsVars, managerVars, cargoVars, Goto, JsGoto
  <2>4. OpInStep(i)'
    BY <1>0, <2>1, <2>3 DEF InStep, OpInStep
  <2>5. \A j \in Ops : (Begun(j) => Begun(j)') /\ (Working(j) \/ Working(j)' => cmd'[j] = cmd[j])
    BY <2>1, <2>2, <2>3 DEF Begun, Working
  <2>6. \A j \in Ops : Working(j) => queue'[1] = queue[1]
    BY <1>5, HolderStays
  <2> QED BY <2>2, <2>4, <2>5, <2>6, StaysInStep, Quiet DEF Parts
<1>6. ASSUME NEW i \in Ops, Cancel(i) PROVE Parts'
  <2>1. Now(i, "cancel", "cancelling")
    BY <1>6, <1>0 DEF Cancel, InStep, OpInStep
  <2>2. Others(i)
    BY <1>6, <1>0 DEF Cancel, TypeOK, jsVars, managerVars, cargoVars, Goto, JsGoto, CancelActive
  <2>3. /\ Then(i, "ok", "cancelling") /\ kind'[i] = kind[i] /\ KeepsCargo(i)
        /\ active' = None /\ cancelled' = cancelled \cup ({active} \ {None})
    BY <1>6, <1>0, <2>1 DEF Cancel, TypeOK, jsVars, managerVars, cargoVars, Goto, JsGoto, CancelActive
  <2>4. \A j \in Ops : ~Working(j)
    BY <1>6, Alone DEF Cancel
  <2>5. InStep'
    <3>1. OpInStep(i)'
      BY <1>0, <2>1, <2>3 DEF InStep, OpInStep
    <3> QED BY <2>2, <3>1, StaysInStep
  <2>6. Serial'
    BY <1>0, <2>1, <2>2, <2>3, <2>4 DEF Serial, Working
  <2>7. Traceless'
    BY <1>0, <2>1, <2>2, <2>3, <2>4 DEF Traceless, Begun
  <2>8. Attended'
    BY <1>0, <2>1, <2>2, <2>3, <2>4 DEF Attended
  <2>9. ActiveIsCurrent'
    BY <1>0, <2>1, <2>2, <2>3, <2>4 DEF ActiveIsCurrent, Working
  <2> QED BY <2>5, <2>6, <2>7, <2>8, <2>9 DEF Parts
<1>7. ASSUME NEW i \in Ops, Run(i) PROVE Parts'
  <2>1. Now(i, "run", "streaming")
    BY <1>7, <1>0 DEF Run, InStep, OpInStep
  <2>2. Others(i)
    BY <1>7, <1>0 DEF Run, TypeOK, jsVars, managerVars, cargoVars, Goto, JsGoto, CancelActive
  <2>3. /\ Then(i, "spawn", "streaming") /\ kind'[i] = kind[i] /\ KeepsCargo(i)
        /\ active' = i /\ cancelled' = cancelled \cup ({active} \ {None})
    BY <1>7, <1>0, <2>1 DEF Run, TypeOK, jsVars, managerVars, cargoVars, Goto, JsGoto, CancelActive
  <2>4. \A j \in Ops : ~Working(j)
    BY <1>7, Alone DEF Run
  <2>5. queue'[1] = i
    BY <1>7, <1>0, Holder DEF Run
  <2>6. InStep'
    <3>1. OpInStep(i)'
      BY <1>0, <2>1, <2>3 DEF InStep, OpInStep
    <3> QED BY <2>2, <3>1, StaysInStep
  <2>7. Serial'
    BY <1>0, <2>1, <2>2, <2>3, <2>4, <2>5 DEF Serial, Working, Traceless, Begun
  <2>8. Traceless'
    BY <1>0, <2>1, <2>2, <2>3, <2>4, <2>5 DEF Traceless, Begun, Working
  <2>9. Attended'
    BY <1>0, <2>1, <2>2, <2>3, <2>4, <2>5 DEF Attended, Traceless, Begun, Working
  <2>10. ActiveIsCurrent'
    BY <1>0, <2>1, <2>2, <2>3, <2>4, <2>5 DEF ActiveIsCurrent, Working
  <2> QED BY <2>6, <2>7, <2>8, <2>9, <2>10 DEF Parts
<1>8. ASSUME NEW i \in Ops, Spawn(i) PROVE Parts'
  <2>1. Now(i, "spawn", "streaming")
    BY <1>8, <1>0 DEF Spawn, InStep, OpInStep
  <2>2. Others(i)
    BY <1>8, <1>0 DEF Spawn, TypeOK, jsVars, managerVars, cargoVars, Goto, JsGoto
  <2>3. /\ js'[i] = js[i] /\ kind'[i] = kind[i] /\ line'[i] = line[i]
        /\ \/ cmd'[i] = "wait" /\ child'[i] = "running" /\ queue' = queue
           \/ cmd'[i] = "err" /\ child'[i] = child[i]
        /\ active' = active /\ cancelled' = cancelled
    BY <1>8, <1>0, <2>1 DEF Spawn, TypeOK, jsVars, managerVars, cargoVars, Goto, JsGoto
  <2>4. \A j \in Ops : Working(j) => j = i
    BY <1>8, <2>1, Only DEF Working
  <2>5. InStep'
    <3>1. OpInStep(i)'
      BY <1>0, <2>1, <2>3 DEF InStep, OpInStep
    <3> QED BY <2>2, <3>1, StaysInStep
  <2>6. Serial'
    BY <1>0, <2>1, <2>2, <2>3, <2>4 DEF Serial, Working
  <2>7. Traceless'
    BY <1>0, <2>1, <2>2, <2>3, <2>4 DEF Traceless, Begun, Working
  <2>8. Attended'
    BY <1>0, <2>1, <2>2, <2>3, <2>4 DEF Attended
  <2>9. ActiveIsCurrent'
    BY <1>0, <2>1, <2>2, <2>3, <2>4 DEF ActiveIsCurrent, Attended, Serial, Traceless, Begun, Working
  <2> QED BY <2>5, <2>6, <2>7, <2>8, <2>9 DEF Parts
<1>9. ASSUME NEW i \in Ops, Select(i) PROVE Parts'
  <2>1. Now(i, "wait", "streaming") /\ i \notin cancelled
    BY <1>9, <1>0 DEF Select, InStep, OpInStep, Serial, Working
  <2>2. Others(i)
    BY <1>9, <1>0 DEF Select, TypeOK, jsVars, managerVars, cargoVars, Goto, JsGoto, Ready, Exited
  <2>3. Then(i, "drain", "streaming") /\ kind'[i] = kind[i] /\ KeepsCargo(i) /\ KeepsManager
    BY <1>9, <1>0, <2>1 DEF Select, TypeOK, jsVars, managerVars, cargoVars, Goto, JsGoto, Ready, Exited
  <2>4. child[i] # "running"
    BY <1>9, <2>1 DEF Select, Ready, Exited
  <2>5. InStep'
    <3>1. OpInStep(i)'
      BY <1>0, <2>1, <2>3 DEF InStep, OpInStep
    <3> QED BY <2>2, <3>1, StaysInStep
  <2>6. Serial'
    BY <1>0, <2>1, <2>2, <2>3, <2>4 DEF Serial, Working
  <2>7. Traceless'
    BY <1>0, <2>1, <2>2, <2>3, <2>4 DEF Traceless, Begun, Working
  <2>8. Attended'
    BY <1>0, <2>1, <2>2, <2>3, <2>4 DEF Attended
  <2>9. ActiveIsCurrent'
    BY <1>0, <2>1, <2>2, <2>3, <2>4 DEF ActiveIsCurrent, Attended, Serial, Traceless, Begun, Working
  <2> QED BY <2>5, <2>6, <2>7, <2>8, <2>9 DEF Parts
<1>10. ASSUME NEW i \in Ops, Drain(i) PROVE Parts'
  <2>1. Now(i, "drain", "streaming") /\ line[i] # "written"
    BY <1>10, <1>0 DEF Drain, InStep, OpInStep
  <2>2. Others(i)
    BY <1>10, <1>0 DEF Drain, TypeOK, jsVars, managerVars, cargoVars, Goto, JsGoto
  <2>3. /\ cmd'[i] \in {"ok", "err"} /\ js'[i] = js[i] /\ kind'[i] = kind[i] /\ KeepsCargo(i)
        /\ active' = None /\ cancelled' = cancelled
    BY <1>10, <1>0, <2>1 DEF Drain, TypeOK, jsVars, managerVars, cargoVars, Goto, JsGoto
  <2>4. \A j \in Ops : Working(j) => j = i
    BY <1>10, <2>1, Only DEF Working
  <2>5. InStep'
    <3>1. OpInStep(i)'
      BY <1>0, <2>1, <2>3 DEF InStep, OpInStep
    <3> QED BY <2>2, <3>1, StaysInStep
  <2>6. Serial'
    BY <1>0, <2>1, <2>2, <2>3, <2>4 DEF Serial, Working
  <2>7. Traceless'
    BY <1>0, <2>1, <2>2, <2>3, <2>4 DEF Traceless, Begun
  <2>8. Attended'
    BY <1>0, <2>1, <2>2, <2>3, <2>4 DEF Attended
  <2>9. ActiveIsCurrent'
    BY <1>0, <2>1, <2>2, <2>3, <2>4 DEF ActiveIsCurrent, Attended, Traceless, Begun, Working
  <2> QED BY <2>5, <2>6, <2>7, <2>8, <2>9 DEF Parts
<1>11. ASSUME NEW i \in Ops, ReadLine(i) PROVE Parts'
  <2>1. line[i] = "written"
    BY <1>11, <1>0 DEF ReadLine, InStep, OpInStep
  <2>2. Others(i)
    BY <1>11, <1>0 DEF ReadLine, TypeOK, jsVars, managerVars, cargoVars, Goto, JsGoto
  <2>3. /\ Then(i, cmd[i], js[i]) /\ kind'[i] = kind[i] /\ KeepsManager
        /\ line'[i] = "read" /\ child'[i] = child[i]
    BY <1>11, <1>0, <2>1 DEF ReadLine, TypeOK, jsVars, managerVars, cargoVars, Goto, JsGoto
  <2>4. InStep'
    <3>1. OpInStep(i)'
      BY <1>0, <2>1, <2>3 DEF InStep, OpInStep
    <3> QED BY <2>2, <3>1, StaysInStep
  <2>5. Serial'
    BY <1>0, <2>1, <2>2, <2>3 DEF Serial, Working
  <2>6. Traceless'
    BY <1>0, <2>1, <2>2, <2>3 DEF Traceless, Begun, Working
  <2>7. Attended'
    BY <1>0, <2>1, <2>2, <2>3 DEF Attended
  <2>8. ActiveIsCurrent'
    BY <1>0, <2>1, <2>2, <2>3 DEF ActiveIsCurrent, Attended, Serial, Traceless, Begun, Working
  <2> QED BY <2>4, <2>5, <2>6, <2>7, <2>8 DEF Parts
<1>12. ASSUME NEW i \in Ops, WriteLine(i) PROVE Parts'
  <2>1. child[i] = "running"
    BY <1>12, <1>0 DEF WriteLine, InStep, OpInStep
  <2>2. Others(i)
    BY <1>12, <1>0 DEF WriteLine, TypeOK, jsVars, managerVars, cargoVars, Goto, JsGoto
  <2>3. /\ Then(i, cmd[i], js[i]) /\ kind'[i] = kind[i] /\ KeepsManager
        /\ line'[i] = "written" /\ child'[i] = child[i]
    BY <1>12, <1>0, <2>1 DEF WriteLine, TypeOK, jsVars, managerVars, cargoVars, Goto, JsGoto
  <2>4. InStep'
    <3>1. OpInStep(i)'
      BY <1>0, <2>1, <2>3 DEF InStep, OpInStep
    <3> QED BY <2>2, <3>1, StaysInStep
  <2>5. Serial'
    BY <1>0, <2>1, <2>2, <2>3 DEF Serial, Working
  <2>6. Traceless'
    BY <1>0, <2>1, <2>2, <2>3 DEF Traceless, Begun, Working
  <2>7. Attended'
    BY <1>0, <2>1, <2>2, <2>3 DEF Attended
  <2>8. ActiveIsCurrent'
    BY <1>0, <2>1, <2>2, <2>3 DEF ActiveIsCurrent
  <2> QED BY <2>4, <2>5, <2>6, <2>7, <2>8 DEF Parts
<1>13. ASSUME NEW i \in Ops, Exit(i) PROVE Parts'
  <2>1. child[i] = "running"
    BY <1>13, <1>0 DEF Exit, InStep, OpInStep
  <2>2. Others(i)
    BY <1>13, <1>0 DEF Exit, TypeOK, jsVars, managerVars, cargoVars, Goto, JsGoto
  <2>3. /\ Then(i, cmd[i], js[i]) /\ kind'[i] = kind[i] /\ KeepsManager
        /\ line'[i] = line[i] /\ child'[i] \in {"succeeded", "failed"}
    BY <1>13, <1>0, <2>1 DEF Exit, TypeOK, jsVars, managerVars, cargoVars, Goto, JsGoto
  <2>4. InStep'
    <3>1. OpInStep(i)'
      BY <1>0, <2>1, <2>3 DEF InStep, OpInStep
    <3> QED BY <2>2, <3>1, StaysInStep
  <2>5. Serial'
    BY <1>0, <2>1, <2>2, <2>3 DEF Serial, Working
  <2>6. Traceless'
    BY <1>0, <2>1, <2>2, <2>3 DEF Traceless, Begun, Working
  <2>7. Attended'
    BY <1>0, <2>1, <2>2, <2>3 DEF Attended
  <2>8. ActiveIsCurrent'
    BY <1>0, <2>1, <2>2, <2>3 DEF ActiveIsCurrent
  <2> QED BY <2>4, <2>5, <2>6, <2>7, <2>8 DEF Parts
<1>14. CASE UNCHANGED vars
  <2>1. UNCHANGED <<kind, js, cmd, queue, active, cancelled, child, line>>
    BY <1>14 DEF vars, jsVars, managerVars, cargoVars
  <2>2. InStep'
    BY <1>0, <2>1 DEF InStep, OpInStep
  <2>3. Serial'
    BY <1>0, <2>1 DEF Serial, Working
  <2>4. Traceless'
    BY <1>0, <2>1 DEF Traceless, Begun, Working
  <2>5. Attended'
    BY <1>0, <2>1 DEF Attended
  <2>6. ActiveIsCurrent'
    BY <1>0, <2>1 DEF ActiveIsCurrent
  <2> QED BY <2>2, <2>3, <2>4, <2>5, <2>6 DEF Parts
<1> QED BY <1>1, <1>2, <1>3, <1>4, <1>5, <1>6, <1>7, <1>8, <1>9,
       <1>10, <1>11, <1>12, <1>13, <1>14 DEF Next, JsStep, CommandStep

LEMMA InvInit == Init => IInv
<1> SUFFICES ASSUME Init PROVE IInv
  OBVIOUS
<1>1. TypeOK /\ Queueing
  BY QueueInit
<1>2. InStep /\ Serial /\ Traceless /\ Attended /\ ActiveIsCurrent
  BY CargoAssumption DEF CargoAssumption, Init, InStep, OpInStep, Serial, Traceless, Attended,
     ActiveIsCurrent, Working, Begun, None, Ops
<1> QED BY <1>1, <1>2 DEF IInv

LEMMA InvStep == IInv /\ [Next]_vars => IInv'
BY QueueStep, PartsStep DEF IInv, Parts

LEMMA Invariance == Spec => []IInv
<1>1. Init => IInv
  BY InvInit
<1>2. IInv /\ [Next]_vars => IInv'
  BY InvStep
<1> QED BY <1>1, <1>2, PTL DEF Spec

(* The variables of the cargo commands, and the queue of the manager's     *)
(* mutex, in which no op stands twice, are well typed.                     *)
THEOREM TypeCorrect == Spec => []TypeOK
<1>1. IInv => TypeOK
  BY DEF IInv
<1> QED BY <1>1, Invariance, PTL

(* run_cargo_command never lets two cargo processes run at once, however   *)
(* many clicks there are: "build locking prevention".                      *)
THEOREM CargoIsAlone == Spec => []OneCargo
<1>1. IInv => OneCargo
  BY DEF IInv, OneCargo, ActiveIsCurrent
<1> QED BY <1>1, Invariance, PTL

(* active_process is the process that runs.                                *)
THEOREM ActiveProcess == Spec => []ActiveIsCurrent
<1>1. IInv => ActiveIsCurrent
  BY DEF IInv
<1> QED BY <1>1, Invariance, PTL

(* A cargo command returns only when its stdout task has read every line,  *)
(* so its events are emitted before the next run begins.                   *)
THEOREM EventsAreTimely == Spec => []NoLateEvent
<1>1. IInv => NoLateEvent
  BY DEF IInv, NoLateEvent, Attended
<1> QED BY <1>1, Invariance, PTL
=============================================================================
