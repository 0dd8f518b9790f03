--------------------------- MODULE LspHostProofs ----------------------------
(***************************************************************************)
(* Proofs about LspHost, for any set of clients, any bounds and a          *)
(* rust-analyzer that may die or hang at any time.                         *)
(***************************************************************************)
EXTENDS LspHost, TLAPS

(* Appending one element.                                                  *)
LEMMA AppendOne ==
  ASSUME NEW S, NEW s \in Seq(S), NEW x \in S
  PROVE  /\ Append(s, x) \in Seq(S)
         /\ Len(Append(s, x)) = Len(s) + 1
         /\ \A k \in 1..Len(s) : Append(s, x)[k] = s[k]
         /\ Append(s, x)[Len(s) + 1] = x
OBVIOUS

(* The variables are well typed and no channel holds more than its         *)
(* capacity (request and notify wait for room, dispatch_message drops).    *)
LEMMA TypeInit == Init => TypeOK /\ HasId
BY HostAssumption DEF HostAssumption, Init, TypeOK, Callers, Ids, PCs, Handles, Outcomes, Tasks, Answers, HasId, InFlight

LEMMA TypeStep == TypeOK /\ HasId /\ [Next]_vars => TypeOK' /\ HasId'
<1> SUFFICES ASSUME TypeOK, HasId, [Next]_vars PROVE TypeOK' /\ HasId'
  OBVIOUS
<1> USE HostAssumption DEF HostAssumption, TypeOK, HasId, InFlight, hostVars, callerVars, raVars, Goto
<1>1. ASSUME NEW c \in Clients, CloneHandle(c) PROVE TypeOK' /\ HasId'
  BY <1>1 DEF CloneHandle, PCs, Callers
<1>2. ASSUME NEW c \in Clients, Notify(c) PROVE TypeOK' /\ HasId'
  <2>1. [method |-> "didChange", id |-> 0] \in Frames
    BY DEF Frames, Methods
  <2>2. toWriter' \in Seq(Frames) /\ Len(toWriter') <= WriterCap
    <3>1. CASE Room /\ toWriter' = Append(toWriter, [method |-> "didChange", id |-> 0])
      BY <2>1, <3>1, AppendOne DEF Room
    <3>2. CASE UNCHANGED toWriter
      BY <3>2
    <3> QED BY <1>2, <3>1, <3>2 DEF Notify
  <2> QED BY <1>2, <2>2 DEF Notify, PCs
<1>3. ASSUME NEW c \in Callers, TakeId(c) PROVE TypeOK' /\ HasId'
  BY <1>3 DEF TakeId, PCs, Ids, Outcomes
<1>4. ASSUME NEW c \in Callers, Register(c) PROVE TypeOK' /\ HasId'
  BY <1>4 DEF Register, PCs, Ids
<1>5. ASSUME NEW c \in Callers, Enqueue(c) PROVE TypeOK' /\ HasId'
  <2>1. [method |-> MethodOf(c), id |-> cur[c]] \in Frames
    BY DEF Frames, Methods, MethodOf
  <2>2. toWriter' \in Seq(Frames) /\ Len(toWriter') <= WriterCap
    <3>1. CASE Room /\ toWriter' = Append(toWriter, [method |-> MethodOf(c), id |-> cur[c]])
      BY <2>1, <3>1, AppendOne DEF Room
    <3>2. CASE UNCHANGED toWriter
      BY <3>2
    <3> QED BY <1>5, <3>1, <3>2 DEF Enqueue
  <2> QED BY ZenonT(40), <1>5, <2>2 DEF Enqueue, PCs, Outcomes
<1>6. ASSUME NEW c \in Callers, Receive(c) PROVE TypeOK' /\ HasId'
  BY <1>6 DEF Receive, PCs, Outcomes
<1>7. ASSUME NEW c \in Callers, TimeOut(c) PROVE TypeOK' /\ HasId'
  BY <1>7 DEF TimeOut, PCs, Outcomes
<1>8. CASE Initialized
  BY <1>8 DEF Initialized, PCs, Handles
<1>9. CASE Acknowledge
  <2>1. [method |-> "initialized", id |-> 0] \in Frames
    BY DEF Frames, Methods
  <2>2. toWriter' \in Seq(Frames) /\ Len(toWriter') <= WriterCap
    <3>1. CASE Room /\ toWriter' = Append(toWriter, [method |-> "initialized", id |-> 0])
      BY <2>1, <3>1, AppendOne DEF Room
    <3>2. CASE UNCHANGED toWriter
      BY <3>2
    <3> QED BY <1>9, <3>1, <3>2 DEF Acknowledge
  <2> QED BY <1>9, <2>2 DEF Acknowledge, PCs, Handles
<1>10. CASE TakeHandle
  BY <1>10 DEF TakeHandle, PCs, Handles
<1>11. CASE SendExit
  <2>1. [method |-> "exit", id |-> 0] \in Frames
    BY DEF Frames, Methods
  <2>2. toWriter' \in Seq(Frames) /\ Len(toWriter') <= WriterCap
    <3>1. CASE Room /\ toWriter' = Append(toWriter, [method |-> "exit", id |-> 0])
      BY <2>1, <3>1, AppendOne DEF Room
    <3>2. CASE UNCHANGED toWriter
      BY <3>2
    <3> QED BY <1>11, <3>1, <3>2 DEF SendExit
  <2> QED BY <1>11, <2>2 DEF SendExit, PCs
<1>12. CASE Cancel
  BY <1>12 DEF Cancel, PCs, Handles
<1>13. CASE WriteFrame
  <2>1. Head(toWriter) \in Frames /\ Tail(toWriter) \in Seq(Frames)
    BY <1>13 DEF WriteFrame, WriterLoop
  <2>2. Head(toWriter).id \in Ids \cup {0}
    BY <2>1 DEF Frames
  <2> QED BY <1>13, <2>1, <2>2 DEF WriteFrame, WriterLoop
<1>14. CASE WriterExit
  BY <1>14 DEF WriterExit
<1>15. CASE ReadFrame
  <2>1. Head(stdout) \in ServerFrames /\ Tail(stdout) \in Seq(ServerFrames)
    BY <1>15 DEF ReadFrame
  <2>2. Head(stdout).value \in Answers
    BY <2>1 DEF ServerFrames
  <2>3. CASE Head(stdout).kind = "response" /\ Head(stdout).id \in pending
    BY <1>15, <2>1, <2>2, <2>3 DEF ReadFrame, Dispatch
  <2>4. CASE ~(Head(stdout).kind = "response" /\ Head(stdout).id \in pending)
    <3>1. toServer' \in Seq(ServerFrames) /\ Len(toServer') <= ServerCap
      <4>1. toServer' = toServer \/ (Len(toServer) < ServerCap
                                      /\ toServer' = Append(toServer, Head(stdout)))
        BY <1>15, <2>4 DEF ReadFrame, Dispatch
      <4>2. CASE toServer' = toServer
        BY <4>2
      <4>3. CASE Len(toServer) < ServerCap /\ toServer' = Append(toServer, Head(stdout))
        BY <4>3, <2>1, AppendOne
      <4> QED BY <4>1, <4>2, <4>3
    <3> QED BY <1>15, <2>1, <2>4, <3>1 DEF ReadFrame, Dispatch
  <2> QED BY <2>3, <2>4
<1>16. CASE ReaderExit
  BY <1>16 DEF ReaderExit
<1>17. CASE Reap
  BY <1>17 DEF Reap
<1>18. CASE ConsumeServerFrame
  BY <1>18 DEF ConsumeServerFrame
<1>19. ASSUME NEW i \in Ids, NEW v \in Answers, RaAnswer(i, v) PROVE TypeOK' /\ HasId'
  <2>1. [kind |-> "response", id |-> i, value |-> v] \in ServerFrames
    BY DEF ServerFrames
  <2> QED BY <1>19, <2>1 DEF RaAnswer, Emit
<1>20. ASSUME NEW i \in ServerIds, RaCalls(i) PROVE TypeOK' /\ HasId'
  <2>1. [kind |-> "method", id |-> i, value |-> "error"] \in ServerFrames
    BY DEF ServerFrames, Answers
  <2> QED BY <1>20, <2>1 DEF RaCalls, Emit
<1>21. CASE RaFails
  BY <1>21 DEF RaFails
<1>22. CASE UNCHANGED vars
  BY <1>22 DEF vars
<1> QED
  BY <1>1, <1>2, <1>3, <1>4, <1>5, <1>6, <1>7, <1>8, <1>9, <1>10, <1>11, <1>12, <1>13,
     <1>14, <1>15, <1>16, <1>17, <1>18, <1>19, <1>20, <1>21, <1>22
  DEF Next, Request, Spawning, Stopping, Background

(* Every behaviour of the host is well typed.                              *)
THEOREM TypeCorrect == Spec => []TypeOK
<1>1. Spec => [](TypeOK /\ HasId)
  BY TypeInit, TypeStep, PTL DEF Spec
<1> QED BY <1>1, PTL

(* Reading off an appended sequence, and off the tail of one.              *)
LEMMA AppendElem ==
  ASSUME NEW S, NEW s \in Seq(S), NEW x \in S
  PROVE  \A k \in 1..Len(Append(s, x)) :
           \/ k \in 1..Len(s) /\ Append(s, x)[k] = s[k]
           \/ k = Len(s) + 1 /\ Append(s, x)[k] = x
OBVIOUS

LEMMA TailElem ==
  ASSUME NEW S, NEW s \in Seq(S), s # <<>>
  PROVE  /\ Head(s) = s[1] /\ 1 \in 1..Len(s)
         /\ \A k \in 1..Len(Tail(s)) : k + 1 \in 1..Len(s) /\ Tail(s)[k] = s[k + 1]
OBVIOUS

(* After a send, successful or not, a frame in the channel was there       *)
(* before or is the one sent, at the end.                                  *)
LEMMA Sent ==
  ASSUME TypeOK, NEW f \in Frames, toWriter' = toWriter \/ toWriter' = Append(toWriter, f)
  PROVE  \A k \in 1..Len(toWriter') :
           \/ k \in 1..Len(toWriter) /\ toWriter'[k] = toWriter[k]
           \/ k = Len(toWriter) + 1 /\ toWriter'[k] = f
<1>1. CASE toWriter' = toWriter
  BY <1>1 DEF TypeOK
<1>2. CASE toWriter' = Append(toWriter, f)
  BY <1>2, AppendElem DEF TypeOK
<1> QED BY <1>1, <1>2

(* The same for the stdout pipe.                                           *)
LEMMA Emitted ==
  ASSUME TypeOK, NEW m \in ServerFrames, Emit(m)
  PROVE  \A k \in 1..Len(stdout') :
           \/ k \in 1..Len(stdout) /\ stdout'[k] = stdout[k]
           \/ k = Len(stdout) + 1 /\ stdout'[k] = m
BY AppendElem DEF TypeOK, Emit

(* A frame read off the head of the pipe, or of the writer channel.        *)
LEMMA Taken ==
  ASSUME TypeOK
  PROVE  /\ toWriter # <<>> /\ toWriter' = Tail(toWriter) =>
              /\ Head(toWriter) = toWriter[1] /\ 1 \in 1..Len(toWriter)
              /\ \A k \in 1..Len(toWriter') :
                   k + 1 \in 1..Len(toWriter) /\ toWriter'[k] = toWriter[k + 1]
         /\ stdout # <<>> /\ stdout' = Tail(stdout) =>
              /\ Head(stdout) = stdout[1] /\ 1 \in 1..Len(stdout)
              /\ \A k \in 1..Len(stdout') :
                   k + 1 \in 1..Len(stdout) /\ stdout'[k] = stdout[k + 1]
BY TailElem DEF TypeOK

(* No response travels for a request that has not been answered.           *)
LEMMA Unanswered ==
  ASSUME TypeOK, Replies, NEW i \in Ids, raAnswer[i] = "none"
  PROVE  \A k \in 1..Len(stdout) : stdout[k].kind = "response" => stdout[k].id # i
<1>1. \A k \in 1..Len(stdout) : stdout[k] \in ServerFrames
  BY DEF TypeOK
<1> QED BY <1>1 DEF Replies, Answers, ServerFrames

(* fetch_add gives out each id once, and only ids given out travel.       *)
LEMMA NumberingStep == IInv /\ [Next]_vars => (Numbering /\ DistinctIds)'
<1> SUFFICES ASSUME IInv, [Next]_vars PROVE (Numbering /\ DistinctIds)'
  OBVIOUS
<1> USE HostAssumption DEF HostAssumption, IInv, TypeOK, HasId, InFlight, hostVars, callerVars, raVars, Goto, Numbering, DistinctIds, Ids
<1>1. ASSUME NEW c \in Clients, CloneHandle(c) PROVE (Numbering /\ DistinctIds)'
  BY <1>1 DEF CloneHandle
<1>2. ASSUME NEW c \in Clients, Notify(c) PROVE (Numbering /\ DistinctIds)'
  <2>1. [method |-> "didChange", id |-> 0] \in Frames
    BY DEF Frames, Methods, MethodOf, Callers
  <2>2. toWriter' = toWriter \/ toWriter' = Append(toWriter, [method |-> "didChange", id |-> 0])
    BY <1>2 DEF Notify
  <2>3. \A k \in 1..Len(toWriter') :
          \/ k \in 1..Len(toWriter) /\ toWriter'[k] = toWriter[k]
          \/ k = Len(toWriter) + 1 /\ toWriter'[k] = [method |-> "didChange", id |-> 0]
    BY <2>1, <2>2, Sent
  <2>4. \A k \in 1..Len(toWriter') : toWriter'[k].id < nextId'
    BY <1>2, <2>3 DEF Notify
  <2>5. UNCHANGED <<cur, nextId, asked, raAnswer>>
    BY <1>2 DEF Notify
  <2> QED BY <2>4, <2>5
<1>3. ASSUME NEW c \in Callers, TakeId(c) PROVE (Numbering /\ DistinctIds)'
  <2>1. nextId \in Nat /\ nextId' = nextId + 1
    BY <1>3 DEF TakeId
  <2>2. \A d \in Callers : cur[d] < nextId /\ cur[d] \in Nat
    OBVIOUS
  <2>3. cur' = [cur EXCEPT ![c] = nextId] /\ UNCHANGED <<asked, raAnswer, toWriter>>
    BY <1>3 DEF TakeId
  <2>4. \A d \in Callers : cur'[d] < nextId'
    BY <2>1, <2>2, <2>3
  <2>5. \A k \in 1..Len(toWriter) : toWriter[k].id \in Nat
    <3>1. \A k \in 1..Len(toWriter) : toWriter[k] \in Frames
      OBVIOUS
    <3> QED BY <3>1 DEF Frames
  <2>6. \A k \in 1..Len(toWriter') : toWriter'[k].id < nextId'
    BY <2>1, <2>3, <2>5
  <2>7. \A i \in Ids : i \in asked' \/ raAnswer'[i] # "none" => i < nextId'
    BY <2>1, <2>3
  <2>8. DistinctIds'
    BY <2>1, <2>2, <2>3
  <2> QED BY <2>4, <2>6, <2>7, <2>8
<1>4. ASSUME NEW c \in Callers, Register(c) PROVE (Numbering /\ DistinctIds)'
  BY <1>4 DEF Register
<1>5. ASSUME NEW c \in Callers, Enqueue(c) PROVE (Numbering /\ DistinctIds)'
  <2>1. [method |-> MethodOf(c), id |-> cur[c]] \in Frames
    BY DEF Frames, Methods, MethodOf, Callers
  <2>2. toWriter' = toWriter \/ toWriter' = Append(toWriter, [method |-> MethodOf(c), id |-> cur[c]])
    BY <1>5 DEF Enqueue
  <2>3. \A k \in 1..Len(toWriter') :
          \/ k \in 1..Len(toWriter) /\ toWriter'[k] = toWriter[k]
          \/ k = Len(toWriter) + 1 /\ toWriter'[k] = [method |-> MethodOf(c), id |-> cur[c]]
    BY <2>1, <2>2, Sent
  <2>4. \A k \in 1..Len(toWriter') : toWriter'[k].id < nextId'
    BY <1>5, <2>3 DEF Enqueue
  <2>5. UNCHANGED <<cur, nextId, asked, raAnswer>>
    BY <1>5 DEF Enqueue
  <2> QED BY <2>4, <2>5
<1>6. ASSUME NEW c \in Callers, Receive(c) PROVE (Numbering /\ DistinctIds)'
  BY <1>6 DEF Receive
<1>7. ASSUME NEW c \in Callers, TimeOut(c) PROVE (Numbering /\ DistinctIds)'
  BY <1>7 DEF TimeOut
<1>8. CASE Initialized
  BY <1>8 DEF Initialized
<1>9. CASE Acknowledge
  <2>1. [method |-> "initialized", id |-> 0] \in Frames
    BY DEF Frames, Methods, MethodOf, Callers
  <2>2. toWriter' = toWriter \/ toWriter' = Append(toWriter, [method |-> "initialized", id |-> 0])
    BY <1>9 DEF Acknowledge
  <2>3. \A k \in 1..Len(toWriter') :
          \/ k \in 1..Len(toWriter) /\ toWriter'[k] = toWriter[k]
          \/ k = Len(toWriter) + 1 /\ toWriter'[k] = [method |-> "initialized", id |-> 0]
    BY <2>1, <2>2, Sent
  <2> QED BY <1>9, <2>3 DEF Acknowledge
<1>10. CASE TakeHandle
  BY <1>10 DEF TakeHandle
<1>11. CASE SendExit
  <2>1. [method |-> "exit", id |-> 0] \in Frames
    BY DEF Frames, Methods, MethodOf, Callers
  <2>2. toWriter' = toWriter \/ toWriter' = Append(toWriter, [method |-> "exit", id |-> 0])
    BY <1>11 DEF SendExit
  <2>3. \A k \in 1..Len(toWriter') :
          \/ k \in 1..Len(toWriter) /\ toWriter'[k] = toWriter[k]
          \/ k = Len(toWriter) + 1 /\ toWriter'[k] = [method |-> "exit", id |-> 0]
    BY <2>1, <2>2, Sent
  <2> QED BY <1>11, <2>3 DEF SendExit
<1>12. CASE Cancel
  BY <1>12 DEF Cancel
<1>13. CASE WriteFrame
  BY SMTT(30), <1>13, Taken DEF WriteFrame, WriterLoop
<1>14. CASE WriterExit
  BY <1>14 DEF WriterExit
<1>15. CASE ReadFrame
  BY <1>15 DEF ReadFrame
<1>16. CASE ReaderExit
  BY <1>16 DEF ReaderExit
<1>17. CASE Reap
  BY <1>17 DEF Reap
<1>18. CASE ConsumeServerFrame
  BY <1>18 DEF ConsumeServerFrame
<1>19. ASSUME NEW i \in Ids, NEW v \in Answers, RaAnswer(i, v) PROVE (Numbering /\ DistinctIds)'
  BY <1>19 DEF RaAnswer
<1>20. ASSUME NEW i \in ServerIds, RaCalls(i) PROVE (Numbering /\ DistinctIds)'
  BY <1>20 DEF RaCalls
<1>21. CASE RaFails
  BY <1>21 DEF RaFails
<1>22. CASE UNCHANGED vars
  BY <1>22 DEF vars
<1> QED
  BY <1>1, <1>2, <1>3, <1>4, <1>5, <1>6, <1>7, <1>8, <1>9, <1>10, <1>11, <1>12, <1>13, <1>14, <1>15, <1>16, <1>17, <1>18, <1>19, <1>20, <1>21, <1>22
  DEF Next, Request, Spawning, Stopping, Background
(* Answers stay with the id they were given for, to the caller's return.   *)
LEMMA RepliesStep == IInv /\ [Next]_vars => (Replies /\ AnswerIsOwn)'
<1> SUFFICES ASSUME IInv, [Next]_vars PROVE (Replies /\ AnswerIsOwn)'
  OBVIOUS
<1> USE HostAssumption DEF HostAssumption, IInv, TypeOK, HasId, InFlight, hostVars, callerVars, raVars, Goto, Replies, AnswerIsOwn
<1>1. ASSUME NEW c \in Clients, CloneHandle(c) PROVE (Replies /\ AnswerIsOwn)'
  BY <1>1 DEF CloneHandle
<1>2. ASSUME NEW c \in Clients, Notify(c) PROVE (Replies /\ AnswerIsOwn)'
  BY <1>2 DEF Notify
<1>3. ASSUME NEW c \in Callers, TakeId(c) PROVE (Replies /\ AnswerIsOwn)'
  BY <1>3 DEF TakeId, Answers
<1>4. ASSUME NEW c \in Callers, Register(c) PROVE (Replies /\ AnswerIsOwn)'
  BY <1>4 DEF Register
<1>5. ASSUME NEW c \in Callers, Enqueue(c) PROVE (Replies /\ AnswerIsOwn)'
  BY <1>5 DEF Enqueue, Answers
<1>6. ASSUME NEW c \in Callers, Receive(c) PROVE (Replies /\ AnswerIsOwn)'
  BY <1>6 DEF Receive
<1>7. ASSUME NEW c \in Callers, TimeOut(c) PROVE (Replies /\ AnswerIsOwn)'
  BY <1>7 DEF TimeOut, Answers
<1>8. CASE Initialized
  BY <1>8 DEF Initialized
<1>9. CASE Acknowledge
  BY <1>9 DEF Acknowledge
<1>10. CASE TakeHandle
  BY <1>10 DEF TakeHandle
<1>11. CASE SendExit
  BY <1>11 DEF SendExit
<1>12. CASE Cancel
  BY <1>12 DEF Cancel
<1>13. CASE WriteFrame
  BY <1>13 DEF WriteFrame
<1>14. CASE WriterExit
  BY <1>14 DEF WriterExit
<1>15. CASE ReadFrame
  <2>1. /\ Head(stdout) = stdout[1] /\ 1 \in 1..Len(stdout)
        /\ \A k \in 1..Len(stdout') : k + 1 \in 1..Len(stdout) /\ stdout'[k] = stdout[k + 1]
    BY <1>15, Taken DEF ReadFrame
  <2> QED BY <1>15, <2>1 DEF ReadFrame, Dispatch
<1>16. CASE ReaderExit
  BY <1>16 DEF ReaderExit
<1>17. CASE Reap
  BY <1>17 DEF Reap
<1>18. CASE ConsumeServerFrame
  BY <1>18 DEF ConsumeServerFrame
<1>19. ASSUME NEW i \in Ids, NEW v \in Answers, RaAnswer(i, v) PROVE (Replies /\ AnswerIsOwn)'
  <2>1. [kind |-> "response", id |-> i, value |-> v] \in ServerFrames
    BY DEF ServerFrames
  <2>2. \A k \in 1..Len(stdout') :
          \/ k \in 1..Len(stdout) /\ stdout'[k] = stdout[k]
          \/ k = Len(stdout) + 1 /\ stdout'[k] = [kind |-> "response", id |-> i, value |-> v]
    BY <1>19, <2>1, Emitted DEF RaAnswer
  <2>3. raAnswer[i] = "none" /\ raAnswer' = [raAnswer EXCEPT ![i] = v]
    BY <1>19 DEF RaAnswer
  <2>4. UNCHANGED <<slot, outcome, cur>>
    BY <1>19 DEF RaAnswer
  <2>5. \A k \in 1..Len(stdout') : stdout'[k].kind = "response" =>
          stdout'[k].id \in Ids /\ raAnswer'[stdout'[k].id] = stdout'[k].value
    <3>1. \A k \in 1..Len(stdout) : stdout[k].kind = "response" => stdout[k].id # i
      BY <2>3, Unanswered
    <3> SUFFICES ASSUME NEW k \in 1..Len(stdout'), stdout'[k].kind = "response"
                 PROVE  stdout'[k].id \in Ids /\ raAnswer'[stdout'[k].id] = stdout'[k].value
      OBVIOUS
    <3>2. CASE k \in 1..Len(stdout) /\ stdout'[k] = stdout[k]
      BY <2>3, <3>1, <3>2
    <3>3. CASE stdout'[k] = [kind |-> "response", id |-> i, value |-> v]
      BY <2>3, <3>3
    <3> QED BY <2>2, <3>2, <3>3
  <2>6. \A j \in Ids : slot'[j] # "none" => slot'[j] = raAnswer'[j]
    BY <2>3, <2>4
  <2>7. AnswerIsOwn'
    BY <2>3, <2>4 DEF Answers
  <2> QED BY <2>5, <2>6, <2>7
<1>20. ASSUME NEW i \in ServerIds, RaCalls(i) PROVE (Replies /\ AnswerIsOwn)'
  <2>1. [kind |-> "method", id |-> i, value |-> "error"] \in ServerFrames
    BY DEF ServerFrames, Answers
  <2>2. \A k \in 1..Len(stdout') :
          \/ k \in 1..Len(stdout) /\ stdout'[k] = stdout[k]
          \/ k = Len(stdout) + 1 /\ stdout'[k] = [kind |-> "method", id |-> i, value |-> "error"]
    BY <1>20, <2>1, Emitted DEF RaCalls
  <2> QED BY <1>20, <2>2 DEF RaCalls, Emit
<1>21. CASE RaFails
  BY <1>21 DEF RaFails
<1>22. CASE UNCHANGED vars
  BY <1>22 DEF vars
<1> QED
  BY <1>1, <1>2, <1>3, <1>4, <1>5, <1>6, <1>7, <1>8, <1>9, <1>10, <1>11, <1>12, <1>13, <1>14, <1>15, <1>16, <1>17, <1>18, <1>19, <1>20, <1>21, <1>22
  DEF Next, Request, Spawning, Stopping, Background
(* An id leaves the pending map only with its response.                    *)
LEMMA RegisteredStep == IInv /\ [Next]_vars => (Registered /\ NoLostAnswer /\ ResponsesStayInHost)'
<1> SUFFICES ASSUME IInv, [Next]_vars PROVE (Registered /\ NoLostAnswer /\ ResponsesStayInHost)'
  OBVIOUS
<1> USE HostAssumption DEF HostAssumption, IInv, TypeOK, HasId, InFlight, hostVars, callerVars, raVars, Goto, Registered, NoLostAnswer, ResponsesStayInHost
<1>1. ASSUME NEW c \in Clients, CloneHandle(c) PROVE (Registered /\ NoLostAnswer /\ ResponsesStayInHost)'
  BY <1>1 DEF CloneHandle
<1>2. ASSUME NEW c \in Clients, Notify(c) PROVE (Registered /\ NoLostAnswer /\ ResponsesStayInHost)'
  <2>1. [method |-> "didChange", id |-> 0] \in Frames
    BY DEF Frames, Methods, MethodOf, Callers
  <2>2. toWriter' = toWriter \/ toWriter' = Append(toWriter, [method |-> "didChange", id |-> 0])
    BY <1>2 DEF Notify
  <2>3. \A k \in 1..Len(toWriter') :
          \/ k \in 1..Len(toWriter) /\ toWriter'[k] = toWriter[k]
          \/ k = Len(toWriter) + 1 /\ toWriter'[k] = [method |-> "didChange", id |-> 0]
    BY <2>1, <2>2, Sent
  <2> QED BY <1>2, <2>3 DEF Notify
<1>3. ASSUME NEW c \in Callers, TakeId(c) PROVE (Registered /\ NoLostAnswer /\ ResponsesStayInHost)'
  BY <1>3 DEF TakeId
<1>4. ASSUME NEW c \in Callers, Register(c) PROVE (Registered /\ NoLostAnswer /\ ResponsesStayInHost)'
  BY <1>4 DEF Register
<1>5. ASSUME NEW c \in Callers, Enqueue(c) PROVE (Registered /\ NoLostAnswer /\ ResponsesStayInHost)'
  <2>1. [method |-> MethodOf(c), id |-> cur[c]] \in Frames
    BY DEF Frames, Methods, MethodOf, Callers
  <2>2. toWriter' = toWriter \/ toWriter' = Append(toWriter, [method |-> MethodOf(c), id |-> cur[c]])
    BY <1>5 DEF Enqueue
  <2>3. \A k \in 1..Len(toWriter') :
          \/ k \in 1..Len(toWriter) /\ toWriter'[k] = toWriter[k]
          \/ k = Len(toWriter) + 1 /\ toWriter'[k] = [method |-> MethodOf(c), id |-> cur[c]]
    BY <2>1, <2>2, Sent
  <2>4. \A k \in 1..Len(toWriter') : toWriter'[k].id # 0 =>
          (raAnswer'[toWriter'[k].id] = "none" => toWriter'[k].id \in pending')
    BY <1>5, <2>3 DEF Enqueue
  <2>5. \A d \in Callers : pc'[d] \in {"registered", "awaiting"} =>
          pc[d] \in {"registered", "awaiting"}
    BY <1>5 DEF Enqueue
  <2>6. UNCHANGED <<cur, pending, slot, asked, raAnswer, stdout, toServer>>
    BY <1>5 DEF Enqueue
  <2> QED BY <2>4, <2>5, <2>6
<1>6. ASSUME NEW c \in Callers, Receive(c) PROVE (Registered /\ NoLostAnswer /\ ResponsesStayInHost)'
  BY <1>6 DEF Receive
<1>7. ASSUME NEW c \in Callers, TimeOut(c) PROVE (Registered /\ NoLostAnswer /\ ResponsesStayInHost)'
  BY <1>7 DEF TimeOut
<1>8. CASE Initialized
  BY <1>8 DEF Initialized
<1>9. CASE Acknowledge
  <2>1. [method |-> "initialized", id |-> 0] \in Frames
    BY DEF Frames, Methods, MethodOf, Callers
  <2>2. toWriter' = toWriter \/ toWriter' = Append(toWriter, [method |-> "initialized", id |-> 0])
    BY <1>9 DEF Acknowledge
  <2>3. \A k \in 1..Len(toWriter') :
          \/ k \in 1..Len(toWriter) /\ toWriter'[k] = toWriter[k]
          \/ k = Len(toWriter) + 1 /\ toWriter'[k] = [method |-> "initialized", id |-> 0]
    BY <2>1, <2>2, Sent
  <2>4. \A k \in 1..Len(toWriter') : toWriter'[k].id # 0 =>
          (raAnswer'[toWriter'[k].id] = "none" => toWriter'[k].id \in pending')
    BY <1>9, <2>3 DEF Acknowledge
  <2>5. \A d \in Callers : pc'[d] \in {"registered", "awaiting"} =>
          pc[d] \in {"registered", "awaiting"}
    BY <1>9 DEF Acknowledge
  <2>6. UNCHANGED <<cur, pending, slot, asked, raAnswer, stdout, toServer>>
    BY <1>9 DEF Acknowledge
  <2> QED BY <2>4, <2>5, <2>6
<1>10. CASE TakeHandle
  BY <1>10 DEF TakeHandle
<1>11. CASE SendExit
  <2>1. [method |-> "exit", id |-> 0] \in Frames
    BY DEF Frames, Methods, MethodOf, Callers
  <2>2. toWriter' = toWriter \/ toWriter' = Append(toWriter, [method |-> "exit", id |-> 0])
    BY <1>11 DEF SendExit
  <2>3. \A k \in 1..Len(toWriter') :
          \/ k \in 1..Len(toWriter) /\ toWriter'[k] = toWriter[k]
          \/ k = Len(toWriter) + 1 /\ toWriter'[k] = [method |-> "exit", id |-> 0]
    BY <2>1, <2>2, Sent
  <2>4. \A k \in 1..Len(toWriter') : toWriter'[k].id # 0 =>
          (raAnswer'[toWriter'[k].id] = "none" => toWriter'[k].id \in pending')
    BY <1>11, <2>3 DEF SendExit
  <2>5. \A d \in Callers : pc'[d] \in {"registered", "awaiting"} =>
          pc[d] \in {"registered", "awaiting"}
    BY <1>11 DEF SendExit
  <2>6. UNCHANGED <<cur, pending, slot, asked, raAnswer, stdout, toServer>>
    BY <1>11 DEF SendExit
  <2> QED BY <2>4, <2>5, <2>6
<1>12. CASE Cancel
  BY <1>12 DEF Cancel
<1>13. CASE WriteFrame
  BY <1>13, Taken DEF WriteFrame, WriterLoop
<1>14. CASE WriterExit
  BY <1>14 DEF WriterExit
<1>15. CASE ReadFrame
  <2>1. /\ Head(stdout) = stdout[1] /\ 1 \in 1..Len(stdout)
        /\ \A k \in 1..Len(stdout') : k + 1 \in 1..Len(stdout) /\ stdout'[k] = stdout[k + 1]
    BY <1>15, Taken DEF ReadFrame
  <2>2. UNCHANGED <<pc, cur, raAnswer, toWriter, asked>>
    BY <1>15 DEF ReadFrame
  <2>3. \A k \in 1..Len(stdout) : stdout[k] \in ServerFrames
    OBVIOUS
  <2>4. CASE stdout[1].kind = "response"
    <3> DEFINE i == stdout[1].id
    <3>1. i \in pending /\ i \in Ids /\ raAnswer[i] # "none" /\ stdout[1].value \in Answers
      BY <2>1, <2>3, <2>4 DEF Replies, ServerFrames, Answers
    <3>2. /\ pending' = pending \ {i} /\ UNCHANGED toServer
          /\ slot' = [slot EXCEPT ![i] = stdout[1].value]
      BY <1>15, <2>1, <2>4, <3>1 DEF ReadFrame, Dispatch
    <3>3. \A k \in 1..Len(stdout') : stdout'[k].kind = "response" => stdout'[k].id # i
      <4> SUFFICES ASSUME NEW k \in 1..Len(stdout'), stdout'[k].kind = "response",
                          stdout'[k].id = i
                   PROVE  FALSE
        OBVIOUS
      <4>1. k + 1 \in 1..Len(stdout) /\ stdout'[k] = stdout[k + 1] /\ k + 1 # 1
        BY <2>1
      <4> QED BY <2>1, <2>4, <4>1
    <3>4. \A k \in 1..Len(stdout') : stdout'[k].kind = "response" =>
            /\ stdout'[k].id \in pending'
            /\ \A j \in 1..Len(stdout') :
                 stdout'[j].kind = "response" /\ stdout'[j].id = stdout'[k].id => j = k
      <4> SUFFICES ASSUME NEW k \in 1..Len(stdout'), stdout'[k].kind = "response"
                   PROVE  /\ stdout'[k].id \in pending'
                          /\ \A j \in 1..Len(stdout') : stdout'[j].kind = "response" /\
                               stdout'[j].id = stdout'[k].id => j = k
        OBVIOUS
      <4>1. k + 1 \in 1..Len(stdout) /\ stdout'[k] = stdout[k + 1] /\ stdout'[k].id # i
        BY <2>1, <3>3
      <4>2. stdout'[k].id \in pending'
        BY <3>2, <4>1
      <4>3. ASSUME NEW j \in 1..Len(stdout'), stdout'[j].kind = "response",
                   stdout'[j].id = stdout'[k].id
            PROVE  j = k
        <5>1. j + 1 \in 1..Len(stdout) /\ stdout'[j] = stdout[j + 1]
          BY <2>1
        <5>2. j + 1 = k + 1
          BY <4>1, <4>3, <5>1
        <5> QED BY <5>2
      <4> QED BY <4>2, <4>3
    <3>5. NoLostAnswer'
      BY <2>2, <3>1, <3>2 DEF Answers
    <3> QED BY <2>2, <3>1, <3>2, <3>4, <3>5
  <2>5. CASE stdout[1].kind # "response"
    <3>1. UNCHANGED <<pending, slot>>
      BY <1>15, <2>1, <2>5 DEF ReadFrame, Dispatch
    <3>2. toServer' = toServer \/ toServer' = Append(toServer, stdout[1])
      BY <1>15, <2>1, <2>5 DEF ReadFrame, Dispatch
    <3>3. stdout[1].kind = "method"
      BY <2>1, <2>3, <2>5 DEF ServerFrames
    <3>4. ResponsesStayInHost'
      <4>1. CASE toServer' = toServer
        BY <4>1 DEF ResponsesStayInHost
      <4>2. CASE toServer' = Append(toServer, stdout[1])
        <5>1. stdout[1] \in ServerFrames
          BY <2>1, <2>3
        <5>2. \A k \in 1..Len(toServer') :
                \/ k \in 1..Len(toServer) /\ toServer'[k] = toServer[k]
                \/ toServer'[k] = stdout[1]
          BY <4>2, <5>1, AppendElem
        <5> QED BY <3>3, <5>2 DEF ResponsesStayInHost
      <4> QED BY <3>2, <4>1, <4>2
    <3>5. \A k \in 1..Len(stdout') : stdout'[k].kind = "response" =>
            /\ stdout'[k].id \in pending'
            /\ \A j \in 1..Len(stdout') :
                 stdout'[j].kind = "response" /\ stdout'[j].id = stdout'[k].id => j = k
      <4> SUFFICES ASSUME NEW k \in 1..Len(stdout'), stdout'[k].kind = "response"
                   PROVE  /\ stdout'[k].id \in pending'
                          /\ \A j \in 1..Len(stdout') : stdout'[j].kind = "response" /\
                               stdout'[j].id = stdout'[k].id => j = k
        OBVIOUS
      <4>1. k + 1 \in 1..Len(stdout) /\ stdout'[k] = stdout[k + 1]
        BY <2>1
      <4>2. stdout'[k].id \in pending'
        BY <3>1, <4>1
      <4>3. ASSUME NEW j \in 1..Len(stdout'), stdout'[j].kind = "response",
                   stdout'[j].id = stdout'[k].id
            PROVE  j = k
        <5>1. j + 1 \in 1..Len(stdout) /\ stdout'[j] = stdout[j + 1]
          BY <2>1
        <5>2. j + 1 = k + 1
          BY <4>1, <4>3, <5>1
        <5> QED BY <5>2
      <4> QED BY <4>2, <4>3
    <3> QED BY <2>2, <3>1, <3>4, <3>5
  <2> QED BY <2>4, <2>5
<1>16. CASE ReaderExit
  BY <1>16 DEF ReaderExit
<1>17. CASE Reap
  BY <1>17 DEF Reap
<1>18. CASE ConsumeServerFrame
  BY <1>18 DEF ConsumeServerFrame
<1>19. ASSUME NEW i \in Ids, NEW v \in Answers, RaAnswer(i, v) PROVE (Registered /\ NoLostAnswer /\ ResponsesStayInHost)'
  <2>1. [kind |-> "response", id |-> i, value |-> v] \in ServerFrames
    BY DEF ServerFrames
  <2>2. \A k \in 1..Len(stdout') :
          \/ k \in 1..Len(stdout) /\ stdout'[k] = stdout[k]
          \/ k = Len(stdout) + 1 /\ stdout'[k] = [kind |-> "response", id |-> i, value |-> v]
    BY <1>19, <2>1, Emitted DEF RaAnswer
  <2>3. /\ raAnswer[i] = "none" /\ raAnswer' = [raAnswer EXCEPT ![i] = v]
        /\ i \in asked /\ asked' = asked \ {i}
        /\ UNCHANGED <<pc, cur, slot, pending, toWriter, toServer>>
    BY <1>19 DEF RaAnswer
  <2>4. \A k \in 1..Len(stdout) : stdout[k].kind = "response" => stdout[k].id # i
    BY <2>3, Unanswered
  <2>5. \A k \in 1..Len(stdout') : stdout'[k].kind = "response" =>
          /\ stdout'[k].id \in pending'
          /\ \A j \in 1..Len(stdout') :
               stdout'[j].kind = "response" /\ stdout'[j].id = stdout'[k].id => j = k
    <3> SUFFICES ASSUME NEW k \in 1..Len(stdout'), stdout'[k].kind = "response"
                 PROVE  /\ stdout'[k].id \in pending'
                        /\ \A j \in 1..Len(stdout') : stdout'[j].kind = "response" /\
                             stdout'[j].id = stdout'[k].id => j = k
      OBVIOUS
    <3>1. CASE k \in 1..Len(stdout) /\ stdout'[k] = stdout[k]
      <4>1. stdout'[k].id \in pending' /\ stdout'[k].id # i
        BY <2>3, <2>4, <3>1
      <4>2. ASSUME NEW j \in 1..Len(stdout'), stdout'[j].kind = "response",
                   stdout'[j].id = stdout'[k].id
            PROVE  j = k
        <5>1. j \in 1..Len(stdout) /\ stdout'[j] = stdout[j]
          BY <2>2, <4>1, <4>2
        <5> QED BY <3>1, <4>2, <5>1
      <4> QED BY <4>1, <4>2
    <3>2. CASE k = Len(stdout) + 1 /\ stdout'[k] = [kind |-> "response", id |-> i, value |-> v]
      BY <2>2, <2>3, <2>4, <3>2
    <3> QED BY <2>2, <3>1, <3>2
  <2>6. \A j \in Ids : raAnswer'[j] = "none" => raAnswer[j] = "none"
    BY <2>3
  <2>7. \A d \in Callers : pc[d] \in {"registered", "awaiting"} => cur[d] \in Ids
    OBVIOUS
  <2>8. \A k \in 1..Len(toWriter) : toWriter[k].id # 0 => toWriter[k].id \in Ids
    <3>1. \A k \in 1..Len(toWriter) : toWriter[k] \in Frames
      OBVIOUS
    <3> QED BY <3>1 DEF Frames
  <2> QED BY <2>3, <2>5, <2>6, <2>7, <2>8
<1>20. ASSUME NEW i \in ServerIds, RaCalls(i) PROVE (Registered /\ NoLostAnswer /\ ResponsesStayInHost)'
  <2>1. [kind |-> "method", id |-> i, value |-> "error"] \in ServerFrames
    BY DEF ServerFrames, Answers
  <2>2. \A k \in 1..Len(stdout') :
          \/ k \in 1..Len(stdout) /\ stdout'[k] = stdout[k]
          \/ k = Len(stdout) + 1 /\ stdout'[k] = [kind |-> "method", id |-> i, value |-> "error"]
    BY <1>20, <2>1, Emitted DEF RaCalls
  <2>3. UNCHANGED <<pc, cur, slot, pending, asked, raAnswer, toWriter, toServer>>
    BY <1>20 DEF RaCalls
  <2>4. \A k \in 1..Len(stdout') : stdout'[k].kind = "response" =>
          /\ stdout'[k].id \in pending'
          /\ \A j \in 1..Len(stdout') :
               stdout'[j].kind = "response" /\ stdout'[j].id = stdout'[k].id => j = k
    <3> SUFFICES ASSUME NEW k \in 1..Len(stdout'), stdout'[k].kind = "response"
                 PROVE  /\ stdout'[k].id \in pending'
                        /\ \A j \in 1..Len(stdout') : stdout'[j].kind = "response" /\
                             stdout'[j].id = stdout'[k].id => j = k
      OBVIOUS
    <3>1. k \in 1..Len(stdout) /\ stdout'[k] = stdout[k]
      BY <2>2
    <3>2. stdout'[k].id \in pending'
      BY <2>3, <3>1
    <3>3. ASSUME NEW j \in 1..Len(stdout'), stdout'[j].kind = "response",
                 stdout'[j].id = stdout'[k].id
          PROVE  j = k
      <4>1. j \in 1..Len(stdout) /\ stdout'[j] = stdout[j]
        BY <2>2, <3>3
      <4> QED BY <3>1, <3>3, <4>1
    <3> QED BY <3>2, <3>3
  <2> QED BY <2>3, <2>4
<1>21. CASE RaFails
  BY <1>21 DEF RaFails
<1>22. CASE UNCHANGED vars
  BY <1>22 DEF vars
<1> QED
  BY <1>1, <1>2, <1>3, <1>4, <1>5, <1>6, <1>7, <1>8, <1>9, <1>10, <1>11, <1>12, <1>13, <1>14, <1>15, <1>16, <1>17, <1>18, <1>19, <1>20, <1>21, <1>22
  DEF Next, Request, Spawning, Stopping, Background

(* Nobody but spawn sends before the handshake is in the channel.          *)
LEMMA SpawnStep == IInv /\ [Next]_vars => (Spawn /\ Ordered)'
<1> SUFFICES ASSUME IInv, [Next]_vars PROVE (Spawn /\ Ordered)'
  OBVIOUS
<1> USE HostAssumption DEF HostAssumption, IInv, TypeOK, HasId, InFlight, hostVars, callerVars, raVars, Goto, Spawn, Ordered
<1>1. ASSUME NEW c \in Clients, CloneHandle(c) PROVE (Spawn /\ Ordered)'
  BY <1>1 DEF CloneHandle
<1>2. ASSUME NEW c \in Clients, Notify(c) PROVE (Spawn /\ Ordered)'
  <2>1. [method |-> "didChange", id |-> 0] \in Frames
    BY DEF Frames, Methods, MethodOf, Callers
  <2>2. toWriter' = toWriter \/ toWriter' = Append(toWriter, [method |-> "didChange", id |-> 0])
    BY <1>2 DEF Notify
  <2>3. \A k \in 1..Len(toWriter') :
          \/ k \in 1..Len(toWriter) /\ toWriter'[k] = toWriter[k]
          \/ k = Len(toWriter) + 1 /\ toWriter'[k] = [method |-> "didChange", id |-> 0]
    BY <2>1, <2>2, Sent
  <2>4. pc[Initializer] = "done" /\ pc'[Initializer] = "done"
    BY <1>2 DEF Notify, MethodOf, Callers
  <2>5. Ordered'
    <3> SUFFICES ASSUME NEW k \in 1..Len(toWriter'), toWriter'[k].method \notin Handshake,
                        NEW j \in k..Len(toWriter')
                 PROVE  toWriter'[j].method \notin Handshake
      BY <2>4
    <3>1. toWriter \in Seq(Frames) /\ j \in 1..Len(toWriter')
      BY <2>3
    <3>2. CASE j \in 1..Len(toWriter) /\ toWriter'[j] = toWriter[j]
      <4>1. k \in 1..Len(toWriter) /\ toWriter'[k] = toWriter[k] /\ j \in k..Len(toWriter)
        BY <2>3, <3>1, <3>2
      <4> QED BY <3>2, <4>1
    <3>3. CASE toWriter'[j] = [method |-> "didChange", id |-> 0]
      BY <3>3 DEF Handshake
    <3> QED BY <2>3, <3>1, <3>2, <3>3
  <2>6. Spawn'
    BY <1>2, <2>3, <2>4 DEF Notify, Handshake
  <2> QED BY <2>5, <2>6
<1>3. ASSUME NEW c \in Callers, TakeId(c) PROVE (Spawn /\ Ordered)'
  BY <1>3 DEF TakeId
<1>4. ASSUME NEW c \in Callers, Register(c) PROVE (Spawn /\ Ordered)'
  BY <1>4 DEF Register
<1>5. ASSUME NEW c \in Callers, Enqueue(c) PROVE (Spawn /\ Ordered)'
  <2>1. [method |-> MethodOf(c), id |-> cur[c]] \in Frames
    BY DEF Frames, Methods, MethodOf, Callers
  <2>2. toWriter' = toWriter \/ toWriter' = Append(toWriter, [method |-> MethodOf(c), id |-> cur[c]])
    BY <1>5 DEF Enqueue
  <2>3. \A k \in 1..Len(toWriter') :
          \/ k \in 1..Len(toWriter) /\ toWriter'[k] = toWriter[k]
          \/ k = Len(toWriter) + 1 /\ toWriter'[k] = [method |-> MethodOf(c), id |-> cur[c]]
    BY <2>1, <2>2, Sent
  <2>4. \/ c # Initializer /\ pc[Initializer] = "done" /\ pc'[Initializer] = "done"
             /\ MethodOf(c) \in {"query", "shutdown"}
        \/ c = Initializer /\ pc[c] # "done" /\ pc'[c] # "done" /\ MethodOf(c) = "initialize"
    BY <1>5 DEF Enqueue, MethodOf, Callers
  <2>5. CASE c # Initializer /\ pc[Initializer] = "done" /\ pc'[Initializer] = "done"
             /\ MethodOf(c) \in {"query", "shutdown"}
    BY <1>5, <2>3, <2>5 DEF Enqueue, Handshake
  <2>6. CASE c = Initializer /\ pc[c] # "done" /\ pc'[c] # "done" /\ MethodOf(c) = "initialize"
    <3>1. \A k \in 1..Len(toWriter') : toWriter'[k].method \in Handshake
      <4>1. \A k \in 1..Len(toWriter) : toWriter[k].method \in Handshake
        BY <2>6
      <4>2. [method |-> MethodOf(c), id |-> cur[c]].method \in Handshake
        BY <2>6 DEF Handshake
      <4> QED BY <2>3, <4>1, <4>2
    <3>2. \A d \in Callers \ {Initializer} : pc'[d] = "idle"
      BY <1>5, <2>6 DEF Enqueue
    <3>3. handle' = "spawning"
      BY <1>5, <2>6 DEF Enqueue
    <3>4. pc'[Initializer] # "noting"
      BY <1>5, <2>6 DEF Enqueue
    <3> QED BY <2>6, <3>1, <3>2, <3>3, <3>4
  <2> QED BY <2>4, <2>5, <2>6
<1>6. ASSUME NEW c \in Callers, Receive(c) PROVE (Spawn /\ Ordered)'
  BY <1>6 DEF Receive
<1>7. ASSUME NEW c \in Callers, TimeOut(c) PROVE (Spawn /\ Ordered)'
  BY <1>7 DEF TimeOut
<1>8. CASE Initialized
  BY <1>8 DEF Initialized, Callers
<1>9. CASE Acknowledge
  <2>1. [method |-> "initialized", id |-> 0] \in Frames
    BY DEF Frames, Methods, MethodOf, Callers
  <2>2. toWriter' = toWriter \/ toWriter' = Append(toWriter, [method |-> "initialized", id |-> 0])
    BY <1>9 DEF Acknowledge
  <2>3. \A k \in 1..Len(toWriter') :
          \/ k \in 1..Len(toWriter) /\ toWriter'[k] = toWriter[k]
          \/ k = Len(toWriter) + 1 /\ toWriter'[k] = [method |-> "initialized", id |-> 0]
    BY <2>1, <2>2, Sent
  <2> QED BY <1>9, <2>3 DEF Acknowledge, Handshake, MethodOf, Callers
<1>10. CASE TakeHandle
  BY <1>10 DEF TakeHandle
<1>11. CASE SendExit
  <2>1. [method |-> "exit", id |-> 0] \in Frames
    BY DEF Frames, Methods, MethodOf, Callers
  <2>2. toWriter' = toWriter \/ toWriter' = Append(toWriter, [method |-> "exit", id |-> 0])
    BY <1>11 DEF SendExit
  <2>3. \A k \in 1..Len(toWriter') :
          \/ k \in 1..Len(toWriter) /\ toWriter'[k] = toWriter[k]
          \/ k = Len(toWriter) + 1 /\ toWriter'[k] = [method |-> "exit", id |-> 0]
    BY <2>1, <2>2, Sent
  <2>4. pc[Initializer] = "done" /\ pc'[Initializer] = "done"
    BY <1>11 DEF SendExit, MethodOf, Callers
  <2>5. Ordered'
    <3> SUFFICES ASSUME NEW k \in 1..Len(toWriter'), toWriter'[k].method \notin Handshake,
                        NEW j \in k..Len(toWriter')
                 PROVE  toWriter'[j].method \notin Handshake
      BY <2>4
    <3>1. toWriter \in Seq(Frames) /\ j \in 1..Len(toWriter')
      BY <2>3
    <3>2. CASE j \in 1..Len(toWriter) /\ toWriter'[j] = toWriter[j]
      <4>1. k \in 1..Len(toWriter) /\ toWriter'[k] = toWriter[k] /\ j \in k..Len(toWriter)
        BY <2>3, <3>1, <3>2
      <4> QED BY <3>2, <4>1
    <3>3. CASE toWriter'[j] = [method |-> "exit", id |-> 0]
      BY <3>3 DEF Handshake
    <3> QED BY <2>3, <3>1, <3>2, <3>3
  <2>6. Spawn'
    BY <1>11, <2>3, <2>4 DEF SendExit, Handshake
  <2> QED BY <2>5, <2>6
<1>12. CASE Cancel
  BY <1>12 DEF Cancel, Callers
<1>13. CASE WriteFrame
  BY SMTT(30), <1>13, Taken DEF WriteFrame, WriterLoop
<1>14. CASE WriterExit
  BY <1>14 DEF WriterExit
<1>15. CASE ReadFrame
  BY <1>15 DEF ReadFrame
<1>16. CASE ReaderExit
  BY <1>16 DEF ReaderExit
<1>17. CASE Reap
  BY <1>17 DEF Reap
<1>18. CASE ConsumeServerFrame
  BY <1>18 DEF ConsumeServerFrame
<1>19. ASSUME NEW i \in Ids, NEW v \in Answers, RaAnswer(i, v) PROVE (Spawn /\ Ordered)'
  BY <1>19 DEF RaAnswer
<1>20. ASSUME NEW i \in ServerIds, RaCalls(i) PROVE (Spawn /\ Ordered)'
  BY <1>20 DEF RaCalls
<1>21. CASE RaFails
  BY <1>21 DEF RaFails
<1>22. CASE UNCHANGED vars
  BY <1>22 DEF vars
<1> QED
  BY <1>1, <1>2, <1>3, <1>4, <1>5, <1>6, <1>7, <1>8, <1>9, <1>10, <1>11, <1>12, <1>13, <1>14, <1>15, <1>16, <1>17, <1>18, <1>19, <1>20, <1>21, <1>22
  DEF Next, Request, Spawning, Stopping, Background

(* What GreetedStep has to show, in three parts.                           *)
Firsts == \A k \in 1..Len(toWriter) : toWriter[k].method \notin Handshake => Introduced(k)
Quiet ==
  "initialize" \notin heard =>
    /\ asked = {}
    /\ \A i \in Ids : raAnswer[i] = "none"
    /\ \A k \in 1..Len(toWriter) : toWriter[k].method = "initialize"
Owned ==
  Shared => /\ pc[Initializer] = "done"
            /\ outcome[Initializer] \in Answers
            /\ "writer" \in tasks => Introduced(Len(toWriter) + 1)

(* What a frame has ahead of it stays there when another is sent.          *)
LEMMA AheadOfMore ==
  ASSUME TypeOK, NEW f \in Frames, toWriter' = Append(toWriter, f), heard' = heard,
         outcome' = outcome
  PROVE  /\ Len(toWriter') = Len(toWriter) + 1
         /\ toWriter'[Len(toWriter) + 1] = f
         /\ \A k \in 1..Len(toWriter) : toWriter'[k] = toWriter[k]
         /\ \A k \in 1..(Len(toWriter) + 1) : Introduced(k) => Introduced(k)'
         /\ Introduced(Len(toWriter) + 1) => Introduced(Len(toWriter) + 1)'
         /\ f.method = "initialized" /\ "initialize" \in heard /\ outcome[Initializer] \in Answers
              => Introduced(Len(toWriter) + 1)'
<1> USE DEF TypeOK
<1>1. /\ Len(toWriter') = Len(toWriter) + 1 /\ Len(toWriter) \in Nat
      /\ toWriter'[Len(toWriter) + 1] = f
      /\ \A k \in 1..Len(toWriter) : toWriter'[k] = toWriter[k]
  BY AppendOne
<1>2. \A k \in 1..(Len(toWriter) + 1) : Introduced(k) => Introduced(k)'
  BY <1>1 DEF Introduced, Ahead
<1>3. Introduced(Len(toWriter) + 1) => Introduced(Len(toWriter) + 1)'
  BY <1>1 DEF Introduced, Ahead
<1>4. ASSUME f.method = "initialized", "initialize" \in heard, outcome[Initializer] \in Answers
      PROVE  Introduced(Len(toWriter) + 1)'
  <2>1. Len(toWriter) + 1 \in 1..((Len(toWriter') + 1) - 1)
    BY <1>1
  <2> QED BY <1>1, <1>4, <2>1 DEF Introduced, Ahead
<1> QED BY <1>1, <1>2, <1>3, <1>4

(* Sending any other frame with the handle in hand.                        *)
LEMMA SentShared ==
  ASSUME IInv, Shared, "writer" \in tasks,
         NEW f \in Frames, f.method \notin Handshake, toWriter' = Append(toWriter, f),
         UNCHANGED <<heard, outcome, asked, raAnswer, tasks>>, pc'[Initializer] = pc[Initializer]
  PROVE  Quiet' /\ Firsts' /\ Owned'
<1>1. TypeOK /\ Firsts /\ Owned /\ Quiet
  BY DEF IInv, HandshakeFirst, Greeted, Firsts, Owned, Quiet
<1>2. Introduced(Len(toWriter) + 1) /\ "initialize" \in heard
  BY <1>1 DEF Owned, Introduced
<1>3. Firsts'
  BY <1>1, <1>2, AheadOfMore DEF Firsts
<1>4. Owned'
  <2>1. Introduced(Len(toWriter) + 1)'
    BY <1>1, <1>2, AheadOfMore
  <2> QED BY <1>1, <2>1 DEF Owned
<1> QED BY <1>2, <1>3, <1>4 DEF Quiet

(* What leaves the channel and what was heard alone.                       *)
LEMMA Unsent ==
  ASSUME IInv, UNCHANGED <<heard, toWriter, tasks>>,
         Shared' => /\ pc'[Initializer] = "done" /\ outcome'[Initializer] \in Answers
                    /\ "writer" \in tasks => Introduced(Len(toWriter) + 1)',
         outcome'[Initializer] = outcome[Initializer] \/ pc[Initializer] # "done",
         "initialize" \in heard \/ UNCHANGED <<asked, raAnswer>>
  PROVE  Quiet' /\ Firsts' /\ Owned'
<1>1. TypeOK /\ Firsts /\ Quiet /\ Spawn
  BY DEF IInv, HandshakeFirst, Greeted, Firsts, Owned, Quiet
<1>2. Firsts'
  BY <1>1 DEF Firsts, Introduced, Ahead, Spawn
<1> QED BY <1>1, <1>2 DEF Owned, Quiet

(* Nobody sends before the handshake, and it is sent in order.             *)
LEMMA GreetedStep == IInv /\ [Next]_vars => (Greeted /\ HandshakeFirst)'
<1> SUFFICES ASSUME IInv, [Next]_vars PROVE (Greeted /\ HandshakeFirst)'
  OBVIOUS
<1>0. Ordered' /\ Initializer \in Callers /\ TypeOK
  BY SpawnStep DEF IInv, Callers
<1> SUFFICES Quiet' /\ Firsts' /\ Owned'
  BY <1>0 DEF Ordered, HandshakeFirst, Greeted, Quiet, Firsts, Owned
<1> USE HostAssumption DEF HostAssumption, hostVars, callerVars, raVars, Goto
<1>a. Firsts /\ Quiet /\ Owned /\ Spawn /\ HasId /\ AnswerIsOwn
  BY DEF IInv, HandshakeFirst, Greeted, Firsts, Quiet, Owned
<1>b. outcome[Initializer] \in Answers => "initialize" \in heard
  BY <1>0, <1>a DEF TypeOK, HasId, AnswerIsOwn, Answers, Quiet
<1>c. ASSUME UNCHANGED <<heard, toWriter, tasks>>, Shared' => Shared,
             outcome'[Initializer] = outcome[Initializer],
             pc[Initializer] = "done" => pc'[Initializer] = "done",
             "initialize" \in heard \/ UNCHANGED <<asked, raAnswer>>
      PROVE  Quiet' /\ Firsts' /\ Owned'
  <2>1. Shared' => /\ pc'[Initializer] = "done" /\ outcome'[Initializer] \in Answers
                   /\ "writer" \in tasks => Introduced(Len(toWriter) + 1)'
    BY <1>a, <1>c DEF Owned, Introduced, Ahead
  <2> QED BY <1>c, <2>1, Unsent
<1>1. ASSUME NEW c \in Clients, CloneHandle(c) PROVE Quiet' /\ Firsts' /\ Owned'
  BY <1>0, <1>1, <1>c DEF CloneHandle, Shared, TypeOK
<1>2. ASSUME NEW c \in Clients, Notify(c) PROVE Quiet' /\ Firsts' /\ Owned'
  <2>1. [method |-> "didChange", id |-> 0] \in Frames /\ "didChange" \notin Handshake
    BY DEF Frames, Methods, Handshake
  <2>2. Shared /\ pc'[Initializer] = pc[Initializer]
    BY <1>2, <1>0 DEF Notify, Shared, Callers, TypeOK
  <2>3. CASE Room /\ toWriter' = Append(toWriter, [method |-> "didChange", id |-> 0])
    BY <1>2, <2>1, <2>2, <2>3, SentShared DEF Notify, Room
  <2>4. CASE UNCHANGED toWriter
    BY <1>2, <2>2, <2>4, <1>c DEF Notify
  <2> QED BY <1>2, <2>3, <2>4 DEF Notify
<1>3. ASSUME NEW c \in Callers, TakeId(c) PROVE Quiet' /\ Firsts' /\ Owned'
  <2>1. CASE c = Initializer
    BY <1>0, <1>3, <1>a, <2>1, Unsent DEF TakeId, Shared, Spawn, TypeOK
  <2>2. CASE c # Initializer
    BY <1>0, <1>3, <2>2, <1>c DEF TakeId, Shared, TypeOK
  <2> QED BY <2>1, <2>2
<1>4. ASSUME NEW c \in Callers, Register(c) PROVE Quiet' /\ Firsts' /\ Owned'
  <2>1. CASE c = Initializer
    BY <1>0, <1>4, <1>a, <2>1, <1>c DEF Register, Shared, Spawn, TypeOK
  <2>2. CASE c # Initializer
    BY <1>0, <1>4, <2>2, <1>c DEF Register, Shared, TypeOK
  <2> QED BY <2>1, <2>2
<1>5. ASSUME NEW c \in Callers, Enqueue(c) PROVE Quiet' /\ Firsts' /\ Owned'
  <2>1. [method |-> MethodOf(c), id |-> cur[c]] \in Frames
    BY <1>0 DEF Frames, Methods, MethodOf, TypeOK
  <2>2. CASE c = Initializer
    <3>1. ~Shared' /\ \A d \in Callers \ {Initializer} : pc[d] = "idle"
      BY <1>0, <1>5, <1>a, <2>2 DEF Enqueue, Shared, Spawn, TypeOK
    <3>2. MethodOf(c) = "initialize" /\ \A k \in 1..Len(toWriter) : toWriter[k].method \in Handshake
      BY <1>0, <1>5, <1>a, <2>2 DEF Enqueue, Spawn, MethodOf, TypeOK
    <3>3. CASE Room /\ toWriter' = Append(toWriter, [method |-> MethodOf(c), id |-> cur[c]])
      <4>1. /\ Len(toWriter') = Len(toWriter) + 1 /\ Len(toWriter) \in Nat
            /\ toWriter'[Len(toWriter) + 1].method = "initialize"
            /\ \A k \in 1..Len(toWriter) : toWriter'[k] = toWriter[k]
        BY <1>0, <2>1, <3>2, <3>3, AppendOne DEF TypeOK
      <4>2. Firsts'
        BY <3>2, <4>1 DEF Firsts, Handshake
      <4>3. Quiet'
        BY <1>a, <1>5, <4>1 DEF Quiet, Enqueue
      <4> QED BY <3>1, <4>2, <4>3 DEF Owned
    <3>4. CASE UNCHANGED toWriter /\ "writer" \notin tasks
      BY <1>0, <1>5, <1>a, <2>2, <3>1, <3>4, Unsent DEF Enqueue, Spawn, TypeOK
    <3> QED BY <1>5, <3>3, <3>4 DEF Enqueue
  <2>3. CASE c # Initializer
    <3>1. Shared /\ pc'[Initializer] = pc[Initializer] /\ MethodOf(c) \notin Handshake
      BY <1>5, <1>0, <2>3 DEF Enqueue, Shared, TypeOK, MethodOf, Handshake
    <3>2. CASE Room /\ toWriter' = Append(toWriter, [method |-> MethodOf(c), id |-> cur[c]])
                    /\ UNCHANGED outcome
      BY <1>5, <2>1, <3>1, <3>2, SentShared DEF Enqueue, Room
    <3>3. CASE UNCHANGED toWriter /\ outcome' = [outcome EXCEPT ![c] = "closed"]
      BY <1>0, <1>5, <2>3, <3>1, <3>3, <1>c DEF Enqueue, TypeOK
    <3> QED BY <1>5, <3>2, <3>3 DEF Enqueue
  <2> QED BY <2>2, <2>3
<1>6. ASSUME NEW c \in Callers, Receive(c) PROVE Quiet' /\ Firsts' /\ Owned'
  <2>1. CASE c = Initializer
    BY <1>0, <1>6, <1>a, <2>1, Unsent DEF Receive, Shared, Spawn, TypeOK
  <2>2. CASE c # Initializer
    BY <1>0, <1>6, <2>2, <1>c DEF Receive, Shared, TypeOK
  <2> QED BY <2>1, <2>2
<1>7. ASSUME NEW c \in Callers, TimeOut(c) PROVE Quiet' /\ Firsts' /\ Owned'
  <2>1. CASE c = Initializer
    BY <1>0, <1>7, <1>a, <2>1, Unsent DEF TimeOut, Shared, Spawn, TypeOK
  <2>2. CASE c # Initializer
    BY <1>0, <1>7, <2>2, <1>c DEF TimeOut, Shared, TypeOK
  <2> QED BY <2>1, <2>2
<1>8. CASE Initialized
  <2>1. Shared' => outcome[Initializer] = "error" /\ pc'[Initializer] = "done"
    BY <1>0, <1>8, <1>a DEF Initialized, Shared, Spawn, TypeOK
  <2>2. Shared' => Introduced(Len(toWriter) + 1)'
    BY <1>8, <1>b, <2>1 DEF Initialized, Introduced, Answers
  <2> QED BY <1>8, <2>1, <2>2, Unsent DEF Initialized, Answers
<1>9. CASE Acknowledge
  <2>1. [method |-> "initialized", id |-> 0] \in Frames /\ "initialized" \in Handshake
    BY DEF Frames, Methods, Handshake
  <2>2. outcome[Initializer] \in Answers /\ "initialize" \in heard /\ pc'[Initializer] = "done"
    BY <1>0, <1>9, <1>a, <1>b DEF Acknowledge, Spawn, Answers, TypeOK
  <2>3. CASE Room /\ toWriter' = Append(toWriter, [method |-> "initialized", id |-> 0])
    <3>1. /\ Len(toWriter') = Len(toWriter) + 1 /\ Len(toWriter) \in Nat
          /\ toWriter'[Len(toWriter) + 1].method = "initialized"
          /\ \A k \in 1..Len(toWriter) : toWriter'[k] = toWriter[k]
          /\ \A k \in 1..(Len(toWriter) + 1) : Introduced(k) => Introduced(k)'
          /\ Introduced(Len(toWriter) + 1)'
      BY <1>0, <1>9, <2>1, <2>2, <2>3, AheadOfMore DEF Acknowledge, TypeOK
    <3>2. Firsts'
      BY <1>a, <2>1, <3>1 DEF Firsts
    <3>4. Owned'
      BY <1>9, <2>2, <3>1 DEF Owned, Acknowledge
    <3> QED BY <1>9, <2>2, <3>2, <3>4 DEF Quiet, Acknowledge
  <2>4. CASE UNCHANGED toWriter /\ "writer" \notin tasks
    BY <1>9, <2>2, <2>4, Unsent DEF Acknowledge
  <2> QED BY <1>9, <2>3, <2>4 DEF Acknowledge
<1>10. CASE TakeHandle
  BY <1>0, <1>10, <1>c DEF TakeHandle, Shared, TypeOK
<1>11. CASE SendExit
  <2>1. [method |-> "exit", id |-> 0] \in Frames /\ "exit" \notin Handshake
    BY DEF Frames, Methods, Handshake
  <2>2. Shared /\ pc'[Initializer] = pc[Initializer]
    BY <1>11, <1>0 DEF SendExit, Shared, Callers, TypeOK
  <2>3. CASE Room /\ toWriter' = Append(toWriter, [method |-> "exit", id |-> 0])
    BY <1>11, <2>1, <2>2, <2>3, SentShared DEF SendExit, Room
  <2>4. CASE UNCHANGED toWriter
    BY <1>11, <2>2, <2>4, <1>c DEF SendExit
  <2> QED BY <1>11, <2>3, <2>4 DEF SendExit
<1>12. CASE Cancel
  BY <1>0, <1>12, <1>c DEF Cancel, Shared, TypeOK, Callers
<1>13. CASE WriteFrame
  <2>1. /\ toWriter # <<>> /\ Len(toWriter') = Len(toWriter) - 1 /\ Len(toWriter) \in Nat
        /\ \A k \in 1..Len(toWriter') : toWriter'[k] = toWriter[k + 1]
        /\ toWriter[1] = Head(toWriter) /\ Len(toWriter) > 0
    BY <1>0, <1>13 DEF WriteFrame, WriterLoop, TypeOK
  <2>a. /\ heard \subseteq heard'
        /\ Head(toWriter).method \in Handshake => Head(toWriter).method \in heard'
    BY <1>13 DEF WriteFrame
  <2>2. \A k \in 1..(Len(toWriter') + 1) : Introduced(k + 1) => Introduced(k)'
    <3> SUFFICES ASSUME NEW k \in 1..(Len(toWriter') + 1), Introduced(k + 1) PROVE Introduced(k)'
      OBVIOUS
    <3>1. "initialized" \in heard => "initialized" \in heard'
      BY <2>a
    <3>2. ASSUME NEW j \in 1..((k + 1) - 1), toWriter[j].method = "initialized"
          PROVE  Ahead("initialized", k)'
      <4>1. CASE j = 1
        BY <2>1, <2>a, <3>2, <4>1 DEF Ahead, Handshake
      <4>2. CASE j # 1
        <5>1. j - 1 \in 1..(k - 1) /\ j - 1 \in 1..Len(toWriter') /\ (j - 1) + 1 = j
          BY <2>1, <4>2
        <5>2. toWriter'[j - 1] = toWriter[j]
          BY <2>1, <5>1
        <5> QED BY <3>2, <5>1, <5>2 DEF Ahead
      <4> QED BY <4>1, <4>2
    <3>3. outcome' = outcome /\ "initialize" \in heard'
      BY <1>13, <2>a DEF WriteFrame, Introduced
    <3> QED BY <3>1, <3>2, <3>3 DEF Introduced, Ahead
  <2>3. Firsts'
    BY <1>a, <2>1, <2>2 DEF Firsts
  <2>4. Owned'
    <3>1. Shared' => Shared
      BY <1>13 DEF WriteFrame, Shared
    <3>2. /\ (Len(toWriter') + 1) + 1 = Len(toWriter) + 1
          /\ Len(toWriter') + 1 \in 1..(Len(toWriter') + 1)
      BY <2>1
    <3>3. Introduced(Len(toWriter) + 1) => Introduced(Len(toWriter) + 1)'
      BY <2>2, <3>2
    <3> QED BY <1>13, <1>a, <3>1, <3>3 DEF WriteFrame, Owned
  <2>5. Quiet'
    <3> SUFFICES ASSUME "initialize" \notin heard' PROVE FALSE
      BY DEF Quiet
    <3>1. "initialize" \notin heard /\ 1 \in 1..Len(toWriter)
      BY <2>1, <2>a
    <3> QED BY <1>a, <2>1, <2>a, <3>1 DEF Quiet, Handshake
  <2> QED BY <2>3, <2>4, <2>5
<1>14. CASE WriterExit
  <2>1. toWriter' = <<>> /\ "writer" \notin tasks' /\ (Shared' => Shared)
    BY <1>14 DEF WriterExit, Shared
  <2> QED BY <1>14, <1>a, <2>1 DEF WriterExit, Quiet, Firsts, Owned
<1>15. CASE ReadFrame
  BY <1>15, <1>c DEF ReadFrame, Shared
<1>16. CASE ReaderExit
  <2>1. Shared' => Shared
    BY <1>16 DEF ReaderExit, Shared
  <2> QED BY <1>16, <1>a, <2>1 DEF ReaderExit, Quiet, Firsts, Owned, Introduced, Ahead
<1>17. CASE Reap
  <2>1. Shared' => Shared
    BY <1>17 DEF Reap, Shared
  <2> QED BY <1>17, <1>a, <2>1 DEF Reap, Quiet, Firsts, Owned, Introduced, Ahead
<1>18. CASE ConsumeServerFrame
  BY <1>18, <1>c DEF ConsumeServerFrame, Shared
<1>19. ASSUME NEW i \in Ids, NEW v \in Answers, RaAnswer(i, v) PROVE Quiet' /\ Firsts' /\ Owned'
  <2>1. "initialize" \in heard
    BY <1>19, <1>a DEF RaAnswer, Quiet
  <2> QED BY <1>19, <2>1, <1>c DEF RaAnswer, Shared
<1>20. ASSUME NEW i \in ServerIds, RaCalls(i) PROVE Quiet' /\ Firsts' /\ Owned'
  BY <1>20, <1>c DEF RaCalls, Shared
<1>21. CASE RaFails
  BY <1>21, <1>c DEF RaFails, Shared
<1>22. CASE UNCHANGED vars
  BY <1>22, <1>c DEF vars, Shared
<1> QED
  BY <1>1, <1>2, <1>3, <1>4, <1>5, <1>6, <1>7, <1>8, <1>9, <1>10, <1>11, <1>12, <1>13, <1>14, <1>15, <1>16, <1>17, <1>18, <1>19, <1>20, <1>21, <1>22
  DEF Next, Request, Spawning, Stopping, Background

LEMMA InvInit == Init => IInv
<1> SUFFICES ASSUME Init PROVE IInv
  OBVIOUS
<1>1. TypeOK /\ HasId
  BY TypeInit
<1>2. Numbering /\ Replies
  BY HostAssumption DEF HostAssumption, Init, Numbering, Replies, Ids
<1>3. Registered /\ Spawn /\ Ordered
  BY DEF Init, Registered, Spawn, Ordered, Callers
<1>5. Greeted
  BY DEF Init, Greeted, Shared
<1>4. AnswerIsOwn /\ DistinctIds /\ NoLostAnswer /\ ResponsesStayInHost /\ HandshakeFirst
  BY DEF Init, AnswerIsOwn, DistinctIds, NoLostAnswer, ResponsesStayInHost, HandshakeFirst,
         Answers
<1> QED BY <1>1, <1>2, <1>3, <1>4, <1>5 DEF IInv

LEMMA InvStep == IInv /\ [Next]_vars => IInv'
<1>1. IInv /\ [Next]_vars => TypeOK' /\ HasId'
  BY TypeStep DEF IInv
<1> QED BY <1>1, NumberingStep, RepliesStep, RegisteredStep, SpawnStep, GreetedStep DEF IInv

LEMMA Invariance == Spec => []IInv
BY InvInit, InvStep, PTL DEF Spec

(* request returns what rust-analyzer answered to that request and nothing *)
(* else, in whatever order answers, timeouts and server requests come.     *)
THEOREM AnswersAreOwn == Spec => []AnswerIsOwn
<1>1. IInv => AnswerIsOwn
  BY DEF IInv
<1> QED BY <1>1, Invariance, PTL

(* No two requests ever share an id.                                       *)
THEOREM IdsAreDistinct == Spec => []DistinctIds
<1>1. IInv => DistinctIds
  BY DEF IInv
<1> QED BY <1>1, Invariance, PTL

(* A caller with an empty oneshot is registered for its answer.            *)
THEOREM AnswersAreNotLost == Spec => []NoLostAnswer
<1>1. IInv => NoLostAnswer
  BY DEF IInv
<1> QED BY <1>1, Invariance, PTL

(* The DiagnosticManager never sees a response.                            *)
THEOREM ResponsesAreKept == Spec => []ResponsesStayInHost
<1>1. IInv => ResponsesStayInHost
  BY DEF IInv
<1> QED BY <1>1, Invariance, PTL

(* Whatever else is sent comes after an answered "initialize", and after   *)
(* "initialized" unless rust-analyzer refused.                             *)
THEOREM HandshakeIsFirst == Spec => []HandshakeFirst
<1>1. IInv => HandshakeFirst
  BY DEF IInv
<1> QED BY <1>1, Invariance, PTL

-----------------------------------------------------------------------------
(* The host implements RemoteCall.                                         *)
Open == {c \in Callers : InFlight(c)}
Reply == [c \in Callers |-> ReplyTo(c)]
Got == [c \in Callers |-> Result(c)]

LEMMA CallsInit == Init => Calls!Init
BY DEF Init, Calls!Init, InFlight, ReplyTo, Result

(* A step that moves no caller in or out of its request, gives no id and   *)
(* no answer, is a stutter of the abstract call.                           *)
LEMMA Stutter ==
  ASSUME Open' = Open, UNCHANGED <<cur, outcome, raAnswer>>
  PROVE  UNCHANGED Calls!vars
BY DEF Open, Calls!vars, ReplyTo, Result

LEMMA CallsStep == IInv /\ [Next]_vars => [Calls!Next]_(Calls!vars)
<1> SUFFICES ASSUME IInv, [Next]_vars PROVE [Calls!Next]_(Calls!vars)
  OBVIOUS
<1> USE HostAssumption DEF HostAssumption, IInv, TypeOK, HasId, hostVars, callerVars, raVars, Goto
<1>1. ASSUME NEW c \in Clients, CloneHandle(c) PROVE [Calls!Next]_(Calls!vars)
  <2>1. Open' = Open /\ UNCHANGED <<cur, outcome, raAnswer>>
    BY <1>1 DEF CloneHandle, Open, InFlight
  <2> QED BY <2>1, Stutter
<1>2. ASSUME NEW c \in Clients, Notify(c) PROVE [Calls!Next]_(Calls!vars)
  <2>1. Open' = Open /\ UNCHANGED <<cur, outcome, raAnswer>>
    BY <1>2 DEF Notify, Open, InFlight
  <2> QED BY <2>1, Stutter
<1>3. ASSUME NEW c \in Callers, Register(c) PROVE [Calls!Next]_(Calls!vars)
  <2>1. Open' = Open /\ UNCHANGED <<cur, outcome, raAnswer>>
    BY <1>3 DEF Register, Open, InFlight
  <2> QED BY <2>1, Stutter
<1>4. CASE Initialized
  <2>1. Open' = Open /\ UNCHANGED <<cur, outcome, raAnswer>>
    BY <1>4 DEF Initialized, Open, InFlight
  <2> QED BY <2>1, Stutter
<1>5. CASE Acknowledge
  <2>1. Open' = Open /\ UNCHANGED <<cur, outcome, raAnswer>>
    BY <1>5 DEF Acknowledge, Open, InFlight
  <2> QED BY <2>1, Stutter
<1>6. CASE TakeHandle
  <2>1. Open' = Open /\ UNCHANGED <<cur, outcome, raAnswer>>
    BY <1>6 DEF TakeHandle, Open, InFlight
  <2> QED BY <2>1, Stutter
<1>7. CASE SendExit
  <2>1. Open' = Open /\ UNCHANGED <<cur, outcome, raAnswer>>
    BY <1>7 DEF SendExit, Open, InFlight
  <2> QED BY <2>1, Stutter
<1>8. CASE Cancel
  <2>1. Open' = Open /\ UNCHANGED <<cur, outcome, raAnswer>>
    BY <1>8 DEF Cancel, Open, InFlight
  <2> QED BY <2>1, Stutter
<1>9. CASE WriteFrame
  <2>1. Open' = Open /\ UNCHANGED <<cur, outcome, raAnswer>>
    BY <1>9 DEF WriteFrame, Open, InFlight
  <2> QED BY <2>1, Stutter
<1>10. CASE WriterExit
  <2>1. Open' = Open /\ UNCHANGED <<cur, outcome, raAnswer>>
    BY <1>10 DEF WriterExit, Open, InFlight
  <2> QED BY <2>1, Stutter
<1>11. CASE ReadFrame
  <2>1. Open' = Open /\ UNCHANGED <<cur, outcome, raAnswer>>
    BY <1>11 DEF ReadFrame, Open, InFlight
  <2> QED BY <2>1, Stutter
<1>12. CASE ReaderExit
  <2>1. Open' = Open /\ UNCHANGED <<cur, outcome, raAnswer>>
    BY <1>12 DEF ReaderExit, Open, InFlight
  <2> QED BY <2>1, Stutter
<1>13. CASE Reap
  <2>1. Open' = Open /\ UNCHANGED <<cur, outcome, raAnswer>>
    BY <1>13 DEF Reap, Open, InFlight
  <2> QED BY <2>1, Stutter
<1>14. CASE ConsumeServerFrame
  <2>1. Open' = Open /\ UNCHANGED <<cur, outcome, raAnswer>>
    BY <1>14 DEF ConsumeServerFrame, Open, InFlight
  <2> QED BY <2>1, Stutter
<1>15. ASSUME NEW i \in ServerIds, RaCalls(i) PROVE [Calls!Next]_(Calls!vars)
  <2>1. Open' = Open /\ UNCHANGED <<cur, outcome, raAnswer>>
    BY <1>15 DEF RaCalls, Open, InFlight
  <2> QED BY <2>1, Stutter
<1>16. CASE RaFails
  <2>1. Open' = Open /\ UNCHANGED <<cur, outcome, raAnswer>>
    BY <1>16 DEF RaFails, Open, InFlight
  <2> QED BY <2>1, Stutter
<1>17. ASSUME NEW c \in Callers, TakeId(c) PROVE [Calls!Next]_(Calls!vars)
  <2>1. c \notin Open /\ Open' = Open \cup {c}
    BY <1>17 DEF TakeId, Open, InFlight
  <2>2. Reply' = [Reply EXCEPT ![c] = "none"]
    <3>1. nextId \in Ids /\ nextId # 0 /\ raAnswer[nextId] = "none"
      <4>1. nextId \in Ids /\ nextId # 0
        BY <1>17 DEF TakeId, Ids
      <4> QED BY <4>1 DEF Numbering, Ids
    <3>2. cur' = [cur EXCEPT ![c] = nextId] /\ raAnswer' = raAnswer
      BY <1>17 DEF TakeId
    <3>3. ReplyTo(c)' = "none"
      BY <3>1, <3>2 DEF ReplyTo
    <3>4. \A d \in Callers \ {c} : ReplyTo(d)' = ReplyTo(d)
      BY <3>2 DEF ReplyTo
    <3> QED BY <3>3, <3>4 DEF Reply
  <2>3. Got' = [Got EXCEPT ![c] = "none"]
    BY <1>17 DEF TakeId, Got, Result
  <2>4. Calls!Ask(c)
    BY <2>1, <2>2, <2>3 DEF Calls!Ask, Open, Reply, Got
  <2> QED BY <2>4 DEF Calls!Next
<1>18. ASSUME NEW c \in Callers, Enqueue(c) PROVE [Calls!Next]_(Calls!vars)
  <2>1. CASE pc'[c] = "awaiting" /\ UNCHANGED outcome
    <3>1. Open' = Open /\ UNCHANGED <<cur, outcome, raAnswer>>
      BY <1>18, <2>1 DEF Enqueue, Open, InFlight
    <3> QED BY <3>1, Stutter
  <2>2. CASE pc' = [pc EXCEPT ![c] = "returned"] /\ outcome' = [outcome EXCEPT ![c] = "closed"]
    <3>1. c \in Open /\ Open' = Open \ {c}
      BY <1>18, <2>2 DEF Enqueue, Open, InFlight
    <3>2. Reply' = Reply
      BY <1>18 DEF Enqueue, Reply, ReplyTo
    <3>3. Got' = [Got EXCEPT ![c] = "failed"]
      BY <1>18, <2>2 DEF Enqueue, Got, Result
    <3>4. Calls!Fail(c)
      BY <3>1, <3>2, <3>3 DEF Calls!Fail, Calls!Finish, Open, Reply, Got
    <3> QED BY <3>4 DEF Calls!Next
  <2> QED BY <1>18, <2>1, <2>2 DEF Enqueue
<1>19. ASSUME NEW c \in Callers, Receive(c) PROVE [Calls!Next]_(Calls!vars)
  <2>1. c \in Open /\ Open' = Open \ {c}
    BY <1>19 DEF Receive, Open, InFlight
  <2>2. Reply' = Reply
    BY <1>19 DEF Receive, Reply, ReplyTo
  <2>3. cur[c] \in Ids /\ slot[cur[c]] = raAnswer[cur[c]] /\ slot[cur[c]] \in Answers
    BY <1>19 DEF Receive, Replies, InFlight
  <2>4. Reply[c] = slot[cur[c]] /\ Reply[c] # "none"
    BY <2>3 DEF Reply, ReplyTo, Answers, Ids
  <2>5. Got' = [Got EXCEPT ![c] = Reply[c]]
    BY <1>19, <2>3, <2>4 DEF Receive, Got, Result, Answers
  <2>6. Calls!Return(c)
    BY <2>1, <2>2, <2>4, <2>5 DEF Calls!Return, Calls!Finish, Open, Reply, Got
  <2> QED BY <2>6 DEF Calls!Next
<1>20. ASSUME NEW c \in Callers, TimeOut(c) PROVE [Calls!Next]_(Calls!vars)
  <2>1. c \in Open /\ Open' = Open \ {c}
    BY <1>20 DEF TimeOut, Open, InFlight
  <2>2. Reply' = Reply
    BY <1>20 DEF TimeOut, Reply, ReplyTo
  <2>3. Got' = [Got EXCEPT ![c] = "failed"]
    BY <1>20 DEF TimeOut, Got, Result
  <2>4. Calls!Fail(c)
    BY <2>1, <2>2, <2>3 DEF Calls!Fail, Calls!Finish, Open, Reply, Got
  <2> QED BY <2>4 DEF Calls!Next
<1>21. ASSUME NEW i \in Ids, NEW v \in Answers, RaAnswer(i, v) PROVE [Calls!Next]_(Calls!vars)
  <2>1. raAnswer[i] = "none" /\ raAnswer' = [raAnswer EXCEPT ![i] = v]
        /\ UNCHANGED <<pc, cur, outcome>>
    BY <1>21 DEF RaAnswer
  <2>2. Open' = Open /\ Got' = Got
    BY <2>1 DEF Open, InFlight, Got, Result
  <2>3. CASE \A c \in Callers : cur[c] # i
    <3>1. Reply' = Reply
      BY <2>1, <2>3 DEF Reply, ReplyTo, Ids
    <3> QED BY <2>2, <3>1 DEF Calls!vars, Open, Got, Reply
  <2>4. ASSUME NEW c \in Callers, cur[c] = i PROVE [Calls!Next]_(Calls!vars)
    <3>1. \A d \in Callers \ {c} : cur[d] # i
      BY <2>4 DEF DistinctIds, Ids
    <3>2. Reply[c] = "none" /\ Reply' = [Reply EXCEPT ![c] = v]
      <4>1. i # 0
        BY DEF Ids
      <4>2. ReplyTo(c) = "none" /\ ReplyTo(c)' = v
        BY <2>1, <2>4, <4>1 DEF ReplyTo
      <4>3. \A d \in Callers \ {c} : ReplyTo(d)' = ReplyTo(d)
        BY <2>1, <3>1 DEF ReplyTo, Ids
      <4> QED BY <4>2, <4>3 DEF Reply
    <3>3. Calls!Decide(c, v)
      BY <2>2, <3>2 DEF Calls!Decide, Open, Reply, Got
    <3> QED BY <3>3 DEF Calls!Next
  <2> QED BY <2>3, <2>4
<1>22. CASE UNCHANGED vars
  <2>1. Open' = Open /\ UNCHANGED <<cur, outcome, raAnswer>>
    BY <1>22 DEF vars, Open, InFlight
  <2> QED BY <2>1, Stutter
<1> QED
  BY <1>1, <1>2, <1>3, <1>4, <1>5, <1>6, <1>7, <1>8, <1>9, <1>10, <1>11, <1>12, <1>13, <1>14, <1>15, <1>16, <1>17, <1>18, <1>19, <1>20, <1>21, <1>22
  DEF Next, Request, Spawning, Stopping, Background

(* A call of LspHost is a remote call: it fails, or returns the one reply  *)
(* the server decided for it.                                              *)
THEOREM Refinement == Spec => ImplementsRemoteCall
<1>1. Spec => Calls!Spec
  BY CallsInit, CallsStep, Invariance, PTL DEF Spec, Calls!Spec
<1> QED BY <1>1 DEF ImplementsRemoteCall
=============================================================================
