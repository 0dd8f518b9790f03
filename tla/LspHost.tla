------------------------------ MODULE LspHost ------------------------------
(***************************************************************************)
(* The JSON-RPC client of src-tauri/src/lsp/lsp_host.rs: one LspHost, its  *)
(* three Tokio tasks (stdin writer, stdout reader, reaper), the callers    *)
(* that share clones of the handle, and the rust-analyzer child, which is  *)
(* external and may answer in any order, never, or die.                    *)
(*                                                                         *)
(* Callers are the Initializer (the send_initialize made by spawn before   *)
(* anyone else has the handle), the Clients (feature commands that cloned  *)
(* the handle out of LspState) and the Stopper (lsp_stop or a restart,     *)
(* which takes the handle and runs shutdown).                              *)
(***************************************************************************)
EXTENDS Integers, Sequences, FiniteSets

CONSTANTS
  Clients,       \* commands that make feature requests
  Initializer,   \* the call of send_initialize in spawn
  Stopper,       \* the call of shutdown
  MaxId,         \* bound: request ids given out (an AtomicU64 in the code)
  WriterCap,     \* capacity of the writer channel (256)
  ServerCap,     \* capacity of the server-message channel (512)
  PipeCap,       \* bound: frames in the stdout pipe
  ServerIds      \* bound: ids of frames rust-analyzer sends of its own accord

Callers == Clients \cup {Initializer, Stopper}
Ids == 1..MaxId

ASSUME HostAssumption ==
  /\ Initializer \notin Clients
  /\ Stopper \notin Clients \cup {Initializer}
  /\ MaxId \in Nat \ {0, 1}
  /\ WriterCap \in Nat \ {0}
  /\ ServerCap \in Nat \ {0}
  /\ PipeCap \in Nat \ {0}
  /\ ServerIds \subseteq Ids \cup {0}

(***************************************************************************)
(* What rust-analyzer says about a request: nothing yet, a response with a *)
(* result, or an error response (no result field, which dispatch_message   *)
(* turns into Null).                                                       *)
(***************************************************************************)
Answers == {"result", "error"}
Outcomes == Answers \cup {"none", "timeout", "closed"}

(* A frame for rust-analyzer.  id = 0 stands for a message without an id.  *)
Methods == {"initialize", "query", "shutdown", "initialized", "didChange", "exit"}
Frames == [method : Methods, id : Ids \cup {0}]
Handshake == {"initialize", "initialized"}

(***************************************************************************)
(* A frame from rust-analyzer: a response, or a request or notification of *)
(* its own.  A server request numbers itself from the server's own counter *)
(* and so may carry the id of a pending request of the client.             *)
(***************************************************************************)
ServerFrames == [kind : {"response", "method"}, id : Ids \cup {0}, value : Answers]

VARIABLES
  nextId,      \* next_id
  pending,     \* keys of the pending map
  slot,        \* value in the oneshot channel of each request id
  toWriter,    \* writer_tx / writer_rx
  toServer,    \* server_msg_tx / server_msg_rx
  status,      \* LspHost.status
  token,       \* the CancellationToken: live or cancelled
  tasks,       \* background tasks still running
  handle,      \* where the LspHost value lives
  pc, cur,     \* per caller: progress, and the id of its latest request
  outcome,     \* per caller: what its latest request returned
  ra,          \* the child process
  asked,       \* request ids rust-analyzer has read and not answered
  heard,       \* which messages of the handshake it has read
  raAnswer,    \* what it answered to each id
  stdout       \* the stdout pipe

hostVars == <<nextId, pending, slot, status>>
callerVars == <<pc, cur, outcome>>
raVars == <<ra, asked, heard, raAnswer, stdout>>
vars == <<hostVars, callerVars, raVars, toWriter, toServer, token, tasks, handle>>

Tasks == {"writer", "reader", "reaper"}
PCs == {"idle", "holding", "numbered", "registered", "awaiting", "returned",
        "noting", "cancelling", "done"}

(* The handle: with spawn, in LspState, taken by the Stopper, or dropped.  *)
Handles == {"spawning", "state", "taken", "dropped"}

InFlight(c) == pc[c] \in {"numbered", "registered", "awaiting"}

(* Types, and the channels never hold more than their capacity: request    *)
(* and notify wait for room, dispatch_message drops.                       *)
TypeOK ==
  /\ nextId \in 1..(MaxId + 1)
  /\ pending \subseteq Ids
  /\ slot \in [Ids -> Answers \cup {"none"}]
  /\ toWriter \in Seq(Frames) /\ Len(toWriter) <= WriterCap
  /\ toServer \in Seq(ServerFrames) /\ Len(toServer) <= ServerCap
  /\ status \in {"Starting", "Ready"}
  /\ token \in {"live", "cancelled"}
  /\ tasks \subseteq Tasks
  /\ handle \in Handles
  /\ pc \in [Callers -> PCs]
  /\ cur \in [Callers -> Ids \cup {0}]
  /\ outcome \in [Callers -> Outcomes]
  /\ ra \in {"running", "dead"}
  /\ asked \subseteq Ids
  /\ heard \subseteq Handshake
  /\ raAnswer \in [Ids -> Answers \cup {"none"}]
  /\ stdout \in Seq(ServerFrames)

Init ==
  /\ nextId = 1
  /\ pending = {}
  /\ slot = [i \in Ids |-> "none"]
  /\ toWriter = <<>>
  /\ toServer = <<>>
  /\ status = "Starting"
  /\ token = "live"
  /\ tasks = Tasks
  /\ handle = "spawning"
  /\ pc = [c \in Callers |-> IF c = Initializer THEN "holding" ELSE "idle"]
  /\ cur = [c \in Callers |-> 0]
  /\ outcome = [c \in Callers |-> "none"]
  /\ ra = "running"
  /\ asked = {}
  /\ heard = {}
  /\ raAnswer = [i \in Ids |-> "none"]
  /\ stdout = <<>>

-----------------------------------------------------------------------------
(* Callers                                                                 *)

Goto(c, l) == pc' = [pc EXCEPT ![c] = l]

MethodOf(c) == IF c = Initializer THEN "initialize"
               ELSE IF c = Stopper THEN "shutdown" ELSE "query"

(* require_host!: a command clones the handle out of LspState.             *)
CloneHandle(c) ==
  /\ c \in Clients
  /\ handle = "state"
  /\ pc[c] \in {"idle", "returned"}
  /\ Goto(c, "holding")
  /\ UNCHANGED <<hostVars, cur, outcome, raVars, toWriter, toServer, token, tasks, handle>>

(* lsp_stop and lsp_start take the handle before awaiting shutdown.        *)
TakeHandle ==
  /\ handle = "state"
  /\ pc[Stopper] = "idle"
  /\ handle' = "taken"
  /\ Goto(Stopper, "holding")
  /\ UNCHANGED <<hostVars, cur, outcome, raVars, toWriter, toServer, token, tasks>>

(* request, next_id.fetch_add.                                             *)
(* The last id is kept for the Stopper, so that the bound never blocks it. *)
TakeId(c) ==
  /\ pc[c] = "holding"
  /\ nextId <= IF c = Stopper THEN MaxId ELSE MaxId - 1
  /\ cur' = [cur EXCEPT ![c] = nextId]
  /\ nextId' = nextId + 1
  /\ outcome' = [outcome EXCEPT ![c] = "none"]
  /\ Goto(c, "numbered")
  /\ UNCHANGED <<pending, slot, status, raVars, toWriter, toServer, token, tasks, handle>>

(* request, pending.lock().insert                                          *)
Register(c) ==
  /\ pc[c] = "numbered"
  /\ pending' = pending \cup {cur[c]}
  /\ Goto(c, "registered")
  /\ UNCHANGED <<nextId, slot, status, cur, outcome, raVars, toWriter, toServer,
                 token, tasks, handle>>

Room == "writer" \in tasks /\ Len(toWriter) < WriterCap

(* Mutant: a send that does not wait for room.                             *)
EnqueueUnbounded(c) ==
  /\ pc[c] = "registered"
  /\ "writer" \in tasks
  /\ toWriter' = Append(toWriter, [method |-> MethodOf(c), id |-> cur[c]])
  /\ Goto(c, "awaiting")
  /\ UNCHANGED <<hostVars, cur, outcome, raVars, toServer, token, tasks, handle>>

(* request, writer_tx.send().await: blocks while the channel is full, and  *)
(* fails once the writer task has dropped the receiver.  The entry made by *)
(* Register stays behind on failure.                                       *)
Enqueue(c) ==
  /\ pc[c] = "registered"
  /\ \/ /\ Room
        /\ toWriter' = Append(toWriter, [method |-> MethodOf(c), id |-> cur[c]])
        /\ Goto(c, "awaiting")
        /\ UNCHANGED outcome
     \/ /\ "writer" \notin tasks
        /\ outcome' = [outcome EXCEPT ![c] = "closed"]
        /\ Goto(c, "returned")
        /\ UNCHANGED toWriter
  /\ UNCHANGED <<hostVars, cur, raVars, toServer, token, tasks, handle>>

(* request, the oneshot receiver resolves before the timer.  (The sender   *)
(* sits in the pending map, which the caller's own handle keeps alive, so  *)
(* the "response channel dropped" error cannot occur.)                     *)
Receive(c) ==
  /\ pc[c] = "awaiting"
  /\ slot[cur[c]] # "none"
  /\ outcome' = [outcome EXCEPT ![c] = slot[cur[c]]]
  /\ Goto(c, "returned")
  /\ UNCHANGED <<hostVars, cur, raVars, toWriter, toServer, token, tasks, handle>>

(* Mutant: no timer at all.                                                *)
TimeOutNever(c) == FALSE /\ UNCHANGED vars

(* request, 120 s elapse.  timeout polls the receiver first, so a value    *)
(* already in the slot wins.  The pending entry stays.                     *)
TimeOut(c) ==
  /\ pc[c] = "awaiting"
  /\ slot[cur[c]] = "none"
  /\ outcome' = [outcome EXCEPT ![c] = "timeout"]
  /\ Goto(c, "returned")
  /\ UNCHANGED <<hostVars, cur, raVars, toWriter, toServer, token, tasks, handle>>

(* notify by a command that holds a clone (didOpen, didChange, didClose).  *)
Notify(c) ==
  /\ c \in Clients
  /\ pc[c] = "holding"
  /\ \/ /\ Room
        /\ toWriter' = Append(toWriter, [method |-> "didChange", id |-> 0])
     \/ /\ "writer" \notin tasks
        /\ UNCHANGED toWriter
  /\ Goto(c, "idle")
  /\ UNCHANGED <<hostVars, cur, outcome, raVars, toServer, token, tasks, handle>>

(* Mutant: the handle is stored in LspState before the handshake ends.     *)
InitializedEarly ==
  /\ pc[Initializer] = "returned"
  /\ outcome[Initializer] = "result"
  /\ status' = "Ready"
  /\ handle' = "state"
  /\ Goto(Initializer, "noting")
  /\ UNCHANGED <<nextId, pending, slot, cur, outcome, raVars, toWriter, toServer,
                 token, tasks>>

(* send_initialize after its request: `?` on an error drops the host that  *)
(* spawn was building; a result carries capabilities and makes it Ready;   *)
(* an error response (Null) is taken for success with nothing done.        *)
Initialized ==
  /\ pc[Initializer] = "returned"
  /\ CASE outcome[Initializer] = "result" ->
            /\ status' = "Ready"
            /\ Goto(Initializer, "noting")
            /\ UNCHANGED handle
       [] outcome[Initializer] = "error" ->
            /\ handle' = "state"
            /\ Goto(Initializer, "done")
            /\ UNCHANGED status
       [] OTHER ->
            /\ handle' = "dropped"
            /\ Goto(Initializer, "done")
            /\ UNCHANGED status
  /\ UNCHANGED <<nextId, pending, slot, cur, outcome, raVars, toWriter, toServer,
                 token, tasks>>

(* The "initialized" notification, its error ignored; then spawn returns.  *)
Acknowledge ==
  /\ pc[Initializer] = "noting"
  /\ \/ /\ Room
        /\ toWriter' = Append(toWriter, [method |-> "initialized", id |-> 0])
     \/ /\ "writer" \notin tasks
        /\ UNCHANGED toWriter
  /\ handle' = "state"
  /\ Goto(Initializer, "done")
  /\ UNCHANGED <<hostVars, cur, outcome, raVars, toServer, token, tasks>>

(* Mutant: a failed notification returns early, before cancel.             *)
SendExitStrict ==
  /\ pc[Stopper] = "returned"
  /\ \/ /\ Room
        /\ toWriter' = Append(toWriter, [method |-> "exit", id |-> 0])
        /\ Goto(Stopper, "cancelling")
     \/ /\ "writer" \notin tasks
        /\ UNCHANGED toWriter
        /\ Goto(Stopper, "done")
  /\ UNCHANGED <<hostVars, cur, outcome, raVars, toServer, token, tasks, handle>>

(* shutdown after its request, whatever that returned: notify "exit".      *)
SendExit ==
  /\ pc[Stopper] = "returned"
  /\ \/ /\ Room
        /\ toWriter' = Append(toWriter, [method |-> "exit", id |-> 0])
     \/ /\ "writer" \notin tasks
        /\ UNCHANGED toWriter
  /\ Goto(Stopper, "cancelling")
  /\ UNCHANGED <<hostVars, cur, outcome, raVars, toServer, token, tasks, handle>>

(* shutdown, cancel.cancel(); the taken handle goes out of scope.          *)
Cancel ==
  /\ pc[Stopper] = "cancelling"
  /\ token' = "cancelled"
  /\ handle' = "dropped"
  /\ Goto(Stopper, "done")
  /\ UNCHANGED <<hostVars, cur, outcome, raVars, toWriter, toServer, tasks>>

-----------------------------------------------------------------------------
(* Background tasks                                                        *)

WriterLoop == "writer" \in tasks /\ toWriter # <<>>

(* stdin_writer_task: the head of the channel reaches the child, which     *)
(* reads it; "exit" makes it terminate.                                    *)
WriteFrame ==
  /\ WriterLoop
  /\ ra = "running"
  /\ toWriter' = Tail(toWriter)
  /\ asked' = IF Head(toWriter).id = 0 THEN asked ELSE asked \cup {Head(toWriter).id}
  /\ heard' = heard \cup ({Head(toWriter).method} \cap Handshake)
  /\ ra' = IF Head(toWriter).method = "exit" THEN "dead" ELSE ra
  /\ UNCHANGED <<hostVars, callerVars, raAnswer, stdout, toServer, token, tasks, handle>>

(* The writer stops on cancellation, on a failed write, or when the last   *)
(* handle is gone; its receiver is dropped with the frames still in it.    *)
WriterExit ==
  /\ "writer" \in tasks
  /\ \/ token = "cancelled"
     \/ WriterLoop /\ ra = "dead"
     \/ /\ toWriter = <<>> /\ handle = "dropped"
        /\ \A c \in Clients : ~InFlight(c) /\ pc[c] # "holding"
  /\ tasks' = tasks \ {"writer"}
  /\ toWriter' = <<>>
  /\ UNCHANGED <<hostVars, callerVars, raVars, toServer, token, handle>>

(* Mutants: the method field is not looked at; an error response removes   *)
(* the entry but has no result to send.                                    *)
DispatchAnyId(m) ==
  IF m.id \in pending
    THEN /\ pending' = pending \ {m.id}
         /\ slot' = [slot EXCEPT ![m.id] = m.value]
         /\ UNCHANGED toServer
    ELSE /\ toServer' = IF Len(toServer) < ServerCap THEN Append(toServer, m) ELSE toServer
         /\ UNCHANGED <<pending, slot>>

DispatchResultOnly(m) ==
  IF m.kind = "response" /\ m.id \in pending
    THEN /\ pending' = pending \ {m.id}
         /\ slot' = IF m.value = "result" THEN [slot EXCEPT ![m.id] = m.value] ELSE slot
         /\ UNCHANGED toServer
    ELSE /\ toServer' = IF Len(toServer) < ServerCap THEN Append(toServer, m) ELSE toServer
         /\ UNCHANGED <<pending, slot>>

(***************************************************************************)
(* dispatch_message: a frame with an id, no method, and a pending entry    *)
(* consumes the entry and fills its oneshot; anything else is offered to   *)
(* the server channel and dropped if that is full (try_send).  Filling the *)
(* oneshot of a caller that timed out has no effect: nobody reads it.      *)
(***************************************************************************)
Dispatch(m) ==
  IF m.kind = "response" /\ m.id \in pending
    THEN /\ pending' = pending \ {m.id}
         /\ slot' = [slot EXCEPT ![m.id] = m.value]
         /\ UNCHANGED toServer
    ELSE /\ toServer' = IF Len(toServer) < ServerCap THEN Append(toServer, m) ELSE toServer
         /\ UNCHANGED <<pending, slot>>

(* stdout_reader_task, one frame                                           *)
ReadFrame ==
  /\ "reader" \in tasks
  /\ stdout # <<>>
  /\ Dispatch(Head(stdout))
  /\ stdout' = Tail(stdout)
  /\ UNCHANGED <<nextId, status, callerVars, ra, asked, heard, raAnswer, toWriter,
                 token, tasks, handle>>

(* The reader stops on cancellation or end of file.  It leaves the pending *)
(* map as it is: those callers wait for their timers.                      *)
ReaderExit ==
  /\ "reader" \in tasks
  /\ token = "cancelled" \/ (ra = "dead" /\ stdout = <<>>)
  /\ tasks' = tasks \ {"reader"}
  /\ UNCHANGED <<hostVars, callerVars, raVars, toWriter, toServer, token, handle>>

(* The reaper task owns the Child (kill_on_drop) and waits only for the    *)
(* token.                                                                  *)
Reap ==
  /\ "reaper" \in tasks
  /\ token = "cancelled"
  /\ tasks' = tasks \ {"reaper"}
  /\ ra' = "dead"
  /\ UNCHANGED <<hostVars, callerVars, asked, heard, raAnswer, stdout, toWriter,
                 toServer, token, handle>>

(* DiagnosticManager's recv; it ignores frames without a method.           *)
ConsumeServerFrame ==
  /\ handle # "spawning"
  /\ toServer # <<>>
  /\ toServer' = Tail(toServer)
  /\ UNCHANGED <<hostVars, callerVars, raVars, toWriter, token, tasks, handle>>

-----------------------------------------------------------------------------
(* rust-analyzer (external)                                                *)

Emit(m) ==
  /\ ra = "running"
  /\ Len(stdout) < PipeCap
  /\ stdout' = Append(stdout, m)

(* It answers any request it has read, in any order, once.                 *)
RaAnswer(i, v) ==
  /\ i \in asked
  /\ raAnswer[i] = "none"
  /\ Emit([kind |-> "response", id |-> i, value |-> v])
  /\ asked' = asked \ {i}
  /\ raAnswer' = [raAnswer EXCEPT ![i] = v]
  /\ UNCHANGED <<hostVars, callerVars, ra, heard, toWriter, toServer, token, tasks, handle>>

(* A notification (id 0) or a request of its own, numbered by itself.      *)
RaCalls(i) ==
  /\ Emit([kind |-> "method", id |-> i, value |-> "error"])
  /\ UNCHANGED <<hostVars, callerVars, ra, asked, heard, raAnswer, toWriter, toServer,
                 token, tasks, handle>>

RaFails ==
  /\ ra = "running" /\ ra' = "dead"
  /\ UNCHANGED <<hostVars, callerVars, asked, heard, raAnswer, stdout, toWriter,
                 toServer, token, tasks, handle>>

-----------------------------------------------------------------------------
Request(c) == TakeId(c) \/ Register(c) \/ Enqueue(c) \/ Receive(c) \/ TimeOut(c)
Spawning == Initialized \/ Acknowledge
Stopping == TakeHandle \/ SendExit \/ Cancel
Background == WriteFrame \/ WriterExit \/ ReadFrame \/ ReaderExit \/ Reap

Next ==
  \/ \E c \in Clients : CloneHandle(c) \/ Notify(c)
  \/ \E c \in Callers : Request(c)
  \/ Spawning \/ Stopping
  \/ Background \/ ConsumeServerFrame
  \/ \E i \in Ids, v \in Answers : RaAnswer(i, v)
  \/ \E i \in ServerIds : RaCalls(i)
  \/ RaFails

Spec == Init /\ [][Next]_vars

(***************************************************************************)
(* Tokio runs every ready task and fires every timer, so each caller and   *)
(* each background task is weakly fair.  A sender waiting for room is      *)
(* strongly fair: Tokio's bounded channel serves its waiting senders in    *)
(* order.  Of rust-analyzer nothing is assumed but that it reads its stdin *)
(* while it lives: if it stopped, the writer task would stay in write_all  *)
(* until the child is killed, and a caller that waits for room with it.    *)
(***************************************************************************)
Fairness ==
  /\ \A c \in Callers : WF_vars(Request(c)) /\ SF_vars(Enqueue(c))
  /\ WF_vars(Initialized) /\ SF_vars(Acknowledge)
  /\ SF_vars(SendExit) /\ WF_vars(Cancel)
  /\ WF_vars(WriterExit)
  /\ WF_vars(ReadFrame) /\ WF_vars(ReaderExit) /\ WF_vars(Reap)

FairSpec == Spec /\ Fairness /\ WF_vars(WriteFrame)

-----------------------------------------------------------------------------
(* Properties                                                              *)

(* request hands back what rust-analyzer answered to that very request,    *)
(* although answers come in any order, late ones arrive after a timeout,   *)
(* and the server's own requests use the same numbers.                     *)
AnswerIsOwn ==
  \A c \in Callers : outcome[c] \in Answers => raAnswer[cur[c]] = outcome[c]

(* Two callers racing through fetch_add never work under one request id.   *)
DistinctIds ==
  \A c, d \in Callers : c # d /\ cur[c] # 0 => cur[c] # cur[d]

(* While a caller sends or waits with an empty oneshot, its entry is in    *)
(* the pending map, so no answer can slip past it: the entry goes in       *)
(* before the frame is sent and only the answer takes it out.              *)
NoLostAnswer ==
  \A c \in Callers : pc[c] \in {"registered", "awaiting"} =>
    (slot[cur[c]] = "none" => cur[c] \in pending)

(* "response, not a notification - already handled by LspHost": no         *)
(* response, not even a late one, is passed on to the DiagnosticManager.   *)
ResponsesStayInHost ==
  \A k \in 1..Len(toServer) : toServer[k].kind = "method"

(* Handshake order of the protocol: whatever else is put in the channel    *)
(* comes after rust-analyzer has read "initialize" and send_initialize has *)
(* had its answer, and after "initialized", which is ahead in the channel  *)
(* or read; no part of the handshake follows.  One exception: if           *)
(* rust-analyzer refuses "initialize", request returns Null,               *)
(* send_initialize returns Ok without sending "initialized", and the other *)
(* frames follow all the same.                                             *)
Ahead(m, k) == m \in heard \/ \E j \in 1..(k - 1) : toWriter[j].method = m
Introduced(k) ==
  /\ "initialize" \in heard
  /\ outcome[Initializer] \in Answers
  /\ outcome[Initializer] = "result" => Ahead("initialized", k)
HandshakeFirst ==
  \A k \in 1..Len(toWriter) : toWriter[k].method \notin Handshake =>
    /\ Introduced(k)
    /\ \A j \in k..Len(toWriter) : toWriter[j].method \notin Handshake

(* The host implements RemoteCall: a call is open from its id to its       *)
(* return, and its reply is what rust-analyzer answered under that id.     *)
ReplyTo(c) == IF cur[c] = 0 THEN "none" ELSE raAnswer[cur[c]]
Result(c) == IF outcome[c] \in {"timeout", "closed"} THEN "failed" ELSE outcome[c]

Calls == INSTANCE RemoteCall
           WITH Values <- Answers, None <- "none", Failed <- "failed",
                open <- {c \in Callers : InFlight(c)},
                reply <- [c \in Callers |-> ReplyTo(c)],
                got <- [c \in Callers |-> Result(c)]

(* Every step of the host is a step of RemoteCall or leaves it unchanged.  *)
ImplementsRemoteCall == Calls!Spec

(***************************************************************************)
(* The inductive invariant behind the safety properties.                   *)
(***************************************************************************)
(* A caller that has begun a request has an id.                            *)
HasId == \A c \in Callers : InFlight(c) \/ outcome[c] # "none" => cur[c] # 0

(* Every id in the system has been given out.                              *)
Numbering ==
  /\ \A c \in Callers : cur[c] < nextId
  /\ \A k \in 1..Len(toWriter) : toWriter[k].id < nextId
  /\ \A i \in Ids : i \in asked \/ raAnswer[i] # "none" => i < nextId

(* A response on its way, or in a oneshot, is rust-analyzer's answer.      *)
Replies ==
  /\ \A k \in 1..Len(stdout) : stdout[k].kind = "response" =>
       /\ stdout[k].id \in Ids
       /\ raAnswer[stdout[k].id] = stdout[k].value
  /\ \A i \in Ids : slot[i] # "none" => slot[i] = raAnswer[i]

(* A request that can still be answered is in the pending map, and so is   *)
(* one whose response is still in the pipe, where it is the only one.      *)
Registered ==
  /\ \A c \in Callers : pc[c] \in {"registered", "awaiting"} =>
       (raAnswer[cur[c]] = "none" => cur[c] \in pending)
  /\ \A k \in 1..Len(toWriter) : toWriter[k].id # 0 =>
       (raAnswer[toWriter[k].id] = "none" => toWriter[k].id \in pending)
  /\ \A i \in asked : raAnswer[i] = "none" => i \in pending
  /\ \A k \in 1..Len(stdout) : stdout[k].kind = "response" =>
       /\ stdout[k].id \in pending
       /\ \A j \in 1..Len(stdout) :
            stdout[j].kind = "response" /\ stdout[j].id = stdout[k].id => j = k

(* While spawn runs, it is the only caller.                                *)
Spawn ==
  /\ pc[Initializer] # "done" =>
       /\ handle = "spawning"
       /\ \A c \in Callers \ {Initializer} : pc[c] = "idle"
       /\ \A k \in 1..Len(toWriter) : toWriter[k].method \in Handshake
  /\ pc[Initializer] = "noting" => outcome[Initializer] = "result"

(* Nothing of the handshake comes after anything else.                     *)
Ordered ==
  \A k \in 1..Len(toWriter) : toWriter[k].method \notin Handshake =>
    /\ pc[Initializer] = "done"
    /\ \A j \in k..Len(toWriter) : toWriter[j].method \notin Handshake

(* Until "initialize" is read nothing else is sent, asked or answered; and *)
(* who has the handle has it after an answer, with "initialized" sent if   *)
(* that was a result and anything can still be sent.                       *)
Shared == handle = "state" \/ \E c \in Callers \ {Initializer} : pc[c] # "idle"
Greeted ==
  /\ "initialize" \notin heard =>
       /\ asked = {}
       /\ \A i \in Ids : raAnswer[i] = "none"
       /\ \A k \in 1..Len(toWriter) : toWriter[k].method = "initialize"
  /\ Shared => /\ pc[Initializer] = "done"
               /\ outcome[Initializer] \in Answers
               /\ "writer" \in tasks => Introduced(Len(toWriter) + 1)

IInv ==
  /\ TypeOK /\ HasId /\ Numbering /\ Replies /\ Registered
  /\ Spawn /\ Ordered /\ Greeted
  /\ AnswerIsOwn /\ DistinctIds /\ NoLostAnswer /\ ResponsesStayInHost /\ HandshakeFirst

(* Every request returns, by an answer, its timer or a closed channel.     *)
RequestReturns == \A c \in Callers : InFlight(c) ~> ~InFlight(c)

(* Once shutdown begins, the child ends and so do all background tasks.    *)
ShutdownEnds == pc[Stopper] = "holding" ~> ra = "dead" /\ tasks = {}
=============================================================================
