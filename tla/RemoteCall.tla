----------------------------- MODULE RemoteCall -----------------------------
(***************************************************************************)
(* What LspHost.request promises its callers, with ids, channels, tasks    *)
(* and the pending map left out: a call that is open may fail at any time; *)
(* the server decides a reply to a call at most once; a call that does not *)
(* fail returns the reply decided for that call and no other.              *)
(***************************************************************************)
CONSTANTS Callers, Values, None, Failed

VARIABLES open, reply, got
vars == <<open, reply, got>>

Init ==
  /\ open = {}
  /\ reply = [c \in Callers |-> None]
  /\ got = [c \in Callers |-> None]

Ask(c) ==
  /\ c \notin open
  /\ open' = open \cup {c}
  /\ reply' = [reply EXCEPT ![c] = None]
  /\ got' = [got EXCEPT ![c] = None]

(* Also after the caller gave up: nobody reads a late reply.               *)
Decide(c, v) ==
  /\ reply[c] = None
  /\ reply' = [reply EXCEPT ![c] = v]
  /\ UNCHANGED <<open, got>>

Finish(c, v) ==
  /\ c \in open
  /\ open' = open \ {c}
  /\ got' = [got EXCEPT ![c] = v]
  /\ UNCHANGED reply

Return(c) == reply[c] # None /\ Finish(c, reply[c])
Fail(c) == Finish(c, Failed)

Next == \E c \in Callers :
          Ask(c) \/ Return(c) \/ Fail(c) \/ \E v \in Values : Decide(c, v)

Spec == Init /\ [][Next]_vars
=============================================================================
