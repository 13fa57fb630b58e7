------------------------------- MODULE RpcSpec -------------------------------
(***************************************************************************)
(* What a cercall Client promises its user, stated without closures,      *)
(* queues, transports or a service.  Each client issues calls; a two-way  *)
(* call is answered at most once, by its own result (or the service's     *)
(* OperationInProgress rejection of it), by a connection error, or, only *)
(* in the step that issues it, by the error of its write.  Calls to one   *)
(* operation are answered in the order they were issued.  One-way calls   *)
(* are never answered.  Nothing forces an answer: the liveness of the     *)
(* implementation is checked separately (EveryCallAnswered).              *)
(***************************************************************************)
EXTENDS Naturals, Sequences

CONSTANTS Clients, Funcs, OneWayFuncs, MaxCalls

VARIABLES
  issued,   \* issued[c]: the operation of every call client c issued
  replies   \* replies[c]: continuation invocations [id, from, res]

vars == <<issued, replies>>

ServiceRes == {"result", "inprogress"}
LocalRes   == {"conn_error", "write_error"}

Reply(i, res) == [id |-> i, from |-> IF res \in ServiceRes THEN i ELSE 0, res |-> res]

Answered(c, i) == \E k \in DOMAIN replies[c] : replies[c][k].id = i

(* Call i may be answered now: it is two-way, not yet answered, and      *)
(* every earlier call of the same operation has been answered.           *)
MayAnswer(c, i) ==
  /\ issued[c][i] \in Funcs
  /\ ~Answered(c, i)
  /\ \A j \in 1..(i - 1) : issued[c][j] = issued[c][i] => Answered(c, j)

Init ==
  /\ issued = [c \in Clients |-> <<>>]
  /\ replies = [c \in Clients |-> <<>>]

Issue(c, f) ==
  /\ Len(issued[c]) < MaxCalls
  /\ issued' = [issued EXCEPT ![c] = Append(@, f)]
  /\ UNCHANGED replies

(* The call is issued and its write fails at once. *)
IssueFailed(c, f) ==
  LET i == Len(issued[c]) + 1 IN
  /\ i <= MaxCalls
  /\ f \in Funcs
  /\ \A j \in DOMAIN issued[c] : issued[c][j] = f => Answered(c, j)
  /\ issued' = [issued EXCEPT ![c] = Append(@, f)]
  /\ replies' = [replies EXCEPT ![c] = Append(@, Reply(i, "write_error"))]

Answer(c, i, res) ==
  /\ i \in DOMAIN issued[c]
  /\ MayAnswer(c, i)
  /\ replies' = [replies EXCEPT ![c] = Append(@, Reply(i, res))]
  /\ UNCHANGED issued

Next ==
  \E c \in Clients :
    \/ \E f \in Funcs \cup OneWayFuncs : Issue(c, f) \/ IssueFailed(c, f)
    \/ \E i \in 1..MaxCalls, res \in ServiceRes \cup {"conn_error"} : Answer(c, i, res)

Spec == Init /\ [][Next]_vars
=============================================================================
