------------------------------ MODULE RpcCall ------------------------------
(***************************************************************************)
(* What a caller of RPCClient::Client may rely on, with no socket, frame,  *)
(* message id or timeout in sight: calls are made one after the other, a   *)
(* call that returns a value returns the value the other side computed for *)
(* that very call, and every request is served at most once.  A call that  *)
(* fails promises nothing: its request may still be served afterwards.     *)
(***************************************************************************)
EXTENDS Integers

CONSTANT Calls     \* the numbers of the calls: 1 .. N

VARIABLES
  status,          \* [Calls -> Status]
  served           \* the calls whose request the other side has served

vars == <<status, served>>

Status == {"unused", "pending", "ok", "failed"}

TypeOK ==
  /\ status \in [Calls -> Status]
  /\ served \subseteq Calls

Init ==
  /\ status = [n \in Calls |-> "unused"]
  /\ served = {}

\* The caller makes its next call: no call before it is unfinished, none after
\* it has been made.  A call may fail before its request has left.
Issue(n) ==
  /\ status[n] = "unused"
  /\ \A m \in Calls : m < n => status[m] \in {"ok", "failed"}
  /\ \E s \in {"pending", "failed"} : status' = [status EXCEPT ![n] = s]
  /\ UNCHANGED served

\* The request of a call is served once, possibly after the caller gave up.
Serve(n) ==
  /\ status[n] # "unused"
  /\ n \notin served
  /\ served' = served \cup {n}
  /\ UNCHANGED status

Succeed(n) ==
  /\ status[n] = "pending"
  /\ n \in served
  /\ status' = [status EXCEPT ![n] = "ok"]
  /\ UNCHANGED served

Fail(n) ==
  /\ status[n] = "pending"
  /\ status' = [status EXCEPT ![n] = "failed"]
  /\ UNCHANGED served

Next == \E n \in Calls : Issue(n) \/ Serve(n) \/ Succeed(n) \/ Fail(n)

Spec == Init /\ [][Next]_vars
============================================================================
