------------------------------ MODULE QrpcCall ------------------------------
(***************************************************************************)
(* qrpc_call (src/rpc_call.cpp) over RPCClient::Client: one connection,    *)
(* one call, and an exit code that a shell script acts upon.  What it      *)
(* makes of its arguments is in ValueCodec.                                *)
(***************************************************************************)
EXTENDS RpcClient

VARIABLE prog      \* "start", "connected", "calling", "leaving" the block of
                   \* the client, or "exit0", "exit1"

progVars == <<vars, prog>>

ProgInit == Init /\ prog = "start"
----------------------------------------------------------------------------
\* The constructor connects, or throws.
Construct ==
  /\ prog = "start"
  /\ Connect
  /\ prog' = IF open' THEN "connected" ELSE "exit1"

\* call() sends, or throws; of an empty function name before it has an id.
Submit ==
  /\ prog = "connected"
  /\ \/ CallSent /\ prog' = "calling"
     \/ CallSendFails /\ prog' = "leaving"
     \/ UNCHANGED vars /\ prog' = "leaving"

Wait ==
  /\ prog = "calling"
  /\ Receive
  /\ prog' = IF pc' = "idle" THEN "leaving" ELSE prog

\* Mutant: an exception does not change the exit code.
CodeAlwaysZero == "exit0"

Code == IF calls > 0 /\ outcome[calls] = "ok" THEN "exit0" ELSE "exit1"

\* The destructor of the client, and the return of main.
Leave ==
  /\ prog = "leaving"
  /\ Close
  /\ prog' = Code

\* The router and the socket.
Outside ==
  /\ RouterAnswer \/ Deliver \/ PeerClose
  /\ UNCHANGED prog

ProgNext == Construct \/ Submit \/ Wait \/ Leave \/ Outside

ProgSpec == ProgInit /\ [][ProgNext]_progVars
----------------------------------------------------------------------------
(* Properties.                                                             *)

\* The exit code is the truth about the call: 0 means that the function was run
\* and that the result printed is its own.  A call on a connection of its own
\* finds nothing left by another, so 1 is never a mismatch, but a failure of
\* this very call.
ExitTells ==
  /\ prog = "exit0" => 1 \in served /\ answer[1] = 1
  /\ prog = "exit1" =>
       calls = 0 \/ outcome[1] \in {"send", "timeout", "closed", "rpc", "value"}
=============================================================================
