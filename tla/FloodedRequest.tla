--------------------------- MODULE FloodedRequest ---------------------------
(***************************************************************************)
(* Endpoint::request (src/rpc.cpp) against a sketch that never stops: the  *)
(* start_receiver of unoq_source registers its methods one by one, while   *)
(* the sketch calls and notifies those already registered without end.     *)
(* UnoqSource bounds the messages; here only the socket's buffer does.     *)
(***************************************************************************)
EXTENDS Endpoint

CONSTANT BufCap    \* bound: messages of the sketch the socket holds

\* "$/reset" is the router's own.
ASSUME FloodAssumption == BufCap \in Nat /\ Reset \notin Methods

VARIABLES
  caller,          \* start_receiver: "connect", "register", "await" (the loop of
                   \* request()), "started", or "failed", by an exception
  todo             \* methods it has still to register

floodVars == <<epVars, caller, todo>>

FloodInit ==
  /\ EpInit
  /\ caller = "connect"
  /\ todo = Methods
----------------------------------------------------------------------------
FloodConnect ==
  /\ caller = "connect"
  /\ \/ EpConnect /\ caller' = "register"
     \/ EpClose /\ caller' = "failed"
  /\ UNCHANGED todo

\* register_method of the next method, or the end of the loop over them.
FloodRegister ==
  /\ caller = "register"
  /\ \/ \E m \in todo : AskSent(m) /\ todo' = todo \ {m} /\ caller' = "await"
     \/ todo # {} /\ AskFailed /\ caller' = "failed" /\ UNCHANGED todo
     \/ todo = {} /\ caller' = "started" /\ UNCHANGED <<epVars, todo>>

\* The wait loop meets a message of the sketch, its answer, or its end.
FloodAwait ==
  /\ caller = "await"
  /\ \/ (SkipNotify \/ SkipRequest) /\ UNCHANGED caller
     \/ TakeReply /\ caller' = "register"
     \/ AwaitThrows /\ EpClose /\ caller' = "failed"
  /\ UNCHANGED todo

\* The sketch sends as long as there is room in the socket.
Flood ==
  /\ registry # {}
  /\ Len(inbox) < BufCap
  /\ \E k \in {"notify", "request"} :
       inbox' = Append(inbox, [kind |-> k, n |-> 1, ok |-> TRUE])
  /\ UNCHANGED <<ep_open, ep_msgid, waiting, ep_peer, asks, registry, sent, caller, todo>>

FloodRouter == (RouterActs \/ RouterReplies \/ RouterRefuses) /\ UNCHANGED <<caller, todo>>

StartReceiver == FloodConnect \/ FloodRegister \/ FloodAwait

FloodRouterCloses == RouterCloses /\ UNCHANGED <<caller, todo>>

FloodNext == StartReceiver \/ Flood \/ FloodRouter \/ FloodRouterCloses

FloodSpec == FloodInit /\ [][FloodNext]_floodVars

\* The thread runs, and the router answers while it is alive; the sketch need
\* never pause.
FloodFairness == WF_floodVars(StartReceiver) /\ WF_floodVars(FloodRouter)
----------------------------------------------------------------------------
(* Properties.                                                             *)

\* A wait in request() ends though messages of the sketch never do.  Its limit
\* is on one recv(), which a flood keeps from timing out: it is the answer of
\* the router, behind any number of messages, that ends it.
RequestOutlastsFlood == caller = "await" ~> caller # "await"

\* However the flood falls, start_receiver ends with every method in service,
\* or with the endpoint closed and none left behind in the router.
StartedWhole ==
  /\ caller = "started" => ep_open /\ (ep_peer = "up" => registry = Methods)
  /\ caller = "failed" => ~ep_open /\ registry = {}
=============================================================================
