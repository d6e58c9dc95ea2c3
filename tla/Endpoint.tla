------------------------------ MODULE Endpoint ------------------------------
(***************************************************************************)
(* RPCClient::Endpoint (src/rpc.cpp) and the router at its other end: the  *)
(* steps from which unoq_source's main thread and its receiver thread are  *)
(* built.  The unpacker belongs to the endpoint and lives as long as the   *)
(* socket, so what comes in is a queue of whole frames.  The object has no *)
(* lock of its own.                                                        *)
(*                                                                         *)
(* A recv() that waits has three ends: a frame, the receive timeout (one   *)
(* second, peer up), and the end of the stream (peer down).                *)
(***************************************************************************)
EXTENDS Integers, Sequences, FiniteSets

CONSTANTS
  Methods,         \* names the sketch can call, and the plugin can provide
  EpIdSpace,       \* values of the uint32_t _next_msgid: 2^32 in the code
  MaxMsgs          \* bound: notifications and requests the sketch sends

ASSUME EndpointAssumption ==
  /\ EpIdSpace \in Nat \ {0}
  /\ MaxMsgs \in Nat

VARIABLES
  ep_open,         \* _socket_fd >= 0
  ep_msgid,        \* _next_msgid
  waiting,         \* request_msgid, the local of request()
  inbox,           \* frames readable, oldest first
  ep_peer,         \* the router's end of the socket: "up" or "down"
  asks,            \* requests of the endpoint the router has not answered
  registry,        \* methods the router forwards to the endpoint
  sent             \* how many messages the sketch has sent

epVars == <<ep_open, ep_msgid, waiting, inbox, ep_peer, asks, registry, sent>>

MsgNums == 1 .. MaxMsgs
EpMsgids == 0 .. EpIdSpace - 1

\* A message of the sketch; ok: receive() can decode it.
Incoming == [kind : {"notify", "request"}, n : MsgNums, ok : BOOLEAN]
\* The router's answer to the endpoint; ok: it is not an error.
Response == [kind : {"response"}, msgid : EpMsgids, ok : BOOLEAN]

\* "$/register" of a method, or "$/reset" (of no method).  done: the router
\* has acted on it, and owes the answer.
Reset == "$/reset"
Ask == [msgid : EpMsgids, method : Methods \cup {Reset}, done : BOOLEAN]

EpTypeOK ==
  /\ ep_open \in BOOLEAN
  /\ ep_msgid \in EpMsgids
  /\ waiting \in EpMsgids
  /\ inbox \in Seq(Incoming \cup Response)
  /\ ep_peer \in {"up", "down"}
  /\ asks \subseteq Ask
  /\ registry \subseteq Methods
  /\ sent \in 0 .. MaxMsgs

EpInit ==
  /\ ep_open = FALSE
  /\ ep_msgid = 0
  /\ waiting = 0
  /\ inbox = <<>>
  /\ ep_peer = "down"
  /\ asks = {}
  /\ registry = {}
  /\ sent = 0
----------------------------------------------------------------------------
(* The socket.                                                             *)

\* What either end held for the socket before is gone, and the router forgets
\* the methods registered through it.
FreshSocket ==
  /\ inbox' = <<>>
  /\ asks' = {}
  /\ registry' = {}

\* Endpoint::close.
EpClose ==
  /\ ep_open' = FALSE
  /\ ep_peer' = "down"
  /\ FreshSocket
  /\ UNCHANGED <<ep_msgid, waiting, sent>>

\* Endpoint::connect that succeeds: a new socket and a new unpacker.  One that
\* fails has closed what there was.
EpConnect ==
  /\ ep_open' = TRUE
  /\ ep_peer' = "up"
  /\ FreshSocket
  /\ UNCHANGED <<ep_msgid, waiting, sent>>
----------------------------------------------------------------------------
(* request(): the caller sends, then waits for its answer.                 *)

\* Mutant: the counter is wider than the id on the wire.
NextEpMsgidWide == ep_msgid + 1

\* _next_msgid++ of a uint32_t.
NextEpMsgid == (ep_msgid + 1) % EpIdSpace

AskSent(m) ==
  /\ ep_peer = "up"
  /\ waiting' = ep_msgid
  /\ ep_msgid' = NextEpMsgid
  /\ asks' = asks \cup {[msgid |-> ep_msgid, method |-> m, done |-> FALSE]}
  /\ UNCHANGED <<ep_open, inbox, ep_peer, registry, sent>>

\* The send failed or timed out; every caller closes the socket.
AskFailed ==
  /\ ep_msgid' = NextEpMsgid
  /\ waiting' = ep_msgid
  /\ ep_open' = FALSE
  /\ ep_peer' = "down"
  /\ FreshSocket
  /\ UNCHANGED sent

Front(kind) == inbox # <<>> /\ Head(inbox).kind = kind

\* recv() fails with no frame: a timeout, or the end of the stream.
Quiet == inbox = <<>>

\* Mutant: the notification is looked at, and left where it is.
SkipNotifyKept ==
  /\ Front("notify")
  /\ UNCHANGED epVars

\* The wait loop of request() meets a message of the sketch and goes on.  A
\* notification is dropped; a request is answered with an error.
SkipNotify ==
  /\ Front("notify")
  /\ inbox' = Tail(inbox)
  /\ UNCHANGED <<ep_open, ep_msgid, waiting, ep_peer, asks, registry, sent>>

SkipRequest ==
  /\ Front("request")
  /\ ep_peer = "up"
  /\ inbox' = Tail(inbox)
  /\ UNCHANGED <<ep_open, ep_msgid, waiting, ep_peer, asks, registry, sent>>

\* Mutant: the error in the response is not looked at.
ReplyAny == Front("response") /\ Head(inbox).msgid = waiting

\* The response is the one request() waits for, and no error.
ReplyAccepted ==
  /\ Front("response")
  /\ Head(inbox).msgid = waiting
  /\ Head(inbox).ok

\* request() throws while it waits: nothing came, the error answer to a
\* request of the sketch could not be sent, or the response is an error or
\* bears another id.
AwaitThrows ==
  \/ Quiet
  \/ Front("request")
  \/ Front("response") /\ ~ReplyAccepted

TakeReply ==
  /\ ReplyAccepted
  /\ inbox' = Tail(inbox)
  /\ UNCHANGED <<ep_open, ep_msgid, waiting, ep_peer, asks, registry, sent>>
----------------------------------------------------------------------------
(* receive().                                                              *)

\* A notification or a request, decoded.
Receivable == inbox # <<>> /\ Head(inbox).kind # "response" /\ Head(inbox).ok

\* A frame that makes receive() throw: arguments of a type or range that
\* object_to_values rejects, or a response, which nobody waits for here.
Unreceivable == inbox # <<>> /\ ~Receivable

\* Either way the frame has left the unpacker.
TakeFrame ==
  /\ inbox # <<>>
  /\ inbox' = Tail(inbox)
  /\ UNCHANGED <<ep_open, ep_msgid, waiting, ep_peer, asks, registry, sent>>
----------------------------------------------------------------------------
(* The router and the sketch, as src/ uses them.                           *)

\* The router acts on a request: from here on messages for the method come.
RouterActs ==
  \E a \in asks :
    /\ ~a.done
    /\ registry' = IF a.method = Reset THEN {} ELSE registry \cup {a.method}
    /\ asks' = (asks \ {a}) \cup {[a EXCEPT !.done = TRUE]}
    /\ UNCHANGED <<ep_open, ep_msgid, waiting, inbox, ep_peer, sent>>

\* The answer follows, by another step: messages may overtake it.
RouterReplies ==
  \E a \in asks :
    /\ a.done
    /\ inbox' = Append(inbox, [kind |-> "response", msgid |-> a.msgid, ok |-> TRUE])
    /\ asks' = asks \ {a}
    /\ UNCHANGED <<ep_open, ep_msgid, waiting, ep_peer, registry, sent>>

\* The router turns the request down.
RouterRefuses ==
  \E a \in asks :
    /\ ~a.done
    /\ inbox' = Append(inbox, [kind |-> "response", msgid |-> a.msgid, ok |-> FALSE])
    /\ asks' = asks \ {a}
    /\ UNCHANGED <<ep_open, ep_msgid, waiting, ep_peer, registry, sent>>

\* The sketch calls or notifies a registered method.
SketchSends ==
  /\ sent < MaxMsgs
  /\ sent' = sent + 1
  /\ registry # {}
  /\ \E k \in {"notify", "request"}, ok \in BOOLEAN :
       inbox' = Append(inbox, [kind |-> k, n |-> sent + 1, ok |-> ok])
  /\ UNCHANGED <<ep_open, ep_msgid, waiting, ep_peer, asks, registry>>

\* The router dies.  What it had written stays readable.
RouterCloses ==
  /\ ep_peer = "up"
  /\ ep_peer' = "down"
  /\ asks' = {}
  /\ registry' = {}
  /\ UNCHANGED <<ep_open, ep_msgid, waiting, inbox, sent>>

Router == RouterActs \/ RouterReplies \/ RouterRefuses \/ SketchSends \/ RouterCloses
============================================================================
