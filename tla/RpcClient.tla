----------------------------- MODULE RpcClient -----------------------------
(***************************************************************************)
(* RPCClient::Client (src/rpc.cpp): one blocking msgpack-rpc client on one *)
(* Unix stream socket, as used by qrpc_call, qrpc_throughput, unoq_sink,   *)
(* unoq_filter and the call mode of unoq_source.                           *)
(*                                                                         *)
(* The socket is a byte stream.  Every response frame is two chunks, its   *)
(* head and its tail, so that a recv() can end inside a frame or run into  *)
(* the next one.  The unpacker of a call is local to the call: what it     *)
(* holds when the call returns is lost.                                    *)
(*                                                                         *)
(* Calls are numbered 1, 2, ... in the order made; the number is history   *)
(* the code does not keep.  What the code keeps, and puts on the wire, is  *)
(* the message id, which wraps.                                            *)
(***************************************************************************)
EXTENDS Integers, Sequences

CONSTANTS
  IdSpace,         \* values of the uint32_t _next_msgid: 2^32 in the code
  RecvCap,         \* chunks the buffer of one recv() holds
  MaxCalls,        \* bound: calls that allocate a message id
  MaxConnects      \* bound: connect() calls

ASSUME ConstAssumption ==
  /\ IdSpace \in Nat \ {0}
  /\ RecvCap \in Nat \ {0}
  /\ MaxCalls \in Nat
  /\ MaxConnects \in Nat

Calls == 1 .. MaxCalls

Msgids == 0 .. IdSpace - 1

VARIABLES
  open,            \* _socket_fd >= 0
  next_msgid,      \* _next_msgid
  request_msgid,   \* the local of the call in progress
  pc,              \* "idle", or "receive" inside receive_message
  unp,             \* chunks in the unpacker local to the call in progress
  conn,            \* number of the current socket (history)
  calls,           \* number of calls made (history)
  via,             \* the socket each call went to (history)
  outcome,         \* how each call ended (history)
  answer,          \* the call whose response was returned (history)
  requests,        \* requests the router has and has not answered
  served,          \* calls whose request the router has served (history)
  outbox,          \* chunks of responses not yet readable by the client
  stream,          \* chunks readable by the client
  peer             \* the router's end of the current socket: "up" or "down"

client == <<open, next_msgid, request_msgid, pc, unp, conn, calls, via,
            outcome, answer>>
router == <<requests, served, outbox, stream, peer>>
vars == <<open, next_msgid, request_msgid, pc, unp, conn, calls, via,
          outcome, answer, requests, served, outbox, stream, peer>>

\* What a response carries: a result object_to_value can convert, an error,
\* or a result of a type it rejects (a map, an integer above int64_t).
Bodies == {"result", "error", "unsupported"}

Request == [of : Calls, msgid : Msgids]
Chunk == [of : Calls, msgid : Msgids, body : Bodies, part : {"head", "tail"}]

\* The exceptions call() throws after it has allocated a message id.
Failures == {"send", "timeout", "closed", "format", "mismatch", "rpc", "value"}
Outcomes == Failures \cup {"unused", "pending", "ok"}

TypeOK ==
  /\ open \in BOOLEAN
  /\ next_msgid \in Msgids
  /\ request_msgid \in Msgids
  /\ pc \in {"idle", "receive"}
  /\ unp \in Seq(Chunk)
  /\ conn \in 0 .. MaxConnects
  /\ calls \in 0 .. MaxCalls
  /\ via \in [Calls -> 0 .. MaxConnects]
  /\ outcome \in [Calls -> Outcomes]
  /\ answer \in [Calls -> 0 .. MaxCalls]
  /\ requests \subseteq Request
  /\ served \subseteq Calls
  /\ outbox \in Seq(Chunk)
  /\ stream \in Seq(Chunk)
  /\ peer \in {"up", "down"}

Init ==
  /\ open = FALSE
  /\ next_msgid = 0
  /\ request_msgid = 0
  /\ pc = "idle"
  /\ unp = <<>>
  /\ conn = 0
  /\ calls = 0
  /\ via = [n \in Calls |-> 0]
  /\ outcome = [n \in Calls |-> "unused"]
  /\ answer = [n \in Calls |-> 0]
  /\ requests = {}
  /\ served = {}
  /\ outbox = <<>>
  /\ stream = <<>>
  /\ peer = "down"
----------------------------------------------------------------------------
(* The connection.                                                         *)

\* Mutant: the descriptor is reused and keeps what it held.
DropSocketKept == UNCHANGED <<outbox, stream>>

\* close_fd: what the socket still held, in either direction, is gone.
DropSocket ==
  /\ outbox' = <<>>
  /\ stream' = <<>>

\* Client::connect and adopt_socket: the old socket is closed first, and a
\* socket that fails to connect is closed again.  _next_msgid is not reset.
Connect ==
  /\ pc = "idle"
  /\ conn < MaxConnects
  /\ conn' = conn + 1
  /\ \/ open' = TRUE  /\ peer' = "up"
     \/ open' = FALSE /\ peer' = "down"
  /\ DropSocket
  /\ UNCHANGED <<next_msgid, request_msgid, pc, unp, calls, via, outcome,
                 answer, requests, served>>

\* Client::close, also run by the destructor and the assignments.
Close ==
  /\ pc = "idle"
  /\ open
  /\ open' = FALSE
  /\ peer' = "down"
  /\ DropSocket
  /\ UNCHANGED <<next_msgid, request_msgid, pc, unp, conn, calls, via, outcome,
                 answer, requests, served>>
----------------------------------------------------------------------------
(* Client::call.  A call refused before it allocates an id (socket not     *)
(* open, empty method, malformed JSON payload) changes nothing and is not  *)
(* an action.                                                              *)

\* Mutant: the counter is wider than the id on the wire.
NextMsgidWide == next_msgid + 1

\* _next_msgid++ of a uint32_t.
NextMsgid == (next_msgid + 1) % IdSpace

\* The request of the call being made.
NewRequest == [of |-> calls + 1, msgid |-> next_msgid]

\* An id is allocated before the frame is packed and sent.
StartCall ==
  /\ pc = "idle"
  /\ open
  /\ calls < MaxCalls
  /\ calls' = calls + 1
  /\ request_msgid' = next_msgid
  /\ next_msgid' = NextMsgid
  /\ via' = [via EXCEPT ![calls + 1] = conn]

\* send_all wrote the whole frame; receive_message starts a fresh unpacker.
CallSent ==
  /\ StartCall
  /\ peer = "up"
  /\ requests' = requests \cup {NewRequest}
  /\ pc' = "receive"
  /\ unp' = <<>>
  /\ outcome' = [outcome EXCEPT ![calls + 1] = "pending"]
  /\ UNCHANGED <<open, conn, answer, served, outbox, stream, peer>>

\* send_all threw: EPIPE, or the send timeout with part of the frame written.
\* A frame cut short stays in the stream, where the bytes of the next call
\* may complete it: the router may come to answer it after all.  The socket
\* stays open.
CallSendFails ==
  /\ StartCall
  /\ \/ UNCHANGED requests
     \/ peer = "up" /\ requests' = requests \cup {NewRequest}
  /\ outcome' = [outcome EXCEPT ![calls + 1] = "send"]
  /\ UNCHANGED <<open, pc, unp, conn, answer, served, outbox, stream, peer>>

\* The call in progress ends; its unpacker is destroyed, with what it holds.
EndCall(result) ==
  /\ pc' = "idle"
  /\ unp' = <<>>
  /\ outcome' = [outcome EXCEPT ![calls] = result]

\* Mutant: the id of the response is not compared.
VerdictAnyId(c) ==
  CASE c.body = "error" -> "rpc" [] c.body = "unsupported" -> "value"
    [] OTHER -> "ok"

\* The checks of call() on a complete response, in their order.
Verdict(c) ==
  CASE c.msgid # request_msgid                         -> "mismatch"
    [] c.msgid = request_msgid /\ c.body = "error"       -> "rpc"
    [] c.msgid = request_msgid /\ c.body = "unsupported" -> "value"
    [] OTHER                                           -> "ok"

\* What unpacker.next() and the checks after it make of a buffer.  A buffer
\* that begins inside a frame gives some object that is no response, or
\* leaves the unpacker asking for more.
Results(buf) ==
  IF Head(buf).part = "tail" THEN {"format", "wait"}
  ELSE IF Len(buf) = 1 THEN {"wait"}
  ELSE {Verdict(Head(buf))}

\* recv() takes what the buffer holds, of one frame or of several.
Taken == SubSeq(stream, 1, IF Len(stream) < RecvCap THEN Len(stream) ELSE RecvCap)
Left == SubSeq(stream, Len(Taken) + 1, Len(stream))

Recv ==
  /\ pc = "receive"
  /\ stream # <<>>
  /\ stream' = Left
  /\ \E r \in Results(unp \o Taken) :
       IF r = "wait"
       THEN unp' = unp \o Taken /\ UNCHANGED <<pc, outcome, answer>>
       ELSE /\ EndCall(r)
            /\ answer' = IF r = "ok"
                         THEN [answer EXCEPT ![calls] = Head(unp \o Taken).of]
                         ELSE answer
  /\ UNCHANGED <<open, next_msgid, request_msgid, conn, calls, via, requests,
                 served, outbox, peer>>

\* Mutant: the socket has no SO_RCVTIMEO.
RecvTimeoutNever == FALSE /\ UNCHANGED vars

\* SO_RCVTIMEO: nothing came for five seconds.  The socket stays open.
RecvTimeout ==
  /\ pc = "receive"
  /\ stream = <<>>
  /\ peer = "up"
  /\ EndCall("timeout")
  /\ UNCHANGED <<open, next_msgid, request_msgid, conn, calls, via, answer,
                 requests, served, outbox, stream, peer>>

\* recv() returned 0.
RecvEof ==
  /\ pc = "receive"
  /\ stream = <<>>
  /\ peer = "down"
  /\ EndCall("closed")
  /\ UNCHANGED <<open, next_msgid, request_msgid, conn, calls, via, answer,
                 requests, served, outbox, stream, peer>>

\* What ends or advances a blocked receive_message.
Receive == Recv \/ RecvTimeout \/ RecvEof
----------------------------------------------------------------------------
(* The router and the sketch behind it, as src/ uses them.                 *)

\* The response of a request, as it crosses the socket.
Frame(r, b) ==
  << [of |-> r.of, msgid |-> r.msgid, body |-> b, part |-> "head"],
     [of |-> r.of, msgid |-> r.msgid, body |-> b, part |-> "tail"] >>

\* Any pending request is served, in any order and however late; the response
\* goes to the socket the request came from, if that still stands.
RouterAnswer ==
  /\ \E r \in requests, b \in Bodies :
       /\ requests' = requests \ {r}
       /\ served' = served \cup {r.of}
       /\ outbox' = IF via[r.of] = conn /\ peer = "up"
                    THEN outbox \o Frame(r, b)
                    ELSE outbox
  /\ UNCHANGED <<client, stream, peer>>

\* The next bytes become readable.
Deliver ==
  /\ outbox # <<>>
  /\ stream' = Append(stream, Head(outbox))
  /\ outbox' = Tail(outbox)
  /\ UNCHANGED <<client, requests, served, peer>>

\* The router closes or dies; what it had not sent is lost.
PeerClose ==
  /\ peer = "up"
  /\ peer' = "down"
  /\ outbox' = <<>>
  /\ UNCHANGED <<client, requests, served, stream>>
----------------------------------------------------------------------------
Next ==
  \/ Connect \/ Close \/ CallSent \/ CallSendFails
  \/ Recv \/ RecvTimeout \/ RecvEof
  \/ RouterAnswer \/ Deliver \/ PeerClose

Spec == Init /\ [][Next]_vars

\* The calling thread runs, and the kernel ends a recv() that waits too long.
Fairness == WF_vars(Receive)

FairSpec == Spec /\ Fairness
----------------------------------------------------------------------------
(* Properties.                                                             *)

\* A call that returns a value returns the answer to its own request, never
\* the late answer to a call that had timed out, on this socket or on one
\* before it.  The one exception is an answer late by a whole turn of the
\* uint32_t ids, which call() cannot tell from its own.
OwnAnswer ==
  \A n \in Calls :
    outcome[n] = "ok" /\ n - answer[n] < IdSpace => answer[n] = n

\* "RPC response does not match request" and "Invalid RPC response format" are
\* never the fault of the call that reports them: an earlier call on the same
\* socket gave up, and left its answer (or a cut frame) for this one to read.
MismatchNeedsAbandoned ==
  \A n \in Calls :
    outcome[n] \in {"mismatch", "format"} =>
      \E m \in 1 .. n - 1 : via[m] = via[n] /\ outcome[m] \in {"timeout", "send"}

\* A call() whose request left returns or throws: a router that never answers
\* does not block the plugin for ever.
CallReturns == pc = "receive" ~> pc = "idle"

\* The abstract status of every call.
Status == [n \in Calls |->
             IF outcome[n] \in {"unused", "pending", "ok"} THEN outcome[n]
             ELSE "failed"]

Abstract == INSTANCE RpcCall WITH status <- Status

\* The client implements RpcCall: calls succeed one at a time, in order, with
\* their own request served, and no request is served twice, whatever was late
\* or lost.  It needs ids that do not wrap.
ImplementsRpcCall == Abstract!Spec
============================================================================
