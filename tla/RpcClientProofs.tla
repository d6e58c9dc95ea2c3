-------------------------- MODULE RpcClientProofs --------------------------
(***************************************************************************)
(* For every size of the id space, of the receive buffer and of the        *)
(* history: RpcClient is well typed, a call returns its own answer or      *)
(* fails for a reason, and with ids enough RpcClient implements RpcCall.   *)
(***************************************************************************)
EXTENDS RpcClient, WrapArithmetic

\* The id of call n: the calls made before it, wrapped.
IdOf(n) == (n - 1) % IdSpace

\* x is a request of one of the first c calls, or a chunk of the answer to it.
Genuine(x, c) == x.of <= c /\ x.msgid = IdOf(x.of)

GenuineSeq(s, c) == \A i \in 1 .. Len(s) : Genuine(s[i], c)

\* The counter is the number of calls, wrapped; the call in progress is the
\* last one made and bears the id allocated for it.
CounterInv ==
  /\ next_msgid = calls % IdSpace
  /\ pc = "receive" => calls > 0 /\ request_msgid = IdOf(calls)

\* Whatever is on its way, or in the unpacker, carries the id of its call.
WireInv ==
  /\ \A r \in requests : Genuine(r, calls)
  /\ GenuineSeq(outbox, calls)
  /\ GenuineSeq(stream, calls)
  /\ GenuineSeq(unp, calls)

\* A value returned answers a call not after this one, with the same id.
AnswerInv ==
  \A n \in Calls :
    outcome[n] = "ok" =>
      n <= calls /\ answer[n] \in 1 .. n /\ IdOf(answer[n]) = IdOf(n)

IInv == TypeOK /\ CounterInv /\ WireInv /\ AnswerInv
----------------------------------------------------------------------------
\* Sequences of genuine chunks are closed under what the steps do to them.
LEMMA GenuineSeqFacts ==
  ASSUME NEW c \in Nat,
         NEW s \in Seq(Chunk), NEW t \in Seq(Chunk),
         GenuineSeq(s, c), GenuineSeq(t, c)
  PROVE  /\ s \o t \in Seq(Chunk)
         /\ GenuineSeq(s \o t, c)
         /\ \A d \in Nat : d >= c => GenuineSeq(s, d)
<1>1. s \o t \in Seq(Chunk)
  OBVIOUS
<1>2. GenuineSeq(s \o t, c)
  <2> SUFFICES ASSUME NEW i \in 1 .. Len(s \o t)
               PROVE  Genuine((s \o t)[i], c)
    BY DEF GenuineSeq
  <2>1. CASE i <= Len(s)
    <3>1. (s \o t)[i] = s[i] /\ i \in 1 .. Len(s)
      BY <2>1
    <3> QED BY <3>1 DEF GenuineSeq
  <2>2. CASE i > Len(s)
    <3>1. (s \o t)[i] = t[i - Len(s)] /\ i - Len(s) \in 1 .. Len(t)
      BY <2>2
    <3> QED BY <3>1 DEF GenuineSeq
  <2> QED BY <2>1, <2>2
<1>3. ASSUME NEW d \in Nat, d >= c PROVE GenuineSeq(s, d)
  <2> SUFFICES ASSUME NEW i \in 1 .. Len(s) PROVE Genuine(s[i], d)
    BY DEF GenuineSeq
  <2>1. Genuine(s[i], c) /\ s[i] \in Chunk
    BY DEF GenuineSeq
  <2> QED BY <1>3, <2>1 DEF Genuine, Chunk, Calls
<1> QED BY <1>1, <1>2, <1>3

\* A piece of a sequence of genuine chunks is one.
LEMMA GenuinePiece ==
  ASSUME NEW c \in Nat, NEW s \in Seq(Chunk), GenuineSeq(s, c),
         NEW a \in 1 .. Len(s) + 1, NEW b \in 0 .. Len(s)
  PROVE  SubSeq(s, a, b) \in Seq(Chunk) /\ GenuineSeq(SubSeq(s, a, b), c)
<1>1. SubSeq(s, a, b) \in Seq(Chunk)
  OBVIOUS
<1>2. ASSUME NEW i \in 1 .. Len(SubSeq(s, a, b))
      PROVE  Genuine(SubSeq(s, a, b)[i], c)
  <2>1. SubSeq(s, a, b)[i] = s[a + i - 1] /\ a + i - 1 \in 1 .. Len(s)
    OBVIOUS
  <2> QED BY <2>1 DEF GenuineSeq
<1> QED BY <1>1, <1>2 DEF GenuineSeq

\* The two parts of the stream at a recv().
LEMMA TakenLeft ==
  ASSUME stream \in Seq(Chunk), NEW c \in Nat, GenuineSeq(stream, c)
  PROVE  /\ Taken \in Seq(Chunk) /\ GenuineSeq(Taken, c)
         /\ Left \in Seq(Chunk) /\ GenuineSeq(Left, c)
<1> DEFINE k == IF Len(stream) < RecvCap THEN Len(stream) ELSE RecvCap
<1>1. k \in 0 .. Len(stream)
  BY ConstAssumption
<1> HIDE DEF k
<1>2. Taken = SubSeq(stream, 1, k)
  BY DEF Taken, k
<1>3. Taken \in Seq(Chunk) /\ GenuineSeq(Taken, c)
  BY <1>1, <1>2, GenuinePiece
<1>4. Len(Taken) = k
  BY <1>1, <1>2
<1>5. Left \in Seq(Chunk) /\ GenuineSeq(Left, c)
  <2>1. k + 1 \in 1 .. Len(stream) + 1
    BY <1>1
  <2>2. Left = SubSeq(stream, k + 1, Len(stream))
    BY <1>4 DEF Left
  <2> QED BY <2>1, <2>2, GenuinePiece
<1> QED BY <1>3, <1>5
----------------------------------------------------------------------------
LEMMA InitIInv == Init => IInv
<1> SUFFICES ASSUME Init PROVE IInv
  OBVIOUS
<1>1. TypeOK
  <2>1. open \in BOOLEAN
    BY DEF Init
  <2>2. next_msgid \in Msgids /\ request_msgid \in Msgids
    BY ConstAssumption DEF Init, Msgids
  <2>3. /\ conn \in 0 .. MaxConnects /\ calls \in 0 .. MaxCalls
        /\ via \in [Calls -> 0 .. MaxConnects] /\ answer \in [Calls -> 0 .. MaxCalls]
    BY ConstAssumption DEF Init
  <2>4. outcome \in [Calls -> Outcomes]
    BY DEF Init, Outcomes
  <2> QED BY <2>1, <2>2, <2>3, <2>4 DEF Init, TypeOK
<1>2. CounterInv
  <2>1. 0 % IdSpace = 0
    BY ConstAssumption, ModUnique, IdSpace * 0 + 0 = 0
  <2> QED BY <2>1 DEF Init, CounterInv
<1>3. WireInv
  BY DEF Init, WireInv, GenuineSeq
<1>4. AnswerInv
  BY DEF Init, AnswerInv
<1> QED BY <1>1, <1>2, <1>3, <1>4 DEF IInv

\* An allocation of an id keeps the counter, and makes a genuine request.
LEMMA StartCallFacts ==
  ASSUME TypeOK, CounterInv, StartCall
  PROVE  /\ calls' \in Calls /\ calls' = calls + 1
         /\ next_msgid' \in Msgids /\ next_msgid' = calls' % IdSpace
         /\ request_msgid' \in Msgids /\ request_msgid' = IdOf(calls')
         /\ NewRequest \in Request /\ Genuine(NewRequest, calls')
         /\ via' \in [Calls -> 0 .. MaxConnects]
<1>1. calls \in Nat /\ calls < MaxCalls /\ calls' = calls + 1
  BY ConstAssumption DEF TypeOK, StartCall
<1>2. calls' \in Calls
  BY <1>1, ConstAssumption DEF Calls
<1>3. next_msgid' = calls' % IdSpace
  BY <1>1, ConstAssumption, ModNext DEF StartCall, NextMsgid, CounterInv
<1>4. next_msgid' \in Msgids
  BY <1>1, <1>3, ConstAssumption, DivMod DEF Msgids
<1>5. calls' - 1 = calls
  BY <1>1
<1>6. request_msgid' = IdOf(calls') /\ request_msgid' \in Msgids
  BY <1>5 DEF StartCall, CounterInv, IdOf, TypeOK
<1>7. NewRequest \in Request /\ Genuine(NewRequest, calls')
  BY <1>1, <1>2, <1>5 DEF NewRequest, Request, Genuine, IdOf, CounterInv, TypeOK
<1>8. via' \in [Calls -> 0 .. MaxConnects]
  BY DEF StartCall, TypeOK
<1> QED BY <1>1, <1>2, <1>3, <1>4, <1>6, <1>7, <1>8

\* More calls make nothing less genuine.
LEMMA WireGrows ==
  ASSUME TypeOK, WireInv, NEW c \in Nat, c >= calls
  PROVE  /\ \A r \in requests : Genuine(r, c)
         /\ GenuineSeq(outbox, c) /\ GenuineSeq(stream, c) /\ GenuineSeq(unp, c)
<1>1. calls \in Nat
  BY ConstAssumption DEF TypeOK
<1>2. \A r \in requests : Genuine(r, c)
  BY <1>1 DEF TypeOK, WireInv, Genuine, Request, Calls
<1>3. GenuineSeq(outbox, c) /\ GenuineSeq(stream, c) /\ GenuineSeq(unp, c)
  BY <1>1, GenuineSeqFacts DEF TypeOK, WireInv
<1> QED BY <1>2, <1>3

LEMMA StartCallIInv ==
  ASSUME IInv, CallSent \/ CallSendFails
  PROVE  IInv'
<1> USE DEF IInv
<1>0. StartCall /\ calls \in Nat
  BY ConstAssumption DEF CallSent, CallSendFails, TypeOK
<1>1. /\ calls' \in Calls /\ calls' = calls + 1
      /\ next_msgid' \in Msgids /\ next_msgid' = calls' % IdSpace
      /\ request_msgid' \in Msgids /\ request_msgid' = IdOf(calls')
      /\ NewRequest \in Request /\ Genuine(NewRequest, calls')
      /\ via' \in [Calls -> 0 .. MaxConnects]
  BY <1>0, StartCallFacts
<1>2. /\ requests' \subseteq Request
      /\ \A r \in requests' : r \in requests \/ r = NewRequest
  BY <1>1 DEF CallSent, CallSendFails, TypeOK
<1>3. UNCHANGED <<open, conn, answer, served, outbox, stream, peer>>
  BY DEF CallSent, CallSendFails
<1>4. unp' = unp \/ unp' = <<>>
  BY DEF CallSent, CallSendFails
<1>5. \E o \in {"pending", "send"} : outcome' = [outcome EXCEPT ![calls + 1] = o]
  BY DEF CallSent, CallSendFails
<1>6. TypeOK'
  <2>1. calls' \in 0 .. MaxCalls
    BY <1>1 DEF Calls
  <2>2. outcome' \in [Calls -> Outcomes]
    BY <1>5 DEF TypeOK, Outcomes, Failures
  <2>3. pc' \in {"idle", "receive"}
    BY DEF CallSent, CallSendFails, TypeOK
  <2>4. unp' \in Seq(Chunk)
    <3>1. unp \in Seq(Chunk) /\ <<>> \in Seq(Chunk)
      BY DEF TypeOK
    <3> QED BY <1>4, <3>1
  <2> QED BY <1>1, <1>2, <1>3, <2>1, <2>2, <2>3, <2>4 DEF TypeOK
<1>7. CounterInv'
  <2>1. calls' > 0
    BY <1>0, <1>1
  <2> QED BY <1>1, <2>1 DEF CounterInv, IdOf
<1>8. WireInv'
  <2>1. calls' \in Nat /\ calls' >= calls
    BY <1>0, <1>1
  <2>2. /\ \A r \in requests : Genuine(r, calls')
        /\ GenuineSeq(outbox, calls') /\ GenuineSeq(stream, calls')
        /\ GenuineSeq(unp, calls')
    BY <2>1, WireGrows
  <2>3. GenuineSeq(<<>>, calls')
    BY DEF GenuineSeq
  <2>4. \A r \in requests' : Genuine(r, calls')
    BY <1>1, <1>2, <2>2
  <2>5. /\ GenuineSeq(outbox', calls') /\ GenuineSeq(stream', calls')
        /\ GenuineSeq(unp', calls')
    BY <1>3, <1>4, <2>2, <2>3
  <2> QED BY <2>4, <2>5 DEF WireInv, GenuineSeq, Genuine, IdOf
<1>9. AnswerInv'
  <2> SUFFICES ASSUME NEW n \in Calls, outcome'[n] = "ok"
               PROVE  n <= calls' /\ answer'[n] \in 1 .. n /\ IdOf(answer'[n]) = IdOf(n)
    BY DEF AnswerInv, IdOf
  <2>1. outcome[n] = "ok"
    BY <1>5 DEF TypeOK
  <2>2. n <= calls /\ answer[n] \in 1 .. n /\ IdOf(answer[n]) = IdOf(n)
    BY <2>1 DEF AnswerInv
  <2> QED BY <1>0, <1>1, <1>3, <2>2 DEF Calls
<1> QED BY <1>6, <1>7, <1>8, <1>9

\* What the steps that neither start nor end a call must keep.
LEMMA QuietIInv ==
  ASSUME IInv, TypeOK',
         UNCHANGED <<next_msgid, request_msgid, pc, calls, outcome, answer>>,
         requests' \subseteq requests,
         GenuineSeq(outbox', calls), GenuineSeq(stream', calls),
         GenuineSeq(unp', calls)
  PROVE  IInv'
<1>1. CounterInv'
  BY DEF IInv, CounterInv, IdOf
<1>2. WireInv'
  BY DEF IInv, WireInv, GenuineSeq, Genuine, IdOf
<1>3. AnswerInv'
  BY DEF IInv, AnswerInv, IdOf
<1> QED BY <1>1, <1>2, <1>3 DEF IInv

LEMMA ConnectionIInv ==
  ASSUME IInv, Connect \/ Close
  PROVE  IInv'
<1>1. UNCHANGED <<next_msgid, request_msgid, pc, calls, outcome, answer,
                  requests, served, via, unp>>
  BY DEF Connect, Close
<1>2. outbox' = <<>> /\ stream' = <<>>
  BY DEF Connect, Close, DropSocket
<1>3. open' \in BOOLEAN /\ peer' \in {"up", "down"}
  BY DEF Connect, Close
<1>4. conn' \in 0 .. MaxConnects
  BY ConstAssumption DEF Connect, Close, IInv, TypeOK
<1>5. TypeOK'
  <2>1. <<>> \in Seq(Chunk)
    OBVIOUS
  <2> QED BY <1>1, <1>2, <1>3, <1>4, <2>1 DEF IInv, TypeOK
<1>6. GenuineSeq(<<>>, calls) /\ GenuineSeq(unp', calls)
  BY <1>1 DEF GenuineSeq, IInv, WireInv
<1> QED BY <1>1, <1>2, <1>5, <1>6, QuietIInv

LEMMA RouterAnswerIInv ==
  ASSUME IInv, RouterAnswer
  PROVE  IInv'
<1> USE DEF IInv
<1>1. PICK r \in requests, b \in Bodies :
        /\ requests' = requests \ {r}
        /\ served' = served \cup {r.of}
        /\ outbox' = IF via[r.of] = conn /\ peer = "up"
                     THEN outbox \o Frame(r, b) ELSE outbox
  BY DEF RouterAnswer
<1>2. UNCHANGED <<client, stream, peer>>
  BY DEF RouterAnswer
<1>3. r \in Request /\ Genuine(r, calls) /\ calls \in Nat
  BY ConstAssumption DEF TypeOK, WireInv
<1>4. Frame(r, b) \in Seq(Chunk) /\ GenuineSeq(Frame(r, b), calls)
  <2> DEFINE h == [of |-> r.of, msgid |-> r.msgid, body |-> b, part |-> "head"]
  <2> DEFINE t == [of |-> r.of, msgid |-> r.msgid, body |-> b, part |-> "tail"]
  <2>1. h \in Chunk /\ t \in Chunk
    BY <1>3 DEF Chunk, Request
  <2>2. Genuine(h, calls) /\ Genuine(t, calls)
    BY <1>3 DEF Genuine
  <2>3. Frame(r, b) = <<h, t>>
    BY DEF Frame
  <2> HIDE DEF h, t
  <2> QED BY <2>1, <2>2, <2>3 DEF GenuineSeq
<1>5. outbox' \in Seq(Chunk) /\ GenuineSeq(outbox', calls)
  BY <1>1, <1>3, <1>4, GenuineSeqFacts DEF TypeOK, WireInv
<1>6. TypeOK'
  <2>1. requests' \subseteq Request /\ served' \subseteq Calls
    BY <1>1, <1>3 DEF TypeOK, Request
  <2> QED BY <1>2, <1>5, <2>1 DEF TypeOK, client
<1>7. GenuineSeq(stream', calls) /\ GenuineSeq(unp', calls)
  BY <1>2 DEF client, WireInv
<1> QED BY <1>1, <1>2, <1>5, <1>6, <1>7, QuietIInv DEF client

LEMMA SocketIInv ==
  ASSUME IInv, Deliver \/ PeerClose
  PROVE  IInv'
<1> USE DEF IInv
<1>1. UNCHANGED <<client, requests, served>>
  BY DEF Deliver, PeerClose
<1>2. /\ outbox' \in Seq(Chunk) /\ GenuineSeq(outbox', calls)
      /\ stream' \in Seq(Chunk) /\ GenuineSeq(stream', calls)
  <2>1. CASE PeerClose
    BY <2>1 DEF PeerClose, TypeOK, WireInv, GenuineSeq
  <2>2. CASE Deliver
    <3>1. outbox \in Seq(Chunk) /\ stream \in Seq(Chunk) /\ outbox # <<>>
      BY <2>2 DEF Deliver, TypeOK
    <3>2. Head(outbox) \in Chunk /\ Genuine(Head(outbox), calls)
      BY <3>1 DEF WireInv, GenuineSeq
    <3>3. Tail(outbox) \in Seq(Chunk) /\ GenuineSeq(Tail(outbox), calls)
      BY <3>1 DEF WireInv, GenuineSeq
    <3>4. /\ Append(stream, Head(outbox)) \in Seq(Chunk)
          /\ GenuineSeq(Append(stream, Head(outbox)), calls)
      BY <3>1, <3>2 DEF WireInv, GenuineSeq
    <3> QED BY <2>2, <3>3, <3>4 DEF Deliver
  <2> QED BY <2>1, <2>2
<1>3. TypeOK'
  <2>1. peer' \in {"up", "down"}
    BY DEF Deliver, PeerClose, TypeOK
  <2> QED BY <1>1, <1>2, <2>1 DEF TypeOK, client
<1>4. GenuineSeq(unp', calls)
  BY <1>1 DEF client, WireInv
<1> QED BY <1>1, <1>2, <1>3, <1>4, QuietIInv DEF client

\* A call ends: with the answer of its own id, or with no answer.
LEMMA EndCallIInv ==
  ASSUME IInv, pc = "receive",
         NEW r \in Failures \cup {"ok"}, EndCall(r),
         UNCHANGED <<open, next_msgid, request_msgid, conn, calls, via,
                     requests, served, outbox, peer>>,
         stream' \in Seq(Chunk), GenuineSeq(stream', calls),
         \/ r # "ok" /\ UNCHANGED answer
         \/ \E c \in Chunk : /\ Genuine(c, calls) /\ c.msgid = request_msgid
                             /\ answer' = [answer EXCEPT ![calls] = c.of]
  PROVE  IInv'
<1> USE DEF IInv
<1>1. calls \in Calls /\ calls \in Nat /\ request_msgid = IdOf(calls)
  BY ConstAssumption DEF TypeOK, CounterInv, Calls
<1>2. pc' = "idle" /\ unp' = <<>> /\ outcome' = [outcome EXCEPT ![calls] = r]
  BY DEF EndCall
<1>3. TypeOK'
  <2>1. <<>> \in Seq(Chunk)
    OBVIOUS
  <2>2. outcome' \in [Calls -> Outcomes]
    BY <1>2 DEF TypeOK, Outcomes
  <2>3. answer' \in [Calls -> 0 .. MaxCalls]
    <3>1. \A c \in Chunk : c.of \in 0 .. MaxCalls
      BY DEF Chunk, Calls
    <3>2. answer \in [Calls -> 0 .. MaxCalls]
      BY DEF TypeOK
    <3> QED BY <3>1, <3>2
  <2> QED BY <1>2, <2>1, <2>2, <2>3 DEF TypeOK
<1>4. CounterInv'
  BY <1>2 DEF CounterInv
<1>5. WireInv'
  BY <1>2 DEF WireInv, GenuineSeq, Genuine, IdOf
<1>6. AnswerInv'
  <2> SUFFICES ASSUME NEW n \in Calls, outcome'[n] = "ok"
               PROVE  n <= calls' /\ answer'[n] \in 1 .. n /\ IdOf(answer'[n]) = IdOf(n)
    BY DEF AnswerInv, IdOf
  <2>1. CASE n = calls
    <3>1. r = "ok"
      BY <1>1, <1>2, <2>1 DEF TypeOK
    <3>2. PICK c \in Chunk : /\ Genuine(c, calls) /\ c.msgid = request_msgid
                             /\ answer' = [answer EXCEPT ![calls] = c.of]
      BY <3>1
    <3>3. answer'[n] = c.of
      BY <1>1, <2>1, <3>2 DEF TypeOK
    <3>4. c.of \in 1 .. n /\ IdOf(c.of) = IdOf(n)
      BY <1>1, <2>1, <3>2 DEF Genuine, Chunk, Calls
    <3> QED BY <1>1, <2>1, <3>3, <3>4
  <2>2. CASE n # calls
    <3>1. outcome[n] = "ok"
      BY <1>2, <2>2 DEF TypeOK
    <3>2. answer'[n] = answer[n]
      BY <2>2 DEF TypeOK
    <3> QED BY <3>1, <3>2 DEF AnswerInv
  <2> QED BY <2>1, <2>2
<1> QED BY <1>3, <1>4, <1>5, <1>6

LEMMA RecvIInv ==
  ASSUME IInv, Receive
  PROVE  IInv'
<1> USE DEF IInv
<1>1. CASE RecvTimeout
  BY <1>1, EndCallIInv DEF RecvTimeout, TypeOK, WireInv, Failures
<1>2. CASE RecvEof
  BY <1>2, EndCallIInv DEF RecvEof, TypeOK, WireInv, Failures
<1>3. CASE Recv
  <2> DEFINE buf == unp \o Taken
  <2>1. calls \in Nat
    BY ConstAssumption DEF TypeOK
  <2>2. /\ Taken \in Seq(Chunk) /\ GenuineSeq(Taken, calls)
        /\ stream' \in Seq(Chunk) /\ GenuineSeq(stream', calls)
    BY <1>3, <2>1, TakenLeft DEF Recv, TypeOK, WireInv
  <2>3. buf \in Seq(Chunk) /\ GenuineSeq(buf, calls)
    BY <2>1, <2>2, GenuineSeqFacts DEF TypeOK, WireInv
  <2>4. buf # <<>>
    <3>1. stream \in Seq(Chunk) /\ Len(stream) \in Nat /\ Len(stream) > 0
      BY <1>3 DEF Recv, TypeOK
    <3>2. Len(Taken) > 0
      BY <3>1, ConstAssumption DEF Taken
    <3>3. unp \in Seq(Chunk)
      BY DEF TypeOK
    <3> QED BY <2>2, <3>2, <3>3
  <2>5. PICK r \in Results(buf) :
          IF r = "wait"
          THEN unp' = buf /\ UNCHANGED <<pc, outcome, answer>>
          ELSE /\ EndCall(r)
               /\ answer' = IF r = "ok" THEN [answer EXCEPT ![calls] = Head(buf).of]
                            ELSE answer
    BY <1>3 DEF Recv
  <2>6. /\ pc = "receive"
        /\ UNCHANGED <<open, next_msgid, request_msgid, conn, calls, via,
                       requests, served, outbox, peer>>
    BY <1>3 DEF Recv
  <2> HIDE DEF buf
  <2>7. CASE r = "wait"
    <3>1. unp' = buf /\ UNCHANGED <<pc, outcome, answer>>
      BY <2>5, <2>7
    <3>2. TypeOK'
      BY <2>2, <2>3, <2>6, <3>1 DEF TypeOK
    <3> QED BY <2>2, <2>3, <2>6, <3>1, <3>2, QuietIInv DEF WireInv
  <2>8. CASE r # "wait"
    <3>1. r \in Failures \cup {"ok"}
      BY <2>5, <2>8 DEF Results, Verdict, Failures
    <3>2. Head(buf) \in Chunk /\ Genuine(Head(buf), calls)
      BY <2>3, <2>4 DEF GenuineSeq
    <3>3. r = "ok" => Head(buf).msgid = request_msgid
      BY <2>5 DEF Results, Verdict
    <3>4. EndCall(r)
      BY <2>5, <2>8
    <3>5. CASE r = "ok"
      <4>1. answer' = [answer EXCEPT ![calls] = Head(buf).of]
        BY <2>5, <3>5
      <4> QED BY <2>2, <2>6, <3>1, <3>2, <3>3, <3>4, <3>5, <4>1, EndCallIInv
    <3>6. CASE r # "ok"
      <4>1. UNCHANGED answer
        BY <2>5, <2>8, <3>6
      <4> QED BY <2>2, <2>6, <3>1, <3>4, <3>6, <4>1, EndCallIInv
    <3> QED BY <3>5, <3>6
  <2> QED BY <2>7, <2>8
<1> QED BY <1>1, <1>2, <1>3 DEF Receive

LEMMA StutterIInv ==
  ASSUME IInv, UNCHANGED vars
  PROVE  IInv'
BY DEF vars, IInv, TypeOK, CounterInv, WireInv, AnswerInv, GenuineSeq,
       Genuine, IdOf

LEMMA NextIInv ==
  ASSUME IInv, [Next]_vars
  PROVE  IInv'
BY StartCallIInv, ConnectionIInv, RecvIInv, RouterAnswerIInv, SocketIInv,
   StutterIInv DEF Next, Receive

LEMMA OwnAnswerFromIInv == IInv => OwnAnswer
<1> SUFFICES ASSUME IInv, NEW n \in Calls,
                    outcome[n] = "ok", n - answer[n] < IdSpace
             PROVE  answer[n] = n
  BY DEF OwnAnswer
<1>1. answer[n] \in 1 .. n /\ IdOf(answer[n]) = IdOf(n)
  BY DEF IInv, AnswerInv
<1>2. n \in Nat /\ answer[n] \in Nat
  BY <1>1, ConstAssumption DEF Calls
<1>3. n - 1 = answer[n] - 1
  <2> DEFINE a == n - 1
  <2> DEFINE b == answer[n] - 1
  <2>1. a \in Int /\ b \in Int /\ 0 <= a - b /\ a - b < IdSpace
    BY <1>1, <1>2, ConstAssumption
  <2>2. a % IdSpace = b % IdSpace
    BY <1>1 DEF IdOf
  <2> HIDE DEF a, b
  <2>3. a = b
    BY <2>1, <2>2, ConstAssumption, ModSame
  <2> QED BY <2>3 DEF a, b
<1> QED BY <1>2, <1>3

LEMMA InvariantIInv == Spec => []IInv
BY InitIInv, NextIInv, PTL DEF Spec

\* The state of the client, the socket and the router keeps its shape.
THEOREM TypeCorrect == Spec => []TypeOK
<1>1. IInv => TypeOK
  BY DEF IInv
<1> QED BY <1>1, InvariantIInv, PTL

\* Whatever the router delays, drops or answers out of order, whatever recv()
\* cuts or merges, over any number of calls and sockets: a value returned by
\* call() is the answer to its own request, up to a whole turn of the ids.
THEOREM OwnAnswerAlways == Spec => []OwnAnswer
BY InvariantIInv, OwnAnswerFromIInv, PTL
----------------------------------------------------------------------------
(* MismatchNeedsAbandoned: until a call on a socket gives up, the socket   *)
(* holds no more than the answer to the call in progress.                  *)

\* A call on socket s gave up.
Abandoned(s) ==
  \E m \in 1 .. calls : via[m] = s /\ outcome[m] \in {"timeout", "send"}

\* The chunks of s come after off others of the answer to the last call.
Piece(s, off) ==
  \A k \in 1 .. Len(s) :
    s[k].of = calls /\ s[k].part = IF off + k = 1 THEN "head" ELSE "tail"

Held == Len(unp) + Len(stream) + Len(outbox)

\* One answer at most, in one piece, and none left when its call has ended; a
\* request that could still be answered here is that of the call in progress.
Tidy ==
  /\ Piece(unp, 0)
  /\ Piece(stream, Len(unp))
  /\ Piece(outbox, Len(unp) + Len(stream))
  /\ Held <= 2
  /\ pc = "idle" => Held = 0
  /\ peer = "up" =>
       \A r \in requests :
         via[r.of] = conn => pc = "receive" /\ r.of = calls /\ Held = 0

\* Calls go to the current socket, and what a socket held goes with it.
ConnInv ==
  /\ pc = "idle" => unp = <<>>
  /\ peer = "down" => outbox = <<>>
  /\ \A n \in Calls : via[n] <= conn
  /\ \A n \in Calls : outcome[n] # "unused" => n <= calls
  /\ pc = "receive" => via[calls] = conn /\ outcome[calls] = "pending"

TidyInv == ~Abandoned(conn) => Tidy

AInv == IInv /\ ConnInv /\ TidyInv /\ MismatchNeedsAbandoned

\* What the types say of lengths and numbers.
LEMMA Sizes ==
  ASSUME TypeOK
  PROVE  /\ Len(unp) \in Nat /\ Len(stream) \in Nat /\ Len(outbox) \in Nat
         /\ Held \in Nat /\ calls \in Nat /\ conn \in Nat
         /\ \A n \in Calls : n \in Nat /\ via[n] \in Nat
         /\ pc \in {"idle", "receive"} /\ peer \in {"up", "down"}
<1>1. calls \in Nat /\ conn \in Nat /\ \A n \in Calls : n \in Nat /\ via[n] \in Nat
  BY ConstAssumption DEF TypeOK, Calls
<1> QED BY <1>1 DEF TypeOK, Held

\* A socket on which a call gave up stays one.
LEMMA AbandonedStays ==
  ASSUME TypeOK, NEW s, Abandoned(s), calls' \in Nat, calls <= calls',
         \A m \in 1 .. calls : via'[m] = via[m],
         \A m \in 1 .. calls :
           outcome[m] \in {"timeout", "send"} => outcome'[m] = outcome[m]
  PROVE  Abandoned(s)'
<1>1. PICK m \in 1 .. calls : via[m] = s /\ outcome[m] \in {"timeout", "send"}
  BY DEF Abandoned
<1>2. m \in 1 .. calls'
  BY <1>1, Sizes
<1>3. via'[m] = s /\ outcome'[m] \in {"timeout", "send"}
  BY <1>1
<1> QED BY <1>2, <1>3 DEF Abandoned

\* Nothing is left to be unpacked.
LEMMA NothingTidy ==
  ASSUME TypeOK', unp' = <<>>, stream' = <<>>, outbox' = <<>>,
         peer' = "up" =>
           \A r \in requests' : via'[r.of] = conn' => pc' = "receive" /\ r.of = calls'
  PROVE  Tidy'
BY DEF Tidy, Piece, Held

LEMMA InitAInv == Init => AInv
<1> SUFFICES ASSUME Init PROVE AInv
  OBVIOUS
<1>1. IInv
  BY InitIInv
<1>2. ConnInv
  BY DEF Init, ConnInv
<1>3. TidyInv
  BY DEF Init, TidyInv, Tidy, Piece, Held
<1>4. MismatchNeedsAbandoned
  BY DEF Init, MismatchNeedsAbandoned
<1> QED BY <1>1, <1>2, <1>3, <1>4 DEF AInv

\* No outcome becomes a mismatch, and none that explains one goes.
LEMMA MismatchKept ==
  ASSUME AInv,
         \A n \in Calls : outcome'[n] \in {"mismatch", "format"} => outcome'[n] = outcome[n],
         \A n \in Calls : n <= calls => via'[n] = via[n],
         \A n \in Calls : outcome[n] \in {"timeout", "send"} => outcome'[n] = outcome[n]
  PROVE  MismatchNeedsAbandoned'
<1> SUFFICES ASSUME NEW n \in Calls, outcome'[n] \in {"mismatch", "format"}
             PROVE  \E m \in 1 .. n - 1 :
                      via'[m] = via'[n] /\ outcome'[m] \in {"timeout", "send"}
  BY DEF MismatchNeedsAbandoned
<1>1. outcome[n] \in {"mismatch", "format"} /\ n <= calls
  BY DEF AInv, ConnInv
<1>2. PICK m \in 1 .. n - 1 : via[m] = via[n] /\ outcome[m] \in {"timeout", "send"}
  BY <1>1 DEF AInv, MismatchNeedsAbandoned
<1>3. m \in Calls /\ m <= calls
  BY <1>1, <1>2, Sizes, ConstAssumption DEF Calls, AInv, IInv
<1> QED BY <1>1, <1>2, <1>3

LEMMA StartCallAInv ==
  ASSUME AInv, IInv', CallSent \/ CallSendFails
  PROVE  AInv'
<1> USE DEF AInv
<1>0. TypeOK /\ TypeOK' /\ StartCall /\ pc = "idle"
  BY DEF IInv, CallSent, CallSendFails, StartCall
<1>1. /\ calls \in Nat /\ calls' = calls + 1 /\ calls' \in Calls
      /\ via' = [via EXCEPT ![calls'] = conn]
      /\ UNCHANGED <<open, conn, answer, served, outbox, stream, peer>>
  <2>1. calls \in 0 .. MaxCalls /\ calls < MaxCalls /\ calls' = calls + 1
    BY <1>0 DEF StartCall, TypeOK
  <2>2. calls \in Nat /\ calls' \in Calls
    BY <2>1, ConstAssumption DEF Calls
  <2>3. via' = [via EXCEPT ![calls'] = conn]
    BY <1>0, <2>1 DEF StartCall
  <2>4. UNCHANGED <<open, conn, answer, served, outbox, stream, peer>>
    BY DEF CallSent, CallSendFails
  <2> QED BY <2>1, <2>2, <2>3, <2>4
<1>2. \E o \in {"pending", "send"} : outcome' = [outcome EXCEPT ![calls'] = o]
  BY <1>1 DEF CallSent, CallSendFails
<1>3. \A n \in Calls : n <= calls => via'[n] = via[n] /\ outcome'[n] = outcome[n]
  BY <1>1, <1>2 DEF TypeOK, IInv
<1>4. ConnInv'
  <2>1. \A n \in Calls : via'[n] <= conn'
    BY <1>0, <1>1, Sizes DEF ConnInv, TypeOK
  <2>2. \A n \in Calls : outcome'[n] # "unused" => n <= calls'
    BY <1>0, <1>1, <1>2, Sizes DEF ConnInv, TypeOK
  <2>3. pc' = "idle" => unp' = <<>>
    BY <1>0 DEF CallSent, CallSendFails, ConnInv
  <2>4. pc' = "receive" => via'[calls'] = conn' /\ outcome'[calls'] = "pending"
    BY <1>0, <1>1 DEF CallSent, CallSendFails, TypeOK
  <2> QED BY <1>1, <2>1, <2>2, <2>3, <2>4 DEF ConnInv
<1>5. TidyInv'
  <2>1. CASE CallSendFails
    <3>1. outcome' = [outcome EXCEPT ![calls'] = "send"]
      BY <1>1, <2>1 DEF CallSendFails
    <3>2. calls' \in 1 .. calls' /\ via'[calls'] = conn' /\ outcome'[calls'] = "send"
      BY <1>0, <1>1, <3>1 DEF TypeOK
    <3> QED BY <3>2 DEF TidyInv, Abandoned
  <2>2. CASE CallSent
    <3> SUFFICES ASSUME ~Abandoned(conn)' PROVE Tidy'
      BY DEF TidyInv
    <3>1. ~Abandoned(conn)
      <4>1. \A m \in 1 .. calls : m \in Calls /\ m <= calls
        BY <1>1, ConstAssumption DEF Calls
      <4>2. /\ \A m \in 1 .. calls : via'[m] = via[m]
            /\ \A m \in 1 .. calls :
                 outcome[m] \in {"timeout", "send"} => outcome'[m] = outcome[m]
        BY <1>3, <4>1
      <4>3. calls' \in Nat /\ calls <= calls'
        BY <1>1
      <4>4. Abandoned(conn) => Abandoned(conn)'
        BY <1>0, <1>1, <4>2, <4>3 DEF Abandoned
      <4> QED BY <4>4
    <3>2. Tidy
      BY <3>1 DEF TidyInv
    <3>3. unp' = <<>> /\ stream' = <<>> /\ outbox' = <<>>
      BY <1>0, <1>1, <2>2, <3>2, Sizes DEF Tidy, Held, CallSent, TypeOK
    <3>4. ASSUME peer' = "up", NEW r \in requests', via'[r.of] = conn'
          PROVE  pc' = "receive" /\ r.of = calls'
      <4>1. pc' = "receive" /\ requests' = requests \cup {NewRequest}
        BY <2>2 DEF CallSent
      <4>2. CASE r \in requests
        <5>1. r.of \in Calls /\ r.of <= calls
          BY <4>2 DEF IInv, TypeOK, WireInv, Genuine, Request
        <5>2. via[r.of] = conn
          BY <1>1, <1>3, <3>4, <5>1
        <5> QED BY <1>0, <1>1, <3>2, <3>4, <4>2, <5>2 DEF Tidy
      <4>3. CASE r = NewRequest
        BY <1>1, <4>1, <4>3 DEF NewRequest
      <4> QED BY <4>1, <4>2, <4>3
    <3> QED BY <1>0, <3>3, <3>4, NothingTidy
  <2> QED BY <2>1, <2>2
<1>6. MismatchNeedsAbandoned'
  <2>1. \A n \in Calls : outcome'[n] \in {"mismatch", "format"} => outcome'[n] = outcome[n]
    BY <1>1, <1>2 DEF IInv, TypeOK
  <2>2. \A n \in Calls : outcome[n] \in {"timeout", "send"} => outcome'[n] = outcome[n]
    BY <1>3 DEF ConnInv
  <2> QED BY <1>3, <2>1, <2>2, MismatchKept
<1> QED BY <1>4, <1>5, <1>6

LEMMA ConnectionAInv ==
  ASSUME AInv, IInv', Connect \/ Close
  PROVE  AInv'
<1> USE DEF AInv
<1>0. TypeOK /\ TypeOK'
  BY DEF IInv
<1>1. /\ pc = "idle" /\ stream' = <<>> /\ outbox' = <<>>
      /\ UNCHANGED <<pc, calls, via, outcome, requests, unp>>
  BY DEF Connect, Close, DropSocket
<1>2. unp' = <<>>
  BY <1>1 DEF ConnInv
<1>3. conn' >= conn /\ (conn' = conn => peer' = "down")
  BY <1>0, Sizes DEF Connect, Close
<1>4. ConnInv'
  <2>1. \A n \in Calls : via'[n] <= conn'
    BY <1>0, <1>1, <1>3, Sizes DEF ConnInv, TypeOK
  <2> QED BY <1>1, <1>2, <2>1 DEF ConnInv
<1>5. Tidy'
  <2>1. ASSUME peer' = "up", NEW r \in requests', via'[r.of] = conn' PROVE FALSE
    <3>1. r.of \in Calls /\ via[r.of] <= conn
      BY <1>0, <1>1 DEF ConnInv, TypeOK, Request
    <3>2. conn' > conn
      BY <1>0, <1>3, <2>1, Sizes DEF TypeOK
    <3> QED BY <1>0, <1>1, <2>1, <3>1, <3>2, Sizes
  <2> QED BY <1>0, <1>1, <1>2, <2>1, NothingTidy
<1>6. MismatchNeedsAbandoned'
  BY <1>1 DEF MismatchNeedsAbandoned
<1> QED BY <1>4, <1>5, <1>6 DEF TidyInv

LEMMA RouterAnswerAInv ==
  ASSUME AInv, IInv', RouterAnswer
  PROVE  AInv'
<1> USE DEF AInv
<1>0. TypeOK /\ TypeOK'
  BY DEF IInv
<1>1. UNCHANGED <<pc, unp, conn, calls, via, outcome, stream, peer>>
  BY DEF RouterAnswer, client
<1>2. PICK r \in requests, b \in Bodies :
        /\ requests' = requests \ {r}
        /\ outbox' = IF via[r.of] = conn /\ peer = "up"
                     THEN outbox \o Frame(r, b) ELSE outbox
  BY DEF RouterAnswer
<1>3. ConnInv'
  BY <1>1, <1>2 DEF ConnInv
<1>4. TidyInv'
  <2> SUFFICES ASSUME ~Abandoned(conn)' PROVE Tidy'
    BY DEF TidyInv
  <2>1. Tidy
    BY <1>1 DEF TidyInv, Abandoned
  <2>2. CASE ~(via[r.of] = conn /\ peer = "up")
    BY <1>1, <1>2, <2>1, <2>2 DEF Tidy, Piece, Held
  <2>3. CASE via[r.of] = conn /\ peer = "up"
    <3>1. pc = "receive" /\ r.of = calls /\ Held = 0
      BY <2>1, <2>3 DEF Tidy
    <3>2. unp = <<>> /\ stream = <<>> /\ outbox = <<>>
      BY <1>0, <3>1, Sizes DEF Held, TypeOK
    <3>3. outbox' = Frame(r, b)
      BY <1>2, <2>3, <3>2 DEF Frame
    <3>4. /\ Len(outbox') = 2 /\ outbox'[1].of = calls /\ outbox'[2].of = calls
          /\ outbox'[1].part = "head" /\ outbox'[2].part = "tail"
      BY <3>1, <3>3 DEF Frame
    <3>5. /\ Piece(unp, 0)' /\ Piece(stream, Len(unp))' /\ Piece(outbox, Len(unp) + Len(stream))'
          /\ Held' = 2
      BY <1>1, <3>2, <3>4 DEF Piece, Held
    <3>6. ASSUME NEW q \in requests', via'[q.of] = conn' PROVE FALSE
      <4>1. q \in requests /\ q # r /\ q.of = calls
        BY <1>1, <1>2, <2>1, <2>3, <3>6 DEF Tidy
      <4>2. q.msgid = r.msgid /\ q \in Request /\ r \in Request
        BY <1>0, <3>1, <4>1 DEF TypeOK, IInv, WireInv, Genuine
      <4> QED BY <3>1, <4>1, <4>2 DEF Request
    <3> QED BY <1>1, <3>1, <3>5, <3>6 DEF Tidy
  <2> QED BY <2>2, <2>3
<1>5. MismatchNeedsAbandoned'
  BY <1>1 DEF MismatchNeedsAbandoned
<1> QED BY <1>3, <1>4, <1>5

LEMMA SocketAInv ==
  ASSUME AInv, IInv', Deliver \/ PeerClose
  PROVE  AInv'
<1> USE DEF AInv
<1>0. TypeOK /\ TypeOK'
  BY DEF IInv
<1>1. UNCHANGED <<pc, unp, conn, calls, via, outcome, requests>>
  BY DEF Deliver, PeerClose, client
<1>2. ConnInv'
  BY <1>0, <1>1 DEF ConnInv, Deliver, PeerClose, TypeOK
<1>3. TidyInv'
  <2> SUFFICES ASSUME ~Abandoned(conn)' PROVE Tidy'
    BY DEF TidyInv
  <2>1. Tidy
    BY <1>1 DEF TidyInv, Abandoned
  <2>2. CASE PeerClose
    <3>1. stream' = stream /\ outbox' = <<>> /\ peer' = "down"
      BY <2>2 DEF PeerClose
    <3>2. Held' <= Held
      BY <1>0, <1>1, <3>1, Sizes DEF Held
    <3>3. Held' \in Nat /\ Held \in Nat
      BY <1>0, <1>1, <3>1, Sizes DEF Held
    <3>4. Held' <= 2 /\ (pc' = "idle" => Held' = 0)
      BY <1>1, <2>1, <3>2, <3>3 DEF Tidy
    <3> QED BY <1>1, <2>1, <3>1, <3>4 DEF Tidy, Piece
  <2>3. CASE Deliver
    <3>0. Len(unp) \in Nat /\ Len(stream) \in Nat /\ Len(outbox) \in Nat
      BY <1>0, Sizes
    <3>1. outbox # <<>> /\ stream' = Append(stream, Head(outbox)) /\ outbox' = Tail(outbox)
          /\ peer' = peer
      BY <2>3 DEF Deliver
    <3>2. /\ outbox \in Seq(Chunk) /\ stream \in Seq(Chunk)
      BY <1>0 DEF TypeOK
    <3>3. /\ Len(stream') = Len(stream) + 1 /\ Len(outbox') = Len(outbox) - 1
          /\ Len(outbox) > 0
          /\ \A k \in 1 .. Len(stream) : stream'[k] = stream[k]
          /\ stream'[Len(stream) + 1] = outbox[1]
          /\ \A k \in 1 .. Len(outbox') : outbox'[k] = outbox[k + 1]
      BY <3>1, <3>2
    <3>4. Held' = Held
      BY <1>0, <1>1, <3>3, Sizes DEF Held
    <3>5. Piece(stream, Len(unp))'
      <4> SUFFICES ASSUME NEW k \in 1 .. Len(stream')
                   PROVE  stream'[k].of = calls
                          /\ stream'[k].part = IF Len(unp) + k = 1 THEN "head" ELSE "tail"
        BY <1>1 DEF Piece
      <4>1. /\ \A j \in 1 .. Len(stream) :
                 stream[j].of = calls
                 /\ stream[j].part = IF Len(unp) + j = 1 THEN "head" ELSE "tail"
            /\ \A j \in 1 .. Len(outbox) :
                 outbox[j].of = calls
                 /\ outbox[j].part =
                      IF Len(unp) + Len(stream) + j = 1 THEN "head" ELSE "tail"
        BY <2>1 DEF Tidy, Piece
      <4>2. CASE k <= Len(stream)
        <5>1. k \in 1 .. Len(stream) /\ stream'[k] = stream[k]
          BY <3>0, <3>3, <4>2
        <5> QED BY <4>1, <5>1
      <4>3. CASE k > Len(stream)
        <5>1. k = Len(stream) + 1 /\ 1 \in 1 .. Len(outbox) /\ stream'[k] = outbox[1]
          BY <3>3, <4>3, <3>0
        <5>2. Len(unp) + k = Len(unp) + Len(stream) + 1
          BY <5>1, <3>0
        <5> QED BY <4>1, <5>1, <5>2
      <4> QED BY <3>0, <3>3, <4>2, <4>3
    <3>6. Piece(outbox, Len(unp) + Len(stream))'
      <4> SUFFICES ASSUME NEW k \in 1 .. Len(outbox')
                   PROVE  outbox'[k].of = calls
                          /\ outbox'[k].part =
                               IF Len(unp) + Len(stream') + k = 1 THEN "head" ELSE "tail"
        BY <1>1 DEF Piece
      <4>1. \A j \in 1 .. Len(outbox) :
              outbox[j].of = calls
              /\ outbox[j].part =
                   IF Len(unp) + Len(stream) + j = 1 THEN "head" ELSE "tail"
        BY <2>1 DEF Tidy, Piece
      <4>2. k + 1 \in 1 .. Len(outbox) /\ outbox'[k] = outbox[k + 1]
            /\ Len(unp) + Len(stream') + k = Len(unp) + Len(stream) + (k + 1)
        BY <3>0, <3>3
      <4> QED BY <4>1, <4>2
    <3>7. Piece(unp, 0)'
      BY <1>1, <2>1 DEF Tidy, Piece
    <3> QED BY <1>1, <2>1, <3>1, <3>4, <3>5, <3>6, <3>7 DEF Tidy
  <2> QED BY <2>2, <2>3
<1>4. MismatchNeedsAbandoned'
  BY <1>1 DEF MismatchNeedsAbandoned
<1> QED BY <1>2, <1>3, <1>4

\* The call in progress ends, and the socket is as it should be, if it was.
LEMMA EndCallAInv ==
  ASSUME AInv, IInv', pc = "receive",
         NEW o \in Failures \cup {"ok"}, EndCall(o),
         UNCHANGED <<conn, calls, via, requests, outbox, peer>>,
         ~Abandoned(conn) => o \notin {"mismatch", "format"},
         ~Abandoned(conn) /\ o # "timeout" => Tidy'
  PROVE  AInv'
<1> USE DEF AInv
<1>0. TypeOK /\ TypeOK' /\ calls \in Calls /\ calls \in Nat
  <2>1. TypeOK /\ TypeOK' /\ calls > 0
    BY DEF IInv, CounterInv
  <2>2. calls \in 0 .. MaxCalls
    BY <2>1 DEF TypeOK
  <2> QED BY <2>1, <2>2, ConstAssumption DEF Calls
<1>1. pc' = "idle" /\ unp' = <<>> /\ outcome' = [outcome EXCEPT ![calls] = o]
  BY DEF EndCall
<1>2. outcome[calls] = "pending" /\ via[calls] = conn
  BY DEF ConnInv
<1>3. \A n \in Calls : n # calls => outcome'[n] = outcome[n]
  BY <1>0, <1>1 DEF TypeOK
<1>4. outcome'[calls] = o
  BY <1>0, <1>1 DEF TypeOK
<1>5. ConnInv'
  BY <1>0, <1>1, <1>3, Sizes DEF ConnInv
<1>6. Abandoned(conn) => Abandoned(conn)'
  <2>1. \A m \in 1 .. calls : m \in Calls
    BY <1>0, ConstAssumption DEF Calls
  <2>2. \A m \in 1 .. calls : outcome[m] \in {"timeout", "send"} => outcome'[m] = outcome[m]
    BY <1>2, <1>3, <2>1
  <2> QED BY <2>2 DEF Abandoned
<1>7. TidyInv'
  <2>1. CASE o = "timeout"
    <3>1. calls' \in 1 .. calls' /\ via'[calls'] = conn' /\ outcome'[calls'] = "timeout"
      BY <1>0, <1>2, <1>4, <2>1 DEF Calls
    <3> QED BY <3>1 DEF TidyInv, Abandoned
  <2>2. CASE o # "timeout"
    BY <1>6, <2>2 DEF TidyInv
  <2> QED BY <2>1, <2>2
<1>8. MismatchNeedsAbandoned'
  <2> SUFFICES ASSUME NEW n \in Calls, outcome'[n] \in {"mismatch", "format"}
               PROVE  \E m \in 1 .. n - 1 :
                        via'[m] = via'[n] /\ outcome'[m] \in {"timeout", "send"}
    BY DEF MismatchNeedsAbandoned
  <2>1. CASE n = calls
    <3>1. Abandoned(conn)
      BY <1>4, <2>1
    <3>2. PICK m \in 1 .. calls : via[m] = conn /\ outcome[m] \in {"timeout", "send"}
      BY <3>1 DEF Abandoned
    <3>3. m # calls /\ m \in Calls /\ m \in 1 .. n - 1
      BY <1>0, <1>2, <2>1, <3>2, ConstAssumption DEF Calls
    <3>4. outcome'[m] = outcome[m]
      BY <1>3, <3>3
    <3> QED BY <1>2, <2>1, <3>2, <3>3, <3>4
  <2>2. CASE n # calls
    <3>1. outcome[n] \in {"mismatch", "format"}
      BY <1>3, <2>2
    <3>2. PICK m \in 1 .. n - 1 : via[m] = via[n] /\ outcome[m] \in {"timeout", "send"}
      BY <3>1 DEF MismatchNeedsAbandoned
    <3>3. m \in Calls /\ m # calls
      BY <1>0, <1>2, <3>2, ConstAssumption DEF Calls
    <3> QED BY <1>3, <3>2, <3>3
  <2> QED BY <2>1, <2>2
<1> QED BY <1>5, <1>7, <1>8

\* Where the chunks of the unpacker and of the stream are after a recv().
LEMMA TakenPieces ==
  ASSUME TypeOK, Piece(unp, 0), Piece(stream, Len(unp)), stream # <<>>
  PROVE  /\ unp \o Taken \in Seq(Chunk)
         /\ Len(unp \o Taken) > 0
         /\ Len(unp \o Taken) + Len(Left) = Len(unp) + Len(stream)
         /\ Left \in Seq(Chunk)
         /\ Piece(unp \o Taken, 0)
         /\ Piece(Left, Len(unp \o Taken))
<1> DEFINE n == IF Len(stream) < RecvCap THEN Len(stream) ELSE RecvCap
<1> DEFINE buf == unp \o Taken
<1>1. n \in 1 .. Len(stream) /\ stream \in Seq(Chunk) /\ unp \in Seq(Chunk)
  BY ConstAssumption DEF TypeOK
<1>2. Taken = SubSeq(stream, 1, n)
  BY DEF Taken
<1> HIDE DEF n
<1>3. /\ Taken \in Seq(Chunk) /\ Len(Taken) = n
      /\ \A k \in 1 .. n : Taken[k] = stream[k]
  BY <1>1, <1>2
<1>4. Left = SubSeq(stream, n + 1, Len(stream))
  BY <1>3 DEF Left
<1>5. /\ Left \in Seq(Chunk) /\ Len(Left) = Len(stream) - n
      /\ \A k \in 1 .. Len(Left) : Left[k] = stream[n + k] /\ n + k \in 1 .. Len(stream)
  BY <1>1, <1>4
<1>6. /\ buf \in Seq(Chunk) /\ Len(buf) = Len(unp) + n
      /\ \A k \in 1 .. Len(unp) : buf[k] = unp[k]
      /\ \A k \in Len(unp) + 1 .. Len(buf) :
           buf[k] = stream[k - Len(unp)] /\ k - Len(unp) \in 1 .. n
  BY <1>1, <1>3
<1>7. Len(unp) \in Nat /\ Len(stream) \in Nat
  BY <1>1
<1> HIDE DEF buf
<1>8. Piece(buf, 0)
  <2> SUFFICES ASSUME NEW k \in 1 .. Len(buf)
               PROVE  buf[k].of = calls
                      /\ buf[k].part = IF 0 + k = 1 THEN "head" ELSE "tail"
    BY DEF Piece
  <2>1. CASE k <= Len(unp)
    BY <1>6, <1>7, <2>1 DEF Piece
  <2>2. CASE k > Len(unp)
    <3>1. /\ buf[k] = stream[k - Len(unp)] /\ k - Len(unp) \in 1 .. Len(stream)
          /\ Len(unp) + (k - Len(unp)) = k
      BY <1>1, <1>6, <1>7, <2>2
    <3> QED BY <3>1 DEF Piece
  <2> QED BY <1>6, <1>7, <2>1, <2>2
<1>9. Piece(Left, Len(buf))
  <2> SUFFICES ASSUME NEW k \in 1 .. Len(Left)
               PROVE  Left[k].of = calls
                      /\ Left[k].part = IF Len(buf) + k = 1 THEN "head" ELSE "tail"
    BY DEF Piece
  <2>1. Left[k] = stream[n + k] /\ n + k \in 1 .. Len(stream)
    BY <1>5
  <2>2. Len(unp) + (n + k) = Len(buf) + k
    BY <1>1, <1>5, <1>6, <1>7
  <2> QED BY <2>1, <2>2 DEF Piece
<1>10. Len(buf) > 0 /\ Len(buf) + Len(Left) = Len(unp) + Len(stream)
  BY <1>1, <1>5, <1>6, <1>7
<1> QED BY <1>5, <1>6, <1>8, <1>9, <1>10 DEF buf

LEMMA RecvAInv ==
  ASSUME AInv, IInv', Recv
  PROVE  AInv'
<1> USE DEF AInv
<1> DEFINE buf == unp \o Taken
<1>0. TypeOK /\ TypeOK'
  BY DEF IInv
<1>1. /\ pc = "receive" /\ stream # <<>> /\ stream' = Left
      /\ UNCHANGED <<conn, calls, via, requests, outbox, peer>>
  BY DEF Recv
<1>2. PICK o \in Results(buf) :
        IF o = "wait" THEN unp' = buf /\ UNCHANGED <<pc, outcome>> ELSE EndCall(o)
  BY DEF Recv
<1>3. calls \in Nat /\ request_msgid = IdOf(calls)
  BY <1>0, <1>1, Sizes DEF IInv, CounterInv
<1>4. ASSUME ~Abandoned(conn)
      PROVE  /\ Tidy
             /\ buf \in Seq(Chunk) /\ Len(buf) > 0 /\ Len(buf) <= 2
             /\ Len(buf) + Len(Left) = Len(unp) + Len(stream)
             /\ Left \in Seq(Chunk)
             /\ Piece(buf, 0) /\ Piece(Left, Len(buf))
  <2>1. Tidy
    BY <1>4 DEF TidyInv
  <2>2. /\ buf \in Seq(Chunk) /\ Len(buf) > 0
        /\ Len(buf) + Len(Left) = Len(unp) + Len(stream)
        /\ Left \in Seq(Chunk) /\ Piece(buf, 0) /\ Piece(Left, Len(buf))
    BY <1>0, <1>1, <2>1, TakenPieces DEF Tidy
  <2>3. Len(buf) <= 2
    <3>1. Len(buf) \in Nat /\ Len(Left) \in Nat
      BY <2>2
    <3> QED BY <1>0, <2>1, <2>2, <3>1, Sizes DEF Tidy, Held
  <2> QED BY <2>1, <2>2, <2>3
<1>5. ASSUME ~Abandoned(conn)
      PROVE  (Len(buf) = 1 /\ o = "wait") \/ (Len(buf) = 2 /\ o \in {"ok", "rpc", "value"})
  <2>1. Head(buf) = buf[1] /\ Head(buf).part = "head" /\ Head(buf).of = calls
    BY <1>4, <1>5 DEF Piece
  <2>2. CASE Len(buf) = 1
    BY <1>2, <2>1, <2>2 DEF Results
  <2>3. CASE Len(buf) # 1
    <3>1. Len(buf) = 2
      BY <1>4, <1>5, <2>3
    <3>2. GenuineSeq(buf, calls)
      BY <1>0, <1>3, TakenLeft, GenuineSeqFacts DEF IInv, WireInv, TypeOK
    <3>3. Head(buf).msgid = request_msgid
      BY <1>3, <2>1, <3>1, <3>2 DEF GenuineSeq, Genuine
    <3>4. o = Verdict(Head(buf))
      BY <1>2, <2>1, <2>3 DEF Results
    <3> QED BY <3>1, <3>3, <3>4 DEF Verdict
  <2> QED BY <2>2, <2>3
<1> HIDE DEF buf
<1>6. CASE o = "wait"
  <2>1. unp' = buf /\ UNCHANGED <<pc, outcome>>
    BY <1>2, <1>6
  <2>2. ConnInv'
    BY <1>1, <2>1 DEF ConnInv
  <2>3. TidyInv'
    <3> SUFFICES ASSUME ~Abandoned(conn)' PROVE Tidy'
      BY DEF TidyInv
    <3>1. ~Abandoned(conn)
      BY <1>1, <2>1 DEF Abandoned
    <3>2. Held' = Held
      BY <1>0, <1>1, <1>4, <2>1, <3>1, Sizes DEF Held
    <3>3. Piece(unp, 0)' /\ Piece(stream, Len(unp))'
      BY <1>1, <1>4, <2>1, <3>1 DEF Piece
    <3>4. Piece(outbox, Len(unp) + Len(stream))'
      <4>1. Len(unp') + Len(stream') = Len(unp) + Len(stream)
        BY <1>1, <1>4, <2>1, <3>1
      <4>2. Piece(outbox, Len(unp) + Len(stream))
        BY <1>4, <3>1 DEF Tidy
      <4> QED BY <1>1, <4>1, <4>2 DEF Piece
    <3> QED BY <1>1, <1>4, <2>1, <3>1, <3>2, <3>3, <3>4 DEF Tidy
  <2>4. MismatchNeedsAbandoned'
    BY <1>1, <2>1 DEF MismatchNeedsAbandoned
  <2> QED BY <2>2, <2>3, <2>4
<1>7. CASE o # "wait"
  <2>1. EndCall(o)
    BY <1>2, <1>7
  <2>2. o \in Failures \cup {"ok"}
    BY <1>2, <1>7 DEF Results, Verdict, Failures
  <2>3. ~Abandoned(conn) => o \notin {"mismatch", "format"}
    BY <1>5
  <2>4. ASSUME ~Abandoned(conn) PROVE Tidy'
    <3>1. Tidy /\ Len(buf) = 2
      BY <1>4, <1>5, <1>7, <2>4
    <3>2. Held = 2 + Len(Left) + Len(outbox) /\ Len(Left) \in Nat /\ Len(outbox) \in Nat
      BY <1>0, <1>4, <2>4, <3>1, Sizes DEF Held
    <3>3. Held = 2 /\ Len(Left) = 0 /\ Len(outbox) = 0
      BY <3>1, <3>2 DEF Tidy
    <3>4. unp' = <<>> /\ stream' = <<>> /\ outbox' = <<>>
      BY <1>0, <1>1, <1>4, <2>1, <2>4, <3>3 DEF EndCall, TypeOK
    <3>5. peer' = "up" => \A r \in requests' : via'[r.of] # conn'
      BY <1>1, <3>1, <3>3 DEF Tidy
    <3> QED BY <1>0, <3>4, <3>5, NothingTidy
  <2> QED BY <1>1, <2>1, <2>2, <2>3, <2>4, EndCallAInv
<1> QED BY <1>6, <1>7

LEMMA GiveUpAInv ==
  ASSUME AInv, IInv', RecvTimeout \/ RecvEof
  PROVE  AInv'
<1>1. CASE RecvTimeout
  <2>1. /\ pc = "receive" /\ EndCall("timeout")
        /\ UNCHANGED <<conn, calls, via, requests, outbox, peer>>
    BY <1>1 DEF RecvTimeout
  <2> QED BY <2>1, EndCallAInv DEF Failures
<1>2. CASE RecvEof
  <2>1. /\ pc = "receive" /\ EndCall("closed") /\ peer = "down"
        /\ stream = <<>> /\ stream' = stream
        /\ UNCHANGED <<conn, calls, via, requests, outbox, peer>>
    BY <1>2 DEF RecvEof
  <2>2. Tidy'
    BY <2>1, NothingTidy DEF AInv, IInv, ConnInv, EndCall
  <2> QED BY <2>1, <2>2, EndCallAInv DEF Failures
<1> QED BY <1>1, <1>2

LEMMA NextAInv ==
  ASSUME AInv, [Next]_vars
  PROVE  AInv'
<1>1. IInv'
  BY NextIInv DEF AInv
<1>2. CASE UNCHANGED vars
  <2>1. ConnInv' /\ MismatchNeedsAbandoned'
    BY <1>2 DEF vars, AInv, ConnInv, MismatchNeedsAbandoned
  <2>2. TidyInv'
    BY <1>2 DEF vars, AInv, TidyInv, Abandoned, Tidy, Piece, Held
  <2> QED BY <1>1, <2>1, <2>2 DEF AInv
<1> QED BY <1>1, <1>2, StartCallAInv, ConnectionAInv, RouterAnswerAInv, SocketAInv,
        RecvAInv, GiveUpAInv DEF Next

LEMMA InvariantAInv == Spec => []AInv
BY InitAInv, NextAInv, PTL DEF Spec

\* Whatever the router sends, however recv() cuts or merges it, over any number
\* of calls and sockets: a call that finds what is not its answer comes after
\* one on the same socket that gave up.
THEOREM MismatchAlwaysFromAbandoned == Spec => []MismatchNeedsAbandoned
<1>1. AInv => MismatchNeedsAbandoned
  BY DEF AInv
<1> QED BY <1>1, InvariantAInv, PTL
----------------------------------------------------------------------------
(* What the users of the client build upon: while the ids do not wrap,     *)
(* RpcClient implements RpcCall.                                           *)

\* Every chunk of s belongs to the answer to one of the calls in S.
Among(s, S) == \A i \in 1 .. Len(s) : s[i].of \in S

\* A request is served once: one that waits was not, and what is on its way,
\* or was returned, is the answer to one that was.
ServedInv ==
  /\ \A r \in requests : r.of \notin served
  /\ \A n \in served : n <= calls
  /\ Among(outbox, served) /\ Among(stream, served) /\ Among(unp, served)
  /\ \A n \in Calls : outcome[n] = "ok" => answer[n] \in served

\* Calls are made in order, and only the last one can be unfinished.
OrderInv ==
  /\ \A n \in Calls : outcome[n] = "unused" <=> n > calls
  /\ \A n \in Calls : outcome[n] = "pending" => n = calls /\ pc = "receive"

RInv == AInv /\ ServedInv /\ OrderInv
----------------------------------------------------------------------------
LEMMA AmongFacts ==
  ASSUME NEW S, NEW s \in Seq(Chunk), NEW t \in Seq(Chunk), Among(s, S), Among(t, S)
  PROVE  /\ s \o t \in Seq(Chunk) /\ Among(s \o t, S)
         /\ \A T : S \subseteq T => Among(s, T)
<1>1. s \o t \in Seq(Chunk)
  OBVIOUS
<1>2. ASSUME NEW i \in 1 .. Len(s \o t) PROVE (s \o t)[i].of \in S
  <2>1. CASE i <= Len(s)
    <3>1. (s \o t)[i] = s[i] /\ i \in 1 .. Len(s)
      BY <2>1
    <3> QED BY <3>1 DEF Among
  <2>2. CASE i > Len(s)
    <3>1. (s \o t)[i] = t[i - Len(s)] /\ i - Len(s) \in 1 .. Len(t)
      BY <2>2
    <3> QED BY <3>1 DEF Among
  <2> QED BY <2>1, <2>2
<1> QED BY <1>1, <1>2 DEF Among

\* The two parts of the stream at a recv().
LEMMA TakenAmong ==
  ASSUME stream \in Seq(Chunk), NEW S, Among(stream, S)
  PROVE  Among(Taken, S) /\ Among(Left, S)
<1> DEFINE k == IF Len(stream) < RecvCap THEN Len(stream) ELSE RecvCap
<1>1. k \in 0 .. Len(stream) /\ Len(stream) \in Nat
  BY ConstAssumption
<1> HIDE DEF k
<1>2. Taken = SubSeq(stream, 1, k)
  BY DEF Taken, k
<1>3. Len(Taken) = k /\ \A i \in 1 .. k : Taken[i] = stream[i]
  BY <1>1, <1>2
<1>4. Left = SubSeq(stream, k + 1, Len(stream))
  BY <1>3 DEF Left
<1>5. /\ Len(Left) = Len(stream) - k
      /\ \A i \in 1 .. Len(Left) : Left[i] = stream[k + i] /\ k + i \in 1 .. Len(stream)
  BY <1>1, <1>4
<1> QED BY <1>1, <1>3, <1>5 DEF Among

LEMMA InitRInv == Init => RInv
<1> SUFFICES ASSUME Init PROVE RInv
  OBVIOUS
<1>1. AInv
  BY InitAInv
<1>2. ServedInv
  BY DEF Init, ServedInv, Among
<1>3. OrderInv
  BY ConstAssumption DEF Init, OrderInv, Calls
<1> QED BY <1>1, <1>2, <1>3 DEF RInv

LEMMA StartRInv ==
  ASSUME RInv, AInv', CallSent \/ CallSendFails
  PROVE  /\ RInv'
         /\ \E s \in {"pending", "failed"} : Status' = [Status EXCEPT ![calls + 1] = s]
         /\ calls + 1 \in Calls /\ UNCHANGED served
<1> USE DEF RInv, AInv, IInv
<1>1. /\ StartCall /\ pc = "idle" /\ calls' = calls + 1
      /\ UNCHANGED <<answer, served, outbox, stream>>
      /\ unp' = unp \/ unp' = <<>>
      /\ requests' = requests \/ requests' = requests \cup {NewRequest}
  BY DEF CallSent, CallSendFails, StartCall
<1>2. calls \in Nat /\ calls' \in Calls
  BY <1>1, StartCallFacts, ConstAssumption DEF TypeOK
<1>3. PICK o \in {"pending", "send"} :
        outcome' = [outcome EXCEPT ![calls'] = o] /\ (o = "pending" => pc' = "receive")
  BY <1>1 DEF CallSent, CallSendFails
<1>4. outcome'[calls'] = o /\ \A n \in Calls : n # calls' => outcome'[n] = outcome[n]
  BY <1>2, <1>3 DEF TypeOK
<1>5. ServedInv'
  <2>1. \A n \in served' : n <= calls'
    BY <1>1, <1>2 DEF ServedInv, TypeOK, Calls
  <2>2. NewRequest.of \notin served
    BY <1>1, <1>2 DEF ServedInv, NewRequest
  <2>3. \A r \in requests' : r.of \notin served'
    BY <1>1, <2>2 DEF ServedInv
  <2>4. \A n \in Calls : outcome'[n] = "ok" => answer'[n] \in served'
    BY <1>1, <1>4 DEF ServedInv
  <2>5. Among(outbox, served)' /\ Among(stream, served)' /\ Among(unp, served)'
    BY <1>1 DEF ServedInv, Among
  <2> QED BY <2>1, <2>3, <2>4, <2>5 DEF ServedInv
<1>6. OrderInv'
  <2>1. \A n \in Calls : outcome'[n] = "unused" <=> n > calls'
    BY <1>1, <1>2, <1>4 DEF OrderInv, Calls
  <2>2. \A n \in Calls : outcome'[n] = "pending" => n = calls' /\ pc' = "receive"
    BY <1>1, <1>2, <1>3, <1>4 DEF OrderInv
  <2> QED BY <2>1, <2>2 DEF OrderInv
<1>7. Status' = [Status EXCEPT ![calls'] = IF o = "pending" THEN "pending" ELSE "failed"]
  BY <1>2, <1>3, <1>4 DEF Status
<1> QED BY <1>1, <1>2, <1>5, <1>6, <1>7

\* What neither starts nor ends a call, and is no answer of the router.
LEMMA QuietRInv ==
  ASSUME RInv, AInv',
         UNCHANGED <<pc, calls, outcome, answer, requests, served>>,
         Among(outbox', served), Among(stream', served), Among(unp', served)
  PROVE  RInv' /\ UNCHANGED <<Status, served>>
<1>1. ServedInv' /\ OrderInv'
  BY DEF RInv, ServedInv, OrderInv, Among
<1>2. UNCHANGED Status
  BY DEF Status
<1> QED BY <1>1, <1>2 DEF RInv

LEMMA AnswerRInv ==
  ASSUME RInv, AInv', RouterAnswer
  PROVE  RInv' /\ UNCHANGED Status
         /\ \E n \in Calls : Status[n] # "unused" /\ n \notin served
                             /\ served' = served \cup {n}
<1> USE DEF RInv, AInv, IInv
<1>1. PICK r \in requests, b \in Bodies :
        /\ requests' = requests \ {r}
        /\ served' = served \cup {r.of}
        /\ outbox' \in {outbox, outbox \o Frame(r, b)}
  BY DEF RouterAnswer
<1>2. UNCHANGED <<pc, unp, calls, outcome, answer, stream>>
  BY DEF RouterAnswer, client
<1>3. /\ r \in Request /\ r.of \in Calls /\ r.of <= calls /\ r.of \notin served
      /\ r.msgid = IdOf(r.of)
  BY DEF TypeOK, WireInv, Genuine, Request, ServedInv
<1>4. \A q \in requests' : q.of \notin served'
  <2> SUFFICES ASSUME NEW q \in requests' PROVE q.of # r.of
    BY <1>1 DEF ServedInv
  <2>1. q \in Request /\ q # r /\ q.msgid = IdOf(q.of)
    BY <1>1 DEF TypeOK, WireInv, Genuine
  <2> QED BY <1>3, <2>1 DEF Request
<1>5. Among(outbox', served')
  <2>1. Among(outbox, served') /\ outbox \in Seq(Chunk)
    BY <1>1 DEF ServedInv, Among, TypeOK
  <2>2. CASE outbox' = outbox \o Frame(r, b)
    <3> DEFINE h == [of |-> r.of, msgid |-> r.msgid, body |-> b, part |-> "head"]
    <3> DEFINE t == [of |-> r.of, msgid |-> r.msgid, body |-> b, part |-> "tail"]
    <3>1. h \in Chunk /\ t \in Chunk /\ h.of \in served' /\ t.of \in served'
      BY <1>1, <1>3 DEF Chunk, Request
    <3>2. Frame(r, b) = <<h, t>>
      BY DEF Frame
    <3> HIDE DEF h, t
    <3>3. Frame(r, b) \in Seq(Chunk) /\ Among(Frame(r, b), served')
      BY <3>1, <3>2 DEF Among
    <3> QED BY <2>1, <2>2, <3>3, AmongFacts
  <2> QED BY <1>1, <2>1, <2>2
<1>6. ServedInv'
  <2>1. \A n \in served' : n <= calls'
    BY <1>1, <1>2, <1>3 DEF ServedInv
  <2>2. Among(stream', served') /\ Among(unp', served')
    BY <1>1, <1>2 DEF ServedInv, Among
  <2>3. \A n \in Calls : outcome'[n] = "ok" => answer'[n] \in served'
    BY <1>1, <1>2 DEF ServedInv
  <2> QED BY <1>4, <1>5, <2>1, <2>2, <2>3 DEF ServedInv, Among
<1>7. OrderInv' /\ UNCHANGED Status
  BY <1>2 DEF OrderInv, Status
<1>8. Status[r.of] # "unused"
  <2>1. calls \in Nat
    BY ConstAssumption DEF TypeOK
  <2>2. outcome[r.of] # "unused"
    BY <1>3, <2>1 DEF OrderInv, Calls
  <2> QED BY <1>3, <2>2 DEF Status
<1> QED BY <1>1, <1>3, <1>6, <1>7, <1>8

\* The call in progress ends, with an answer that was served or with none.
LEMMA EndRInv ==
  ASSUME RInv, AInv', pc = "receive",
         NEW o \in Failures \cup {"ok"}, EndCall(o),
         UNCHANGED <<calls, requests, served, outbox>>,
         Among(stream', served),
         \/ o # "ok" /\ UNCHANGED answer
         \/ \E n \in served : answer' = [answer EXCEPT ![calls] = n]
  PROVE  /\ RInv' /\ calls \in Calls /\ Status[calls] = "pending"
         /\ Status' = [Status EXCEPT ![calls] = IF o = "ok" THEN "ok" ELSE "failed"]
<1> USE DEF RInv, AInv, IInv
<1>1. calls \in Calls /\ calls \in Nat
  <2>1. calls \in 0 .. MaxCalls /\ calls > 0
    BY DEF TypeOK, CounterInv
  <2> QED BY <2>1, ConstAssumption DEF Calls
<1>2. pc' = "idle" /\ unp' = <<>> /\ outcome' = [outcome EXCEPT ![calls] = o]
  BY DEF EndCall
<1>3. outcome'[calls] = o /\ \A n \in Calls : n # calls => outcome'[n] = outcome[n]
  BY <1>1, <1>2 DEF TypeOK
<1>4. o \notin {"unused", "pending"} /\ outcome[calls] = "pending"
  BY DEF Failures, ConnInv
<1>5. OrderInv'
  BY <1>1, <1>3, <1>4 DEF OrderInv, Calls
<1>6. ServedInv'
  <2>1. ASSUME NEW n \in Calls, outcome'[n] = "ok" PROVE answer'[n] \in served'
    <3>1. CASE n = calls
      <4>1. PICK k \in served : answer' = [answer EXCEPT ![calls] = k]
        BY <1>3, <2>1, <3>1
      <4> QED BY <1>1, <3>1, <4>1 DEF TypeOK
    <3>2. CASE n # calls
      <4>1. outcome[n] = "ok"
        BY <1>3, <2>1, <3>2
      <4>2. answer'[n] = answer[n]
        BY <3>2 DEF TypeOK
      <4> QED BY <4>1, <4>2 DEF ServedInv
    <3> QED BY <3>1, <3>2
  <2>2. Among(unp', served)
    BY <1>2 DEF Among
  <2> QED BY <2>1, <2>2 DEF ServedInv, Among
<1>7. Status[calls] = "pending"
  BY <1>1, <1>4 DEF Status
<1>8. Status' = [Status EXCEPT ![calls] = IF o = "ok" THEN "ok" ELSE "failed"]
  BY <1>1, <1>2, <1>3, <1>4 DEF Status, TypeOK, Failures
<1> QED BY <1>1, <1>5, <1>6, <1>7, <1>8

\* A recv() that fails the call, feeds it, or completes it with a served call.
LEMMA ReceiveRInv ==
  ASSUME RInv, AInv', Receive
  PROVE  /\ RInv' /\ UNCHANGED served
         /\ \/ UNCHANGED Status
            \/ /\ calls \in Calls /\ Status[calls] = "pending" /\ UNCHANGED calls
               /\ \/ Status' = [Status EXCEPT ![calls] = "failed"]
                  \/ /\ Status' = [Status EXCEPT ![calls] = "ok"]
                     /\ outcome'[calls] = "ok" /\ answer'[calls] \in served
<1> USE DEF RInv, AInv, IInv
<1>1. CASE RecvTimeout
  <2>1. EndCall("timeout") /\ pc = "receive"
        /\ UNCHANGED <<calls, answer, requests, served, outbox, stream>>
    BY <1>1 DEF RecvTimeout
  <2> QED BY <2>1, EndRInv DEF Failures, ServedInv
<1>2. CASE RecvEof
  <2>1. EndCall("closed") /\ pc = "receive"
        /\ UNCHANGED <<calls, answer, requests, served, outbox, stream>>
    BY <1>2 DEF RecvEof
  <2> QED BY <2>1, EndRInv DEF Failures, ServedInv
<1>3. CASE Recv
  <2> DEFINE buf == unp \o Taken
  <2>1. PICK o \in Results(buf) :
          IF o = "wait"
          THEN unp' = buf /\ UNCHANGED <<pc, outcome, answer>>
          ELSE /\ EndCall(o)
               /\ answer' = IF o = "ok" THEN [answer EXCEPT ![calls] = Head(buf).of]
                            ELSE answer
    BY <1>3 DEF Recv
  <2>2. /\ pc = "receive" /\ stream # <<>> /\ stream' = Left
        /\ UNCHANGED <<calls, requests, served, outbox>>
    BY <1>3 DEF Recv
  <2>3. /\ stream \in Seq(Chunk) /\ unp \in Seq(Chunk)
        /\ Among(stream, served) /\ Among(unp, served) /\ Among(outbox, served)
    BY DEF TypeOK, ServedInv
  <2>4. Among(Taken, served) /\ Among(Left, served)
    BY <2>3, TakenAmong
  <2>5. Taken \in Seq(Chunk) /\ Len(Taken) > 0
    <3>1. Len(stream) \in Nat /\ Len(stream) > 0
      BY <2>2, <2>3
    <3> QED BY <2>3, <3>1, ConstAssumption DEF Taken
  <2>6. buf \in Seq(Chunk) /\ Among(buf, served) /\ Len(buf) > 0
    <3>1. Len(buf) = Len(unp) + Len(Taken)
      BY <2>3, <2>5
    <3> QED BY <2>3, <2>4, <2>5, <3>1, AmongFacts
  <2>7. Head(buf).of \in served
    BY <2>6 DEF Among
  <2> HIDE DEF buf
  <2>8. CASE o = "wait"
    BY <2>1, <2>2, <2>3, <2>4, <2>6, <2>8, QuietRInv
  <2>9. CASE o # "wait"
    <3>1. o \in Failures \cup {"ok"} /\ EndCall(o)
      BY <2>1, <2>9 DEF Results, Verdict, Failures
    <3>2. CASE o = "ok"
      <4>1. answer' = [answer EXCEPT ![calls] = Head(buf).of]
        BY <2>1, <3>2
      <4>2. /\ RInv' /\ calls \in Calls /\ Status[calls] = "pending"
            /\ Status' = [Status EXCEPT ![calls] = "ok"]
        BY <2>2, <2>4, <2>7, <3>1, <3>2, <4>1, EndRInv
      <4>3. answer'[calls] \in served /\ outcome'[calls] = "ok"
        BY <2>7, <3>1, <3>2, <4>1, <4>2 DEF EndCall, TypeOK
      <4> QED BY <2>2, <4>2, <4>3
    <3>3. CASE o # "ok"
      <4>1. UNCHANGED answer
        BY <2>1, <2>9, <3>3
      <4> QED BY <2>2, <2>4, <3>1, <3>3, <4>1, EndRInv
    <3> QED BY <3>2, <3>3
  <2> QED BY <2>8, <2>9
<1> QED BY <1>1, <1>2, <1>3 DEF Receive

LEMMA SocketRInv ==
  ASSUME RInv, AInv', Connect \/ Close \/ Deliver \/ PeerClose \/ UNCHANGED vars
  PROVE  RInv' /\ UNCHANGED <<Status, served>>
<1>1. /\ UNCHANGED <<pc, calls, outcome, answer, requests, served, unp>>
      /\ \/ outbox' \in {outbox, <<>>} /\ stream' \in {stream, <<>>}
         \/ Deliver
  BY DEF Connect, Close, DropSocket, Deliver, PeerClose, client, vars
<1>2. /\ Among(outbox, served) /\ Among(stream, served) /\ Among(unp, served)
      /\ outbox \in Seq(Chunk) /\ stream \in Seq(Chunk)
  BY DEF RInv, AInv, IInv, TypeOK, ServedInv
<1>3. Among(outbox', served) /\ Among(stream', served)
  <2>1. CASE Deliver
    <3>1. outbox # <<>> /\ stream' = Append(stream, Head(outbox)) /\ outbox' = Tail(outbox)
      BY <2>1 DEF Deliver
    <3> QED BY <1>2, <3>1 DEF Among
  <2> QED BY <1>1, <1>2, <2>1 DEF Among
<1> QED BY <1>1, <1>2, <1>3, QuietRInv

LEMMA NextRInv ==
  ASSUME RInv, [Next]_vars
  PROVE  RInv'
<1>1. AInv'
  BY NextAInv DEF RInv
<1> QED BY <1>1, StartRInv, AnswerRInv, ReceiveRInv, SocketRInv DEF Next, Receive

LEMMA InvariantRInv == Spec => []RInv
BY InitRInv, NextRInv, PTL DEF Spec
----------------------------------------------------------------------------
LEMMA InitAbstract == Init => Abstract!Init
BY DEF Init, Abstract!Init, Status

LEMMA StepAbstract ==
  ASSUME RInv, [Next]_vars, MaxCalls <= IdSpace
  PROVE  [Abstract!Next]_(Abstract!vars)
<1>1. AInv' /\ RInv'
  BY NextRInv DEF RInv
<1>2. TypeOK /\ OrderInv /\ calls \in Nat
  BY ConstAssumption DEF RInv, AInv, IInv, TypeOK
<1>3. CASE CallSent \/ CallSendFails
  <2>1. /\ \E s \in {"pending", "failed"} : Status' = [Status EXCEPT ![calls + 1] = s]
        /\ calls + 1 \in Calls /\ UNCHANGED served
    BY <1>1, <1>3, StartRInv
  <2>2. pc = "idle"
    BY <1>3 DEF CallSent, CallSendFails, StartCall
  <2>3. outcome[calls + 1] = "unused"
    BY <1>2, <2>1 DEF OrderInv
  <2>4. ASSUME NEW m \in Calls, m < calls + 1 PROVE Status[m] \in {"ok", "failed"}
    <3>1. outcome[m] \notin {"unused", "pending"}
      BY <1>2, <2>2, <2>4 DEF OrderInv, Calls
    <3> QED BY <3>1 DEF Status
  <2>5. Abstract!Issue(calls + 1)
    BY <2>1, <2>3, <2>4 DEF Abstract!Issue, Status
  <2> QED BY <2>1, <2>5 DEF Abstract!Next
<1>4. CASE RouterAnswer
  <2>1. UNCHANGED Status
    BY <1>1, <1>4, AnswerRInv
  <2>2. PICK n \in Calls : Status[n] # "unused" /\ n \notin served
                           /\ served' = served \cup {n}
    BY <1>1, <1>4, AnswerRInv
  <2>3. Abstract!Serve(n)
    BY <2>1, <2>2 DEF Abstract!Serve
  <2> QED BY <2>3 DEF Abstract!Next
<1>5. CASE Receive
  <2>1. CASE UNCHANGED <<Status, served>>
    BY <2>1 DEF Abstract!vars
  <2>2. CASE Status[calls] = "pending" /\ Status' = [Status EXCEPT ![calls] = "failed"]
             /\ calls \in Calls
    <3>1. UNCHANGED served
      BY <1>1, <1>5, ReceiveRInv
    <3>2. Abstract!Fail(calls)
      BY <2>2, <3>1 DEF Abstract!Fail
    <3> QED BY <2>2, <3>2 DEF Abstract!Next
  <2>3. CASE /\ Status[calls] = "pending" /\ Status' = [Status EXCEPT ![calls] = "ok"]
             /\ calls \in Calls /\ UNCHANGED <<calls, served>>
             /\ outcome'[calls] = "ok" /\ answer'[calls] \in served
    <3>1. answer'[calls] = calls
      <4>1. IInv'
        BY <1>1 DEF AInv
      <4>2. answer'[calls] \in 1 .. calls /\ IdOf(answer'[calls]) = IdOf(calls)
        BY <2>3, <4>1 DEF IInv, AnswerInv, IdOf
      <4> DEFINE a == calls - 1
      <4> DEFINE b == answer'[calls] - 1
      <4>3. a \in Int /\ b \in Int /\ 0 <= a - b /\ a - b < IdSpace
        BY <1>2, <2>3, <4>2, ConstAssumption DEF Calls
      <4>4. a % IdSpace = b % IdSpace
        BY <4>2 DEF IdOf
      <4> HIDE DEF a, b
      <4>5. a = b
        BY <4>3, <4>4, ConstAssumption, ModSame
      <4> QED BY <1>2, <4>2, <4>5 DEF a, b
    <3>2. Abstract!Succeed(calls)
      BY <2>3, <3>1 DEF Abstract!Succeed
    <3> QED BY <2>3, <3>2 DEF Abstract!Next
  <2> QED BY <1>1, <1>5, <2>1, <2>2, <2>3, ReceiveRInv
<1>6. CASE Connect \/ Close \/ Deliver \/ PeerClose \/ UNCHANGED vars
  BY <1>1, <1>6, SocketRInv DEF Abstract!vars
<1> QED BY <1>3, <1>4, <1>5, <1>6 DEF Next, Receive

\* With more ids than calls the client is an RpcCall, whatever was late, lost,
\* cut or merged and on however many sockets: calls end one at a time, in
\* order, with a value only if it is their own, and no request is served twice.
THEOREM ClientImplementsRpcCall ==
  ASSUME MaxCalls <= IdSpace
  PROVE  Spec => ImplementsRpcCall
<1>1. RInv /\ [Next]_vars => [Abstract!Next]_(Abstract!vars)
  BY StepAbstract
<1> QED BY <1>1, InitAbstract, InvariantRInv, PTL DEF Spec, ImplementsRpcCall, Abstract!Spec
============================================================================
