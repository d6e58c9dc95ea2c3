---------------------------- MODULE SketchProofs ----------------------------
(***************************************************************************)
(* Theorems about the sketches, for every width of the clock, period and   *)
(* gap, and for every size of the ring, and about the registration of any  *)
(* number of methods while a sketch floods the socket.                     *)
(***************************************************************************)
EXTENDS NotifySketch, ModulinoSketch, FloodedRequest, WrapArithmetic
----------------------------------------------------------------------------
(* The timer.                                                              *)

\* LastNotifyMicros is the time of the latest notification, wrapped.
TimerInv ==
  /\ SketchTypeOK
  /\ last = at % Word
  /\ at <= clock

\* What the test in loop() comes to, in true time.
LEMMA DueInTime ==
  ASSUME SketchAssumption, NEW t \in Nat, at \in Nat, at <= t, last = at % Word
  PROVE  Due(t) <=> (t - at) % Word >= Period
<1>1. Word \in Nat \ {0} /\ t \in Int /\ at \in Int
  BY DEF SketchAssumption
<1>2. ((t % Word) - (at % Word)) % Word = (t - at) % Word
  BY <1>1, ModDiff
<1> QED BY <1>2 DEF Due, Micros

\* loop() keeps the invariant, and runs no earlier than it last did.
LEMMA TimerStep ==
  ASSUME SketchAssumption, TimerInv, SketchNext
  PROVE  /\ TimerInv'
         /\ \E t \in Nat : clock' = t /\ t >= clock /\ Loop(t)
<1>1. PICK gap \in Gaps : Loop(clock + gap)
  BY DEF SketchNext
<1> DEFINE t == clock + gap
<1>2. gap \in Nat /\ clock \in Nat /\ Word \in Nat \ {0}
  BY DEF SketchAssumption, TimerInv, SketchTypeOK
<1>3. t \in Nat /\ t >= clock /\ Loop(t)
  BY <1>1, <1>2
<1> HIDE DEF t
<1>4. clock' = t
  BY <1>3 DEF Loop
<1>5. TimerInv'
  <2>1. CASE Due(t)
    <3>1. last' = t % Word /\ counter' = (counter + 1) % Word /\ at' = t
      BY <1>3, <2>1 DEF Loop, Notify, Micros
    <3>2. t \in Int /\ counter + 1 \in Int
      BY <1>3 DEF TimerInv, SketchTypeOK, Words
    <3>3. t % Word \in 0 .. Word - 1
      BY <1>2, <3>2, DivMod
    <3>4. (counter + 1) % Word \in 0 .. Word - 1
      BY <1>2, <3>2, DivMod
    <3> QED BY <1>3, <1>4, <3>1, <3>3, <3>4 DEF TimerInv, SketchTypeOK, Words
  <2>2. CASE ~Due(t)
    BY <1>2, <1>3, <1>4, <2>2 DEF Loop, TimerInv, SketchTypeOK
  <2> QED BY <2>1, <2>2
<1> QED BY <1>3, <1>4, <1>5

\* Every variable of the timer keeps its type, and last is what TimerInv says.
THEOREM TimerInvariant ==
  ASSUME SketchAssumption
  PROVE  SketchSpec => []TimerInv
<1>1. SketchInit => TimerInv
  <2>1. Word \in Nat \ {0}
    BY DEF SketchAssumption
  <2>2. 0 % Word = 0 /\ 0 \in Words
    BY <2>1, ModSmall DEF Words
  <2> QED BY <2>2 DEF SketchInit, TimerInv, SketchTypeOK
<1>2. TimerInv /\ [SketchNext]_sketchVars => TimerInv'
  <2>1. CASE SketchNext
    BY <2>1, TimerStep
  <2>2. CASE UNCHANGED sketchVars
    BY <2>2 DEF sketchVars, TimerInv, SketchTypeOK
  <2> QED BY <2>1, <2>2
<1> QED BY <1>1, <1>2, PTL DEF SketchSpec

\* A wrapped difference is no more than the true one: a period of the wrapping
\* clock is a period of time.
THEOREM AlwaysPaced ==
  ASSUME SketchAssumption
  PROVE  SketchSpec => Paced
<1>1. ASSUME TimerInv, [SketchNext]_sketchVars
      PROVE  [Sent => clock' - at >= Period]_sketchVars
  <2> SUFFICES ASSUME SketchNext, Sent
               PROVE  clock' - at >= Period
    BY <1>1
  <2>1. PICK t \in Nat : clock' = t /\ t >= clock /\ Loop(t)
    BY <1>1, TimerStep
  <2>2. Due(t)
    BY <2>1 DEF Loop, Sent
  <2>3. at \in Nat /\ clock \in Nat /\ at <= clock /\ last = at % Word
    BY <1>1 DEF TimerInv, SketchTypeOK
  <2>4. (t - at) % Word >= Period
    <3>1. at <= t
      BY <2>1, <2>3
    <3> QED BY <2>2, <2>3, <3>1, DueInTime
  <2>5. Word \in Nat \ {0} /\ Period \in Nat /\ t - at \in Nat
    BY <2>1, <2>3 DEF SketchAssumption
  <2>6. (t - at) % Word <= t - at
    BY <2>5, ModLe
  <2>7. (t - at) % Word \in Int
    BY <2>5, DivMod
  <2> QED BY <2>1, <2>4, <2>5, <2>6, <2>7
<1>2. SketchSpec => []TimerInv
  BY TimerInvariant
<1> QED BY <1>1, <1>2, PTL DEF SketchSpec, Paced

\* Within a turn the wrapped difference is the true one: nothing is let pass.
THEOREM AlwaysPrompt ==
  ASSUME SketchAssumption
  PROVE  SketchSpec => Prompt
<1>1. ASSUME TimerInv, [SketchNext]_sketchVars
      PROVE  [clock' - at >= Period /\ clock' - at < Word => Sent]_sketchVars
  <2> SUFFICES ASSUME SketchNext, clock' - at >= Period, clock' - at < Word
               PROVE  Sent
    BY <1>1
  <2>1. PICK t \in Nat : clock' = t /\ t >= clock /\ Loop(t)
    BY <1>1, TimerStep
  <2>2. at \in Nat /\ clock \in Nat /\ at <= clock /\ last = at % Word
    BY <1>1 DEF TimerInv, SketchTypeOK
  <2>3. Word \in Nat \ {0} /\ Period \in Nat \ {0} /\ Period < Word
    BY DEF SketchAssumption
  <2>4. (t - at) % Word = t - at
    <3>1. t - at \in Int /\ 0 <= t - at /\ t - at < Word
      BY <2>1, <2>2
    <3> QED BY <2>3, <3>1, ModSmall
  <2>5. Due(t)
    <3>1. at <= t /\ (t - at) % Word >= Period
      BY <2>1, <2>2, <2>4
    <3> QED BY <2>2, <3>1, DueInTime
  <2>6. counter' = (counter + 1) % Word /\ counter \in 0 .. Word - 1
    BY <1>1, <2>1, <2>5 DEF Loop, Notify, TimerInv, SketchTypeOK, Words
  <2>7. (counter + 1) % Word # counter
    <3>1. CASE counter + 1 < Word
      BY <2>3, <2>6, <3>1, ModSmall
    <3>2. CASE counter + 1 = Word
      <4>1. (Word * 1 + 0) % Word = 0 /\ Word * 1 + 0 = Word
        BY <2>3, ModUnique
      <4> QED BY <2>3, <2>6, <3>2, <4>1
    <3> QED BY <2>3, <2>6, <3>1, <3>2
  <2> QED BY <2>6, <2>7 DEF Sent
<1>2. SketchSpec => []TimerInv
  BY TimerInvariant
<1> QED BY <1>1, <1>2, PTL DEF SketchSpec, Prompt
----------------------------------------------------------------------------
(* The ring.                                                               *)

\* The head is where the next sample belongs.
RingInv ==
  /\ RingTypeOK
  /\ head = pushed % SIZE
  /\ since <= pushed
  /\ HoldsLatest
  /\ WindowRecent

\* The head after a push, whichever way it wraps.
LEMMA HeadCounts ==
  ASSUME RingAssumption, pushed \in Nat, head = pushed % SIZE
  PROVE  NextHead = (pushed + 1) % SIZE /\ NextHead \in Slots
<1>1. SIZE \in Nat \ {0} /\ pushed \in Int /\ pushed + 1 \in Int
  BY DEF RingAssumption
<1>2. (head + 1) % SIZE = (pushed + 1) % SIZE /\ head \in 0 .. SIZE - 1
  BY <1>1, ModNext, DivMod
<1>3. CASE head + 1 = SIZE
  <2>1. (SIZE * 1 + 0) % SIZE = 0 /\ SIZE * 1 + 0 = SIZE
    BY <1>1, ModUnique
  <2> QED BY <1>1, <1>2, <1>3, <2>1 DEF NextHead, Slots
<1>4. CASE head + 1 < SIZE
  <2>1. (head + 1) % SIZE = head + 1
    BY <1>1, <1>2, <1>4, ModSmall
  <2> QED BY <1>1, <1>2, <1>4, <2>1 DEF NextHead, Slots
<1> QED BY <1>1, <1>2, <1>3, <1>4

\* A push overwrites the one sample that is no longer among the latest.
LEMMA OthersStay ==
  ASSUME RingAssumption, pushed \in Nat, head = pushed % SIZE,
         NEW i \in Slots, i # head, NEW k \in Nat, InSlot(i, k, pushed, pushed)
  PROVE  InSlot(i, k, pushed + 1, pushed + 1)
<1>1. SIZE \in Nat \ {0} /\ i \in 0 .. SIZE - 1
  BY DEF RingAssumption, Slots
<1>2. CASE k = 0
  <2>1. pushed <= i
    BY <1>2 DEF InSlot
  <2>2. pushed % SIZE = pushed
    BY <1>1, <2>1, ModSmall
  <2> QED BY <1>1, <1>2, <2>1, <2>2 DEF InSlot
<1>3. CASE k # 0
  <2>1. (k - 1) % SIZE = i /\ pushed - SIZE < k /\ k <= pushed
    BY <1>3 DEF InSlot
  <2>2. k # pushed + 1 - SIZE
    <3> SUFFICES ASSUME k - 1 = pushed - SIZE
                 PROVE  FALSE
      BY <1>1
    <3> DEFINE q == pushed \div SIZE
    <3>1. /\ q \in Int /\ pushed % SIZE \in 0 .. SIZE - 1
          /\ pushed = SIZE * q + (pushed % SIZE)
      <4>1. pushed \in Int
        OBVIOUS
      <4> QED BY <1>1, <4>1, DivMod
    <3> HIDE DEF q
    <3>2. (SIZE * (q - 1) + head) % SIZE = head
      <4>1. q - 1 \in Int /\ head \in Int /\ 0 <= head /\ head < SIZE
        BY <1>1, <3>1
      <4> QED BY <1>1, <4>1, ModUnique
    <3>3. SIZE * (q - 1) + head = k - 1
      BY <1>1, <3>1
    <3> QED BY <2>1, <3>2, <3>3
  <2> QED BY <1>1, <1>3, <2>1, <2>2 DEF InSlot
<1> QED BY <1>2, <1>3

\* Ring, head and what get_fft has read, after any number of pushes and reads.
THEOREM RingInvariant ==
  ASSUME RingAssumption
  PROVE  RingSpec => []RingInv
<1>0. SIZE \in Nat \ {0}
  BY DEF RingAssumption
<1>1. RingInit => RingInv
  <2>1. 0 % SIZE = 0
    BY <1>0, ModSmall
  <2> QED BY <1>0, <2>1
          DEF RingInit, RingInv, RingTypeOK, HoldsLatest, WindowRecent, InSlot, Slots
<1>2. ASSUME RingInv, [RingNext]_ringVars
      PROVE  RingInv'
  <2>0. /\ data \in [Slots -> Nat] /\ head \in Slots /\ pushed \in Nat
        /\ slot \in 0 .. SIZE /\ values \in [Slots -> Nat] /\ since \in Nat
        /\ head = pushed % SIZE /\ since <= pushed
        /\ \A i \in Slots : InSlot(i, data[i], pushed, pushed)
        /\ \A i \in Slots : i < slot => InSlot(i, values[i], since, pushed)
    BY <1>2 DEF RingInv, RingTypeOK, HoldsLatest, WindowRecent
  <2>1. CASE Push
    <3>1. /\ pushed' = pushed + 1 /\ head' = NextHead
          /\ data' = [data EXCEPT ![head] = pushed + 1]
          /\ UNCHANGED <<slot, values, since>>
      BY <2>1 DEF Push
    <3>2. NextHead = (pushed + 1) % SIZE /\ NextHead \in Slots
      BY <2>0, HeadCounts
    <3>3. ASSUME NEW i \in Slots
          PROVE  InSlot(i, data'[i], pushed', pushed')
      <4>1. CASE i = head
        BY <1>0, <2>0, <3>1, <4>1 DEF InSlot
      <4>2. CASE i # head
        <5>1. data[i] \in Nat /\ InSlot(i, data[i], pushed, pushed)
          BY <2>0
        <5>2. InSlot(i, data[i], pushed + 1, pushed + 1)
          BY <2>0, <4>2, <5>1, OthersStay
        <5> QED BY <2>0, <3>1, <4>2, <5>2
      <4> QED BY <4>1, <4>2
    <3>4. ASSUME NEW i \in Slots, i < slot'
          PROVE  InSlot(i, values'[i], since', pushed')
      BY <2>0, <3>1, <3>4 DEF InSlot
    <3>5. RingTypeOK' /\ since' <= pushed'
      BY <2>0, <3>1, <3>2 DEF RingTypeOK
    <3> QED BY <3>1, <3>2, <3>3, <3>4, <3>5
            DEF RingInv, HoldsLatest, WindowRecent
  <2>2. CASE GetFft
    BY <1>0, <2>0, <2>2
       DEF GetFft, RingInv, RingTypeOK, HoldsLatest, WindowRecent, Slots
  <2>3. CASE ReadSlot
    <3>1. /\ slot < SIZE /\ slot' = slot + 1
          /\ values' = [values EXCEPT ![slot] = data[slot]]
          /\ UNCHANGED <<data, head, pushed, since>>
      BY <2>3 DEF ReadSlot
    <3>2. slot \in Slots
      BY <1>0, <2>0, <3>1 DEF Slots
    <3>3. ASSUME NEW i \in Slots, i < slot'
          PROVE  InSlot(i, values'[i], since', pushed')
      <4>1. CASE i = slot
        <5>1. data[i] \in Nat /\ InSlot(i, data[i], pushed, pushed)
          BY <2>0
        <5>2. InSlot(i, data[i], since, pushed)
          BY <1>0, <2>0, <5>1 DEF InSlot, Slots
        <5> QED BY <2>0, <3>1, <4>1, <5>2
      <4>2. CASE i # slot
        <5>1. i < slot
          BY <1>0, <2>0, <3>1, <3>3, <4>2 DEF Slots
        <5> QED BY <2>0, <3>1, <4>2, <5>1
      <4> QED BY <4>1, <4>2
    <3>4. RingTypeOK' /\ since' <= pushed' /\ head' = pushed' % SIZE
      BY <1>0, <2>0, <3>1, <3>2 DEF RingTypeOK
    <3>5. HoldsLatest'
      BY <2>0, <3>1 DEF HoldsLatest
    <3> QED BY <3>3, <3>4, <3>5 DEF RingInv, WindowRecent
  <2>4. CASE UNCHANGED ringVars
    BY <2>0, <2>4 DEF ringVars, RingInv, RingTypeOK, HoldsLatest, WindowRecent, InSlot
  <2> QED BY <1>2, <2>1, <2>2, <2>3, <2>4 DEF RingNext
<1> QED BY <1>1, <1>2, PTL DEF RingSpec

\* The ring is exactly the latest samples, for a ring of any size.
THEOREM RingAlwaysLatest ==
  ASSUME RingAssumption
  PROVE  RingSpec => []HoldsLatest
<1>1. RingInv => HoldsLatest
  BY DEF RingInv
<1> QED BY <1>1, RingInvariant, PTL

\* get_fft has read samples in turn, recent when it began, with loop() pushing
\* as often as it may.
THEOREM WindowAlwaysRecent ==
  ASSUME RingAssumption
  PROVE  RingSpec => []WindowRecent
<1>1. RingInv => WindowRecent
  BY DEF RingInv
<1> QED BY <1>1, RingInvariant, PTL
----------------------------------------------------------------------------
(* request() under a flood.                                                *)

\* What a socket may hold: messages of the sketch, and answers.
FloodFrame == [kind : {"notify", "request"}, n : {1}, ok : {TRUE}] \cup Response

Answers(q) == {i \in 1 .. Len(q) : q[i].kind = "response"}

FloodTypeInv ==
  /\ caller \in {"connect", "register", "await", "started", "failed"}
  /\ todo \subseteq Methods
  /\ ep_open \in BOOLEAN /\ ep_peer \in {"up", "down"} /\ ep_msgid \in EpMsgids
  /\ inbox \in Seq(FloodFrame) /\ asks \subseteq Ask /\ registry \subseteq Methods

\* The socket is open from the first registration to the end or the failure.
SocketInv ==
  /\ ~ep_open <=> caller \in {"connect", "failed"}
  /\ ~ep_open => asks = {} /\ registry = {} /\ inbox = <<>> /\ ep_peer = "down"
  /\ caller = "connect" => todo = Methods
  /\ caller = "started" => todo = {}

\* One request at most is asked, and only while its answer is waited for;
\* either it is with the router, or its answer is in the socket.
PendingInv ==
  /\ caller # "await" => asks = {} /\ Answers(inbox) = {}
  /\ \A a, b \in asks : a = b
  /\ \A i, j \in Answers(inbox) : i = j
  /\ asks # {} => Answers(inbox) = {}

\* A method is in service, or still to be registered, or the one being
\* registered; an answer that is no error is of a method in service.
WholeInv ==
  /\ \A a \in asks : /\ a.method \in Methods
                     /\ Methods \subseteq registry \cup todo \cup {a.method}
                     /\ a.done => a.method \in registry
  /\ ep_peer = "up" /\ caller \in {"register", "started"} => Methods \subseteq registry \cup todo
  /\ ep_peer = "up" => \A i \in Answers(inbox) : inbox[i].ok => Methods \subseteq registry \cup todo

FloodInv == FloodTypeInv /\ SocketInv /\ PendingInv /\ WholeInv

\* A frame appended, and the first one taken.
LEMMA AppendedAnswers ==
  ASSUME NEW q \in Seq(FloodFrame), NEW x \in FloodFrame
  PROVE  /\ Append(q, x) \in Seq(FloodFrame)
         /\ x.kind # "response" =>
              Answers(Append(q, x)) = Answers(q)
              /\ \A i \in Answers(q) : Append(q, x)[i] = q[i]
         /\ Answers(q) = {} =>
              \A i \in Answers(Append(q, x)) : i = Len(q) + 1 /\ Append(q, x)[i] = x
<1> DEFINE r == Append(q, x)
<1>1. /\ r \in Seq(FloodFrame) /\ Len(r) = Len(q) + 1 /\ Len(q) \in Nat
      /\ \A i \in 1 .. Len(q) : r[i] = q[i]
      /\ r[Len(q) + 1] = x
  OBVIOUS
<1> HIDE DEF r
<1>2. \A i \in 1 .. Len(r) : i \in 1 .. Len(q) \/ i = Len(q) + 1
  BY <1>1
<1>3. \A i \in 1 .. Len(q) : i \in 1 .. Len(r)
  BY <1>1
<1>4. ASSUME x.kind # "response"
      PROVE  Answers(r) = Answers(q) /\ \A i \in Answers(q) : r[i] = q[i]
  BY <1>1, <1>2, <1>3, <1>4 DEF Answers
<1>5. ASSUME Answers(q) = {}
      PROVE  \A i \in Answers(r) : i = Len(q) + 1 /\ r[i] = x
  BY <1>1, <1>2, <1>5 DEF Answers
<1> QED BY <1>1, <1>4, <1>5 DEF r

LEMMA TakenAnswers ==
  ASSUME NEW q \in Seq(FloodFrame), q # <<>>
  PROVE  /\ Tail(q) \in Seq(FloodFrame)
         /\ \A i \in Answers(Tail(q)) :
              i \in Nat \ {0} /\ i + 1 \in Answers(q) /\ Tail(q)[i] = q[i + 1]
         /\ Head(q).kind = "response" => 1 \in Answers(q) /\ Head(q) = q[1]
<1>1. /\ Tail(q) \in Seq(FloodFrame) /\ Head(q) = q[1] /\ 1 \in 1 .. Len(q)
      /\ \A i \in 1 .. Len(Tail(q)) :
           i \in Nat \ {0} /\ i + 1 \in 1 .. Len(q) /\ Tail(q)[i] = q[i + 1]
  OBVIOUS
<1> QED BY <1>1 DEF Answers

LEMMA FloodInitInv == FloodInit => FloodInv
<1>1. EndpointAssumption => 0 \in EpMsgids
  BY DEF EndpointAssumption, EpMsgids
<1>2. <<>> \in Seq(FloodFrame) /\ Answers(<<>>) = {}
  BY DEF Answers
<1> QED
  BY <1>1, <1>2, EndpointAssumption DEF FloodInit, EpInit, FloodInv, FloodTypeInv,
     SocketInv, PendingInv, WholeInv

\* A socket closed, or connected, holds nothing.
LEMMA FloodFresh ==
  ASSUME FloodInv, ep_msgid' \in EpMsgids, FreshSocket, UNCHANGED todo,
         \/ ep_open' = FALSE /\ ep_peer' = "down" /\ caller' = "failed"
         \/ ep_open' = TRUE /\ ep_peer' = "up" /\ caller = "connect" /\ caller' = "register"
  PROVE  FloodInv'
<1>1. <<>> \in Seq(FloodFrame) /\ Answers(<<>>) = {}
  BY DEF Answers
<1>2. inbox' = <<>> /\ asks' = {} /\ registry' = {}
  BY DEF FreshSocket
<1>3. caller = "connect" => todo = Methods
  BY DEF FloodInv, SocketInv
<1>4. FloodTypeInv'
  BY <1>1, <1>2 DEF FloodInv, FloodTypeInv
<1>5. SocketInv'
  BY <1>2 DEF SocketInv
<1>6. PendingInv'
  BY <1>1, <1>2 DEF PendingInv
<1>7. WholeInv'
  BY <1>1, <1>2, <1>3 DEF WholeInv
<1> QED BY <1>4, <1>5, <1>6, <1>7 DEF FloodInv

\* connect(), and request() up to the wait.
LEMMA FloodCallerInv ==
  ASSUME FloodInv, FloodConnect \/ FloodRegister
  PROVE  FloodInv'
<1>0. NextEpMsgid \in EpMsgids
  BY EndpointAssumption, DivMod DEF FloodInv, FloodTypeInv, NextEpMsgid, EpMsgids
<1>1. CASE FloodConnect
  <2>1. ep_msgid' \in EpMsgids /\ FreshSocket
    BY <1>1 DEF FloodConnect, EpConnect, EpClose, FloodInv, FloodTypeInv
  <2> QED BY <1>1, <2>1, FloodFresh DEF FloodConnect, EpConnect, EpClose
<1>2. ASSUME caller = "register", NEW m \in todo, AskSent(m), todo' = todo \ {m},
             caller' = "await"
      PROVE  FloodInv'
  <2> DEFINE a == [msgid |-> ep_msgid, method |-> m, done |-> FALSE]
  <2>1. m \in Methods /\ a \in Ask /\ a.method = m /\ a.done = FALSE
    BY DEF FloodInv, FloodTypeInv, Ask
  <2>2. /\ ep_peer = "up" /\ ep_msgid' = NextEpMsgid
        /\ asks' = asks \cup {a}
        /\ UNCHANGED <<ep_open, inbox, ep_peer, registry>>
    BY <1>2 DEF AskSent
  <2> HIDE DEF a
  <2>3. asks = {} /\ Answers(inbox) = {} /\ Methods \subseteq registry \cup todo
    BY <1>2, <2>2 DEF FloodInv, PendingInv, WholeInv
  <2>4. FloodTypeInv'
    BY <1>0, <1>2, <2>1, <2>2 DEF FloodInv, FloodTypeInv
  <2>5. SocketInv'
    BY <1>2, <2>2 DEF FloodInv, SocketInv
  <2>6. PendingInv' /\ WholeInv'
    BY <1>2, <2>1, <2>2, <2>3 DEF PendingInv, WholeInv
  <2> QED BY <2>4, <2>5, <2>6 DEF FloodInv
<1>3. CASE AskFailed /\ caller' = "failed" /\ UNCHANGED todo
  BY <1>0, <1>3, FloodFresh DEF AskFailed
<1>4. CASE caller = "register" /\ todo = {} /\ caller' = "started" /\ UNCHANGED <<epVars, todo>>
  BY <1>4 DEF epVars, FloodInv, FloodTypeInv, SocketInv, PendingInv, WholeInv
<1> QED BY <1>1, <1>2, <1>3, <1>4 DEF FloodRegister

\* The wait of request().
LEMMA FloodAwaitInv ==
  ASSUME FloodInv, FloodAwait
  PROVE  FloodInv'
<1>1. CASE AwaitThrows /\ EpClose /\ caller' = "failed"
  <2>1. ep_msgid' \in EpMsgids /\ FreshSocket /\ ep_open' = FALSE /\ ep_peer' = "down"
    BY <1>1 DEF EpClose, FloodInv, FloodTypeInv
  <2> QED BY <1>1, <2>1, FloodFresh DEF FloodAwait
<1>2. ASSUME inbox # <<>>, inbox' = Tail(inbox),
             UNCHANGED <<ep_open, ep_msgid, ep_peer, asks, registry, todo>>,
             \/ UNCHANGED caller
             \/ caller = "await" /\ caller' = "register" /\ ReplyAccepted
      PROVE  FloodInv'
  <2>1. inbox \in Seq(FloodFrame)
    BY DEF FloodInv, FloodTypeInv
  <2>2. /\ Tail(inbox) \in Seq(FloodFrame)
        /\ \A i \in Answers(Tail(inbox)) :
             i \in Nat \ {0} /\ i + 1 \in Answers(inbox) /\ Tail(inbox)[i] = inbox[i + 1]
        /\ Head(inbox).kind = "response" => 1 \in Answers(inbox) /\ Head(inbox) = inbox[1]
    BY <1>2, <2>1, TakenAnswers
  <2>3. FloodTypeInv'
    BY <1>2, <2>2 DEF FloodInv, FloodTypeInv
  <2>4. SocketInv'
    BY <1>2, <2>2 DEF FloodInv, SocketInv
  <2>5. \A i, j \in Answers(inbox') : i = j
    <3>1. \A i, j \in Answers(inbox') : i + 1 = j + 1 /\ i \in Nat /\ j \in Nat
      BY <1>2, <2>2 DEF FloodInv, PendingInv
    <3> QED BY <3>1
  <2>6. CASE UNCHANGED caller
    <3>1. PendingInv'
      BY <1>2, <2>2, <2>5, <2>6 DEF FloodInv, PendingInv
    <3>2. \A i \in Answers(inbox') : \E j \in Answers(inbox) : inbox'[i] = inbox[j]
      BY <1>2, <2>2
    <3>3. WholeInv'
      BY <1>2, <2>6, <3>2 DEF FloodInv, WholeInv
    <3> QED BY <2>3, <2>4, <3>1, <3>3 DEF FloodInv
  <2>7. CASE caller = "await" /\ caller' = "register" /\ ReplyAccepted
    <3>1. 1 \in Answers(inbox) /\ inbox[1].ok
      BY <2>2, <2>7 DEF ReplyAccepted, Front
    <3>2. Answers(inbox') = {}
      <4> SUFFICES ASSUME NEW i \in Answers(inbox') PROVE FALSE
        OBVIOUS
      <4>1. i \in Nat \ {0} /\ i + 1 = 1
        BY <1>2, <2>2, <3>1 DEF FloodInv, PendingInv
      <4> QED BY <4>1
    <3>3. asks = {}
      BY <3>1 DEF FloodInv, PendingInv
    <3>4. ep_peer = "up" => Methods \subseteq registry \cup todo
      BY <3>1 DEF FloodInv, WholeInv
    <3>5. PendingInv' /\ WholeInv'
      BY <1>2, <3>2, <3>3, <3>4 DEF PendingInv, WholeInv
    <3> QED BY <2>3, <2>4, <3>5 DEF FloodInv
  <2> QED BY <1>2, <2>6, <2>7
<1> QED
  BY <1>1, <1>2 DEF FloodAwait, SkipNotify, SkipRequest, TakeReply, ReplyAccepted, Front

\* The sketch sends, and the router acts, answers, refuses or dies.
LEMMA FloodOthersInv ==
  ASSUME FloodInv, Flood \/ FloodRouter \/ FloodRouterCloses
  PROVE  FloodInv'
<1>0. /\ inbox \in Seq(FloodFrame) /\ asks \subseteq Ask
      /\ ~ep_open => asks = {} /\ registry = {}
  BY DEF FloodInv, FloodTypeInv, SocketInv
<1>1. CASE Flood
  <2>1. PICK k \in {"notify", "request"} :
          inbox' = Append(inbox, [kind |-> k, n |-> 1, ok |-> TRUE])
    BY <1>1 DEF Flood
  <2> DEFINE x == [kind |-> k, n |-> 1, ok |-> TRUE]
  <2>2. x \in FloodFrame /\ x.kind # "response"
    BY DEF FloodFrame
  <2>3. inbox' = Append(inbox, x)
    BY <2>1
  <2> HIDE DEF x
  <2>4. /\ inbox' \in Seq(FloodFrame) /\ Answers(inbox') = Answers(inbox)
        /\ \A i \in Answers(inbox) : inbox'[i] = inbox[i]
    BY <1>0, <2>2, <2>3, AppendedAnswers
  <2>5. registry # {} /\ UNCHANGED <<ep_open, ep_msgid, ep_peer, asks, registry, caller, todo>>
    BY <1>1 DEF Flood
  <2>6. FloodTypeInv'
    BY <2>4, <2>5 DEF FloodInv, FloodTypeInv
  <2>7. SocketInv'
    BY <2>5 DEF FloodInv, SocketInv
  <2>8. PendingInv' /\ WholeInv'
    BY <2>4, <2>5 DEF FloodInv, PendingInv, WholeInv
  <2> QED BY <2>6, <2>7, <2>8 DEF FloodInv
<1>2. CASE RouterActs /\ UNCHANGED <<caller, todo>>
  <2>1. PICK a \in asks :
          /\ registry' = IF a.method = Reset THEN {} ELSE registry \cup {a.method}
          /\ asks' = (asks \ {a}) \cup {[a EXCEPT !.done = TRUE]}
          /\ UNCHANGED <<ep_open, ep_msgid, inbox, ep_peer>>
    BY <1>2 DEF RouterActs
  <2> DEFINE b == [a EXCEPT !.done = TRUE]
  <2>2. b \in Ask /\ b.method = a.method /\ asks' = (asks \ {a}) \cup {b}
    BY <1>0, <2>1 DEF Ask
  <2> HIDE DEF b
  <2>3. asks = {a} /\ asks' = {b} /\ Answers(inbox) = {} /\ caller = "await"
    BY <2>1, <2>2 DEF FloodInv, PendingInv
  <2>4. a.method \in Methods /\ Methods \subseteq registry \cup todo \cup {a.method}
    BY <2>1 DEF FloodInv, WholeInv
  <2>5. registry' = registry \cup {a.method}
    BY <2>1, <2>4, FloodAssumption
  <2>6. FloodTypeInv'
    BY <1>2, <2>1, <2>2, <2>3, <2>4, <2>5 DEF FloodInv, FloodTypeInv
  <2>7. SocketInv'
    BY <1>0, <1>2, <2>1, <2>3 DEF FloodInv, SocketInv
  <2>8. PendingInv'
    BY <1>2, <2>1, <2>3 DEF PendingInv
  <2>9. WholeInv'
    BY <1>2, <2>1, <2>2, <2>3, <2>4, <2>5 DEF WholeInv
  <2> QED BY <2>6, <2>7, <2>8, <2>9 DEF FloodInv
<1>3. CASE (RouterReplies \/ RouterRefuses) /\ UNCHANGED <<caller, todo>>
  <2>1. PICK a \in asks, ok \in BOOLEAN :
          /\ ok => a.done
          /\ inbox' = Append(inbox, [kind |-> "response", msgid |-> a.msgid, ok |-> ok])
          /\ asks' = asks \ {a}
          /\ UNCHANGED <<ep_open, ep_msgid, ep_peer, registry>>
    BY <1>3 DEF RouterReplies, RouterRefuses
  <2> DEFINE x == [kind |-> "response", msgid |-> a.msgid, ok |-> ok]
  <2>2. x \in FloodFrame /\ x.ok = ok
    BY <1>0, <2>1 DEF FloodFrame, Response, Ask
  <2>3. inbox' = Append(inbox, x)
    BY <2>1
  <2> HIDE DEF x
  <2>4. asks' = {} /\ Answers(inbox) = {} /\ caller = "await"
    BY <2>1 DEF FloodInv, PendingInv
  <2>5. /\ inbox' \in Seq(FloodFrame)
        /\ \A i \in Answers(inbox') : i = Len(inbox) + 1 /\ inbox'[i] = x
    BY <1>0, <2>2, <2>3, <2>4, AppendedAnswers
  <2>6. ok => Methods \subseteq registry \cup todo
    BY <2>1 DEF FloodInv, WholeInv
  <2>7. FloodTypeInv'
    BY <1>3, <2>1, <2>4, <2>5 DEF FloodInv, FloodTypeInv
  <2>8. SocketInv'
    BY <1>0, <1>3, <2>1, <2>4 DEF FloodInv, SocketInv
  <2>9. PendingInv'
    BY <1>3, <2>4, <2>5 DEF PendingInv
  <2>10. WholeInv'
    BY <1>3, <2>1, <2>2, <2>4, <2>5, <2>6 DEF WholeInv
  <2> QED BY <2>7, <2>8, <2>9, <2>10 DEF FloodInv
<1>4. CASE RouterCloses /\ UNCHANGED <<caller, todo>>
  <2>1. /\ ep_peer = "up" /\ ep_peer' = "down" /\ asks' = {} /\ registry' = {}
        /\ UNCHANGED <<ep_open, ep_msgid, inbox>>
    BY <1>4 DEF RouterCloses
  <2>2. ep_open
    BY <2>1 DEF FloodInv, FloodTypeInv, SocketInv
  <2>3. FloodTypeInv'
    BY <1>4, <2>1 DEF FloodInv, FloodTypeInv
  <2>4. SocketInv'
    BY <1>4, <2>1, <2>2 DEF FloodInv, SocketInv
  <2>5. PendingInv' /\ WholeInv'
    BY <1>4, <2>1 DEF FloodInv, PendingInv, WholeInv
  <2> QED BY <2>3, <2>4, <2>5 DEF FloodInv
<1> QED BY <1>1, <1>2, <1>3, <1>4 DEF FloodRouter, FloodRouterCloses

LEMMA FloodNextInv ==
  ASSUME FloodInv, [FloodNext]_floodVars
  PROVE  FloodInv'
<1>1. CASE UNCHANGED floodVars
  BY <1>1 DEF floodVars, epVars, FloodInv, FloodTypeInv, SocketInv, PendingInv, WholeInv
<1> QED
  BY <1>1, FloodCallerInv, FloodAwaitInv, FloodOthersInv DEF FloodNext, StartReceiver

\* However long the flood and whatever number of methods: start_receiver ends
\* with all of them in service, or with the endpoint closed and none left in
\* the router.
THEOREM StartAlwaysWhole == FloodSpec => []StartedWhole
<1>1. FloodInv => StartedWhole
  BY DEF FloodInv, FloodTypeInv, SocketInv, WholeInv, StartedWhole
<1> QED BY <1>1, FloodInitInv, FloodNextInv, PTL DEF FloodSpec
============================================================================
