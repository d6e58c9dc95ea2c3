-------------------------- MODULE UnoqSourceProofs --------------------------
(***************************************************************************)
(* For any methods, configurations, queue sizes and numbers of messages:   *)
(* UnoqSource is well typed, its threads never share the endpoint, the     *)
(* error it reports is final, its answers to the sketch are honest, its    *)
(* queue loses only what it must and is a Mailbox, and no response strays. *)
(***************************************************************************)
EXTENDS UnoqSource, WrapArithmetic, FiniteSetTheorems

\* The message local to the loop is one that was received.
MsgInv == recv \in {"enqueue", "respond"} => msg \in Incoming

TInv == TypeOK /\ MsgInv

\* All that any step does to the endpoint, the socket and the router.
EpStep ==
  \/ EpClose \/ EpConnect \/ AskFailed
  \/ \E m \in Methods \cup {Reset} : AskSent(m)
  \/ SkipNotify \/ SkipRequest \/ TakeReply \/ TakeFrame
  \/ Router
  \/ UNCHANGED epVars
----------------------------------------------------------------------------
(* Types.                                                                  *)

LEMMA NextIdType ==
  ASSUME EpTypeOK
  PROVE  NextEpMsgid \in EpMsgids
BY EndpointAssumption, DivMod DEF EpTypeOK, NextEpMsgid, EpMsgids

LEMMA RouterType ==
  ASSUME EpTypeOK, Router
  PROVE  EpTypeOK'
<1>1. CASE RouterActs
  <2>1. PICK a \in asks :
          /\ registry' = IF a.method = Reset THEN {} ELSE registry \cup {a.method}
          /\ asks' = (asks \ {a}) \cup {[a EXCEPT !.done = TRUE]}
          /\ UNCHANGED <<ep_open, ep_msgid, waiting, inbox, ep_peer, sent>>
    BY <1>1 DEF RouterActs
  <2>2. a \in Ask
    BY DEF EpTypeOK
  <2>3. [a EXCEPT !.done = TRUE] \in Ask /\ a.method \in Methods \cup {Reset}
    BY <2>2 DEF Ask
  <2>4. asks' \subseteq Ask /\ registry' \subseteq Methods
    BY <2>1, <2>3 DEF EpTypeOK
  <2> QED BY <2>1, <2>4 DEF EpTypeOK
<1>2. CASE RouterReplies \/ RouterRefuses
  <2>1. PICK a \in asks, ok \in BOOLEAN :
          /\ inbox' = Append(inbox, [kind |-> "response", msgid |-> a.msgid, ok |-> ok])
          /\ asks' = asks \ {a}
          /\ UNCHANGED <<ep_open, ep_msgid, waiting, ep_peer, registry, sent>>
    BY <1>2 DEF RouterReplies, RouterRefuses
  <2>2. [kind |-> "response", msgid |-> a.msgid, ok |-> ok] \in Response
    BY DEF EpTypeOK, Ask, Response
  <2>3. inbox' \in Seq(Incoming \cup Response)
    BY <2>1, <2>2 DEF EpTypeOK
  <2> QED BY <2>1, <2>3 DEF EpTypeOK
<1>3. CASE SketchSends
  <2>1. PICK k \in {"notify", "request"}, ok \in BOOLEAN :
          inbox' = Append(inbox, [kind |-> k, n |-> sent + 1, ok |-> ok])
    BY <1>3 DEF SketchSends
  <2>2. sent' \in 0 .. MaxMsgs /\ sent + 1 \in MsgNums
    BY <1>3, EndpointAssumption DEF SketchSends, EpTypeOK, MsgNums
  <2>3. [kind |-> k, n |-> sent + 1, ok |-> ok] \in Incoming
    BY <2>2 DEF EpTypeOK, Incoming
  <2>4. inbox' \in Seq(Incoming \cup Response)
    BY <2>1, <2>3 DEF EpTypeOK
  <2> QED BY <1>3, <2>2, <2>4 DEF SketchSends, EpTypeOK
<1>4. CASE RouterCloses
  BY <1>4 DEF RouterCloses, EpTypeOK
<1> QED BY <1>1, <1>2, <1>3, <1>4 DEF Router

LEMMA EpStepType ==
  ASSUME EpTypeOK, EpStep
  PROVE  EpTypeOK'
<1>0. <<>> \in Seq(Incoming \cup Response)
  OBVIOUS
<1>1. CASE EpClose
  BY <1>0, <1>1 DEF EpClose, FreshSocket, EpTypeOK
<1>2. CASE EpConnect
  BY <1>0, <1>2 DEF EpConnect, FreshSocket, EpTypeOK
<1>3. CASE AskFailed
  <2>1. ep_msgid' \in EpMsgids /\ waiting' \in EpMsgids
    BY <1>3, NextIdType DEF AskFailed, EpTypeOK
  <2> QED BY <1>0, <1>3, <2>1 DEF AskFailed, FreshSocket, EpTypeOK
<1>4. ASSUME NEW m \in Methods \cup {Reset}, AskSent(m) PROVE EpTypeOK'
  <2>1. ep_msgid' \in EpMsgids /\ waiting' \in EpMsgids
    BY <1>4, NextIdType DEF AskSent, EpTypeOK
  <2>2. [msgid |-> ep_msgid, method |-> m, done |-> FALSE] \in Ask
    BY DEF EpTypeOK, Ask
  <2> QED BY <1>4, <2>1, <2>2 DEF AskSent, EpTypeOK
<1>5. CASE SkipNotify \/ SkipRequest \/ TakeReply \/ TakeFrame
  <2>1. inbox # <<>> /\ inbox' = Tail(inbox)
    BY <1>5 DEF SkipNotify, SkipRequest, TakeReply, TakeFrame, ReplyAccepted, Front
  <2>2. inbox' \in Seq(Incoming \cup Response)
    BY <2>1 DEF EpTypeOK
  <2>3. UNCHANGED <<ep_open, ep_msgid, waiting, ep_peer, asks, registry, sent>>
    BY <1>5 DEF SkipNotify, SkipRequest, TakeReply, TakeFrame
  <2> QED BY <2>2, <2>3 DEF EpTypeOK
<1>6. CASE Router
  BY <1>6, RouterType
<1>7. CASE UNCHANGED epVars
  BY <1>7 DEF epVars, EpTypeOK
<1> QED BY <1>1, <1>2, <1>3, <1>4, <1>5, <1>6, <1>7 DEF EpStep

\* The parameters in force, or waited for, are of the declared type.
LEMMA ConfigType ==
  \A c \in Configs \cup {DefaultConfig} :
    /\ c \in Config
    /\ c.valid \in BOOLEAN
    /\ c.max_queue \in Nat \ {0}
    /\ c.methods \in Seq(Methods)
<1>1. DefaultConfig \in Config
  <2>1. <<>> \in Seq(Methods)
    OBVIOUS
  <2> QED BY <2>1 DEF DefaultConfig, Config, Policies
<1>2. \A c \in Config : /\ c.valid \in BOOLEAN
                        /\ c.max_queue \in Nat \ {0}
                        /\ c.methods \in Seq(Methods)
  BY DEF Config
<1> QED BY <1>1, <1>2, SourceAssumption

\* Every step of the system is a step of the endpoint, or leaves it alone.
LEMMA NextIsEpStep ==
  ASSUME TInv, [Next]_vars
  PROVE  EpStep
<1>1. main = "register" /\ nreg < Len(cfg.methods) =>
        cfg.methods[nreg + 1] \in Methods
  <2> SUFFICES ASSUME nreg < Len(cfg.methods) PROVE cfg.methods[nreg + 1] \in Methods
    OBVIOUS
  <2>1. cfg.methods \in Seq(Methods)
    BY ConfigType DEF TInv, TypeOK
  <2>2. nreg \in Nat
    BY DEF TInv, TypeOK
  <2> QED BY <2>1, <2>2
<1>2. CASE SetParams \/ Destroy \/ GetOutput
  BY <1>2 DEF SetParams, Destroy, GetOutput, GetBatches, GetError, EpStep
<1>3. CASE Stop
  BY <1>3 DEF Stop, Configure, Destroyed, EpStep
<1>4. CASE Start
  BY <1>1, <1>4 DEF Start, ConnectEndpoint, RegisterNext, RegisterSkips,
     Registered, RegisterFails, ThreadFails, StartThread, EpStep
<1>5. CASE Receiver
  BY <1>5 DEF Receiver, Check, Receive, ReceiveTimeout, ReceiveThrows, Enqueue,
     Respond, RespondThrows, ReceiverFails, ResetSent, ResetSkips, ResetDone, EpStep
<1>6. CASE RouterStep
  BY <1>6 DEF RouterStep, EpStep
<1>7. CASE UNCHANGED vars
  BY <1>7 DEF vars, EpStep
<1> QED BY <1>2, <1>3, <1>4, <1>5, <1>6, <1>7 DEF Next

\* The conjuncts of TypeOK about the plugin, in the state after a step.
LEMMA PluginType ==
  ASSUME TInv, [Next]_vars
  PROVE  /\ main' \in MainPcs /\ recv' \in RecvPcs
         /\ cfg' \in Configs \cup {DefaultConfig}
         /\ next_cfg' \in Configs \cup {DefaultConfig}
         /\ setup_ok' \in BOOLEAN /\ running' \in BOOLEAN
         /\ nreg' \in Nat
         /\ msg' \in Incoming \cup {<<>>}
         /\ queued' \in BOOLEAN
         /\ queue' \in Seq(MsgNums)
         /\ rerror' \in BOOLEAN
         /\ MsgInv'
<1> USE DEF TInv, TypeOK, MsgInv
<1>0. <<>> \in Seq(MsgNums)
  OBVIOUS
<1>1. CASE SetParams \/ Destroy
  BY <1>1 DEF SetParams, Destroy, setup, locals, box, MainPcs
<1>2. CASE Configure
  <2>1. setup_ok' \in BOOLEAN
    <3>1. next_cfg.valid \in BOOLEAN
      BY ConfigType
    <3> QED BY <1>2, <3>1 DEF Configure
  <2>2. main' \in MainPcs
    BY <1>2 DEF Configure, MainPcs
  <2>3. cfg' = next_cfg /\ queue' = <<>> /\ rerror' = FALSE
    BY <1>2 DEF Configure
  <2>4. UNCHANGED <<recv, running, next_cfg, nreg, msg, queued>>
    BY <1>2 DEF Configure, locals
  <2> QED BY <1>0, <2>1, <2>2, <2>3, <2>4
<1>3. CASE Destroyed
  <2>1. main' \in MainPcs
    BY <1>3 DEF Destroyed, MainPcs
  <2>2. UNCHANGED <<recv, running, cfg, next_cfg, setup_ok, nreg, msg, queued, queue, rerror>>
    BY <1>3 DEF Destroyed, setup, locals, box
  <2> QED BY <2>1, <2>2
<1>4. CASE ConnectEndpoint \/ RegisterNext
  <2>1. CASE ConnectEndpoint
    <3>1. main' \in MainPcs /\ nreg' \in Nat
      BY <2>1 DEF ConnectEndpoint, StartFails, MainPcs
    <3>2. setup_ok' = FALSE \/ UNCHANGED setup_ok
      BY <2>1 DEF ConnectEndpoint, StartFails
    <3>3. UNCHANGED <<recv, running, cfg, next_cfg, msg, queued, queue, rerror>>
      BY <2>1 DEF ConnectEndpoint, StartFails, locals, box
    <3>4. setup_ok' \in BOOLEAN
      BY <3>2
    <3> QED BY <3>1, <3>3, <3>4
  <2>2. CASE RegisterNext
    BY <2>2 DEF RegisterNext, StartFails, setup, locals, box, MainPcs
  <2> QED BY <1>4, <2>1, <2>2
<1>5. CASE RegisterSkips \/ Registered \/ RegisterFails \/ ThreadFails \/ StartThread
  <2>1. CASE RegisterSkips
    BY <2>1 DEF RegisterSkips, plugin, setup, locals, box
  <2>2. CASE Registered
    BY <2>2 DEF Registered, locals, box, MainPcs
  <2>3. CASE RegisterFails \/ ThreadFails
    BY <2>3 DEF RegisterFails, ThreadFails, StartFails, locals, box, MainPcs
  <2>4. CASE StartThread
    BY <2>4 DEF StartThread, setup, locals, box, MainPcs, RecvPcs
  <2> QED BY <1>5, <2>1, <2>2, <2>3, <2>4
<1>6. CASE GetOutput
  BY <1>0, <1>6 DEF GetOutput, GetBatches, GetError, plugin, setup, locals, box
<1>7. CASE Check \/ ReceiveTimeout \/ ReceiveThrows \/ RespondThrows \/ ResetSent
             \/ ResetDone
  BY <1>7 DEF Check, ReceiveTimeout, ReceiveThrows, RespondThrows, ResetSent,
     ResetDone, Caught, setup, locals, box, RecvPcs
<1>8. CASE Receive
  <2>1. Head(inbox) \in Incoming
    <3>1. Head(inbox) \in Incoming \cup Response /\ Head(inbox).kind # "response"
      BY <1>8 DEF Receive, Receivable, EpTypeOK
    <3> QED BY <3>1 DEF Response
  <2> QED BY <1>8, <2>1 DEF Receive, setup, box, RecvPcs
<1>9. CASE Enqueue
  <2>1. msg \in Incoming /\ msg.n \in MsgNums
    BY <1>9 DEF Enqueue, Incoming
  <2>2. Kept \in Seq(MsgNums)
    <3>1. cfg.max_queue \in Nat /\ cfg.max_queue > 0
      BY ConfigType
    <3>2. CASE Full
      <4>1. queue # <<>>
        BY <3>1, <3>2 DEF Full
      <4> QED BY <3>2, <4>1 DEF Kept
    <3> QED BY <3>2 DEF Kept
  <2>3. queue' \in Seq(MsgNums)
    <3>1. CASE Refused
      BY <1>9, <3>1 DEF Enqueue
    <3>2. CASE ~Refused
      <4>1. queue' = Append(Kept, msg.n)
        BY <1>9, <3>2 DEF Enqueue
      <4> HIDE DEF TInv, TypeOK
      <4> QED BY <2>1, <2>2, <4>1
    <3> QED BY <3>1, <3>2
  <2>4. queued' \in BOOLEAN
    BY <1>9 DEF Enqueue
  <2>5. UNCHANGED <<main, running, setup, msg, rerror>>
    BY <1>9 DEF Enqueue
  <2>6. recv' \in {"respond", "check"}
    BY <1>9 DEF Enqueue
  <2> QED BY <2>1, <2>3, <2>4, <2>5, <2>6 DEF setup, RecvPcs
<1>10. CASE Respond \/ ReceiverFails \/ ResetSkips
  BY <1>10 DEF Respond, ReceiverFails, ResetSkips, plugin, setup, locals, box, RecvPcs
<1>11. CASE RouterStep
  BY <1>11 DEF RouterStep, plugin, setup, locals, box
<1>12. CASE UNCHANGED vars
  BY <1>12 DEF vars, plugin, setup, locals, box
<1> QED BY <1>1, <1>2, <1>3, <1>4, <1>5, <1>6, <1>7, <1>8, <1>9, <1>10, <1>11,
           <1>12 DEF Next, Stop, Start, Receiver

\* The conjuncts of TypeOK about the history, in the state after a step.
LEMMA HistoryType ==
  ASSUME TInv, [Next]_vars
  PROVE  /\ setups' \in 0 .. MaxSetups
         /\ born' \in 0 .. MaxMsgs
         /\ enqueued' \subseteq MsgNums
         /\ published' \in Seq(MsgNums)
         /\ told' \in BOOLEAN
         /\ answers' \in [MsgNums -> Answers]
         /\ skipped' \subseteq MsgNums
<1> USE DEF TInv, TypeOK
<1>1. CASE SetParams
  <2>1. setups' \in 0 .. MaxSetups
    BY <1>1, SourceAssumption DEF SetParams
  <2> QED BY <1>1, <2>1 DEF SetParams
<1>2. CASE Configure
  <2>1. <<>> \in Seq(MsgNums)
    OBVIOUS
  <2> QED BY <1>2, <2>1 DEF Configure, EpTypeOK
<1>3. CASE ConnectEndpoint
  BY <1>3 DEF ConnectEndpoint, history
<1>4. CASE RegisterSkips \/ ResetSkips
  <2>1. Head(inbox).n \in MsgNums
    <3>1. Head(inbox) \in Incoming \cup Response /\ Head(inbox).kind # "response"
      BY <1>4 DEF RegisterSkips, ResetSkips, SkipNotify, SkipRequest, Front, EpTypeOK
    <3> QED BY <3>1 DEF Incoming, Response
  <2>2. answers' \in [MsgNums -> Answers] /\ skipped' \subseteq MsgNums
    BY <1>4, <2>1 DEF RegisterSkips, ResetSkips, Answers
  <2>3. UNCHANGED <<setups, born, enqueued, published, told>>
    BY <1>4 DEF RegisterSkips, ResetSkips
  <2> QED BY <2>2, <2>3
<1>5. CASE GetBatches
  <2>1. published \o queue \in Seq(MsgNums)
    OBVIOUS
  <2> QED BY <1>5, <2>1 DEF GetBatches
<1>6. CASE GetError
  BY <1>6 DEF GetError
<1>7. CASE Enqueue
  <2>1. msg.n \in MsgNums
    BY <1>7 DEF Enqueue, MsgInv, Incoming
  <2>2. enqueued' \subseteq MsgNums
    BY <1>7, <2>1 DEF Enqueue
  <2> QED BY <1>7, <2>2 DEF Enqueue
<1>8. CASE Respond
  <2>1. Reply \in Answers
    BY DEF Reply, Answers
  <2>2. answers' \in [MsgNums -> Answers]
    BY <1>8, <2>1 DEF Respond
  <2> QED BY <1>8, <2>2 DEF Respond
<1>9. CASE Destroy \/ Destroyed \/ RegisterNext \/ Registered \/ RegisterFails \/ ThreadFails
             \/ StartThread
  BY <1>9 DEF Destroy, Destroyed, RegisterNext, Registered, RegisterFails, ThreadFails,
     StartThread, history
<1>10. CASE Check \/ Receive \/ ReceiveTimeout \/ ReceiveThrows \/ RespondThrows
              \/ ReceiverFails \/ ResetSent \/ ResetDone \/ RouterStep
  BY <1>10 DEF Check, Receive, ReceiveTimeout, ReceiveThrows, RespondThrows,
     ReceiverFails, ResetSent, ResetDone, RouterStep, history
<1>11. CASE UNCHANGED vars
  BY <1>11 DEF vars, history
<1> QED BY <1>1, <1>2, <1>3, <1>4, <1>5, <1>6, <1>7, <1>8, <1>9, <1>10, <1>11
        DEF Next, Stop, Start, GetOutput, Receiver

LEMMA InitTInv == Init => TInv
<1> SUFFICES ASSUME Init PROVE TInv
  OBVIOUS
<1>1. EpTypeOK
  <2>1. 0 \in EpMsgids /\ 0 \in 0 .. MaxMsgs
    BY EndpointAssumption DEF EpMsgids
  <2>2. <<>> \in Seq(Incoming \cup Response)
    OBVIOUS
  <2>3. inbox = <<>> /\ asks = {} /\ registry = {} /\ ep_open = FALSE /\ ep_peer = "down"
    BY DEF Init, EpInit
  <2>4. ep_msgid = 0 /\ waiting = 0 /\ sent = 0
    BY DEF Init, EpInit
  <2> QED BY <2>1, <2>2, <2>3, <2>4 DEF EpTypeOK
<1>2. main \in MainPcs /\ recv \in RecvPcs /\ MsgInv
  BY DEF Init, MainPcs, RecvPcs, MsgInv
<1>3. setup_ok \in BOOLEAN /\ running \in BOOLEAN /\ queued \in BOOLEAN
  BY DEF Init
<1>4. rerror \in BOOLEAN /\ told \in BOOLEAN
  BY DEF Init
<1>5. queue \in Seq(MsgNums) /\ published \in Seq(MsgNums)
  <2>1. <<>> \in Seq(MsgNums)
    OBVIOUS
  <2> QED BY <2>1 DEF Init
<1>6. setups \in 0 .. MaxSetups /\ born \in 0 .. MaxMsgs /\ nreg \in Nat
  BY SourceAssumption, EndpointAssumption DEF Init
<1>7. answers \in [MsgNums -> Answers]
  BY DEF Init, Answers
<1>8. /\ cfg \in Configs \cup {DefaultConfig}
      /\ next_cfg \in Configs \cup {DefaultConfig}
      /\ msg \in Incoming \cup {<<>>}
      /\ enqueued \subseteq MsgNums /\ skipped \subseteq MsgNums
  BY DEF Init
<1> QED BY <1>1, <1>2, <1>3, <1>4, <1>5, <1>6, <1>7, <1>8 DEF TInv, TypeOK

LEMMA NextTInv ==
  ASSUME TInv, [Next]_vars
  PROVE  TInv'
<1>1. EpTypeOK'
  BY NextIsEpStep, EpStepType DEF TInv, TypeOK
<1> QED BY <1>1, PluginType, HistoryType DEF TInv, TypeOK

LEMMA InvariantTInv == Spec => []TInv
BY InitTInv, NextTInv, PTL DEF Spec

\* Every variable of the plugin, the endpoint and the history keeps its shape.
THEOREM TypeCorrect == Spec => []TypeOK
<1>1. TInv => TypeOK
  BY DEF TInv
<1> QED BY <1>1, InvariantTInv, PTL
----------------------------------------------------------------------------
(* Who owns the endpoint, and when the error is told.                      *)

\* The receiver is past its loop, or there is none.
Ended == recv \in {"none", "reset", "await"}

Starting == main \in {"connect", "register", "await"}

\* EndpointOwned and ErrorIsFinal, with what carries them: a start begins with
\* no error on record, and an error is on record only past the loop.
OwnInv ==
  /\ EndpointOwned
  /\ main \in {"register", "await"} => ep_open
  /\ Starting => ~rerror /\ ~told
  /\ rerror => Ended
  /\ ErrorIsFinal

LEMMA InitOwnInv == Init => OwnInv
BY DEF Init, OwnInv, EndpointOwned, Starting, Ended, ErrorIsFinal

\* What the endpoint's own steps do to ep_open.
LEMMA OpenFacts ==
  /\ EpClose => ep_open' = FALSE
  /\ EpConnect => ep_open' = TRUE
  /\ SkipNotify \/ SkipRequest \/ TakeReply \/ TakeFrame \/ Router => UNCHANGED ep_open
  /\ \A m : AskSent(m) => UNCHANGED ep_open
BY DEF EpClose, EpConnect, SkipNotify, SkipRequest, TakeReply, TakeFrame, AskSent,
   Router, RouterActs, RouterReplies, RouterRefuses, SketchSends, RouterCloses

LEMMA NextOwnInv ==
  ASSUME TInv, OwnInv, [Next]_vars
  PROVE  OwnInv'
<1> USE DEF OwnInv, EndpointOwned, Starting, Ended, ErrorIsFinal
<1>1. CASE SetParams \/ Destroy
  BY <1>1 DEF SetParams, Destroy, epVars, box, history
<1>2. CASE Stop
  <2>1. CASE Configure
    <3>1. main' \in {"connect", "idle"} /\ recv' = "none"
      BY <2>1 DEF Configure, Joined
    <3>2. queue' = <<>> /\ rerror' = FALSE /\ told' = FALSE
      BY <2>1 DEF Configure
    <3> QED BY <3>1, <3>2
  <2>2. CASE Destroyed
    <3>1. main' = "gone" /\ recv' = "none" /\ UNCHANGED <<queue, rerror, told>>
      BY <2>2 DEF Destroyed, Joined, box, history
    <3> QED BY <3>1
  <2> QED BY <1>2, <2>1, <2>2 DEF Stop
<1>3. CASE ConnectEndpoint
  BY <1>3, OpenFacts DEF ConnectEndpoint, StartFails, box, history
<1>4. CASE RegisterNext
  <2>1. main = "register" /\ UNCHANGED <<recv, queue, rerror, told>>
    BY <1>4 DEF RegisterNext, StartFails, box, history
  <2>2. \/ main' = "await" /\ UNCHANGED ep_open
        \/ main' = "idle"
    BY <1>4, OpenFacts DEF RegisterNext, StartFails
  <2> QED BY <2>1, <2>2
<1>5. CASE RegisterSkips \/ Registered
  BY <1>5, OpenFacts DEF RegisterSkips, Registered, plugin, box, history
<1>6. CASE RegisterFails \/ ThreadFails
  BY <1>6, OpenFacts DEF RegisterFails, ThreadFails, StartFails, box, history
<1>7. CASE StartThread
  BY <1>7 DEF StartThread, epVars, box, history
<1>8. CASE GetOutput
  BY <1>8 DEF GetOutput, GetBatches, GetError, Polled, TellGuard, plugin, box, epVars
<1>9. CASE Check \/ ReceiveTimeout
  BY <1>9 DEF Check, ReceiveTimeout, box, epVars, history
<1>10. CASE Receive
  BY <1>10, OpenFacts DEF Receive, box, history
<1>11. CASE ReceiveThrows
  <2>1. recv = "receive" /\ recv' \in {"fail", "reset"}
    BY <1>11 DEF ReceiveThrows, Caught
  <2>2. UNCHANGED <<main, queue, rerror, told>>
    BY <1>11 DEF ReceiveThrows, box, history
  <2>3. UNCHANGED ep_open
    BY <1>11, OpenFacts DEF ReceiveThrows, epVars
  <2> QED BY <2>1, <2>2, <2>3
<1>12. CASE Enqueue \/ Respond
  BY <1>12 DEF Enqueue, Respond, box, epVars
<1>13. CASE RespondThrows \/ ReceiverFails
  BY <1>13 DEF RespondThrows, ReceiverFails, Caught, box, epVars, history
<1>14. CASE ResetSent \/ ResetDone
  BY <1>14, OpenFacts DEF ResetSent, ResetDone, box, history
<1>15. CASE ResetSkips
  <2>1. UNCHANGED <<main, recv, queue, rerror, told>>
    BY <1>15 DEF ResetSkips, plugin, box
  <2>2. UNCHANGED ep_open
    BY <1>15, OpenFacts DEF ResetSkips
  <2> QED BY <2>1, <2>2
<1>16. CASE RouterStep
  BY <1>16, OpenFacts DEF RouterStep, plugin, box, history
<1>17. CASE UNCHANGED vars
  BY <1>17 DEF vars, plugin, box, history, epVars
<1> QED BY <1>1, <1>2, <1>3, <1>4, <1>5, <1>6, <1>7, <1>8, <1>9, <1>10, <1>11,
           <1>12, <1>13, <1>14, <1>15, <1>16, <1>17 DEF Next, Start, Receiver

LEMMA InvariantOwnInv == Spec => []OwnInv
<1>1. Init => TInv /\ OwnInv
  BY InitTInv, InitOwnInv
<1>2. TInv /\ OwnInv /\ [Next]_vars => (TInv /\ OwnInv)'
  BY NextTInv, NextOwnInv
<1> QED BY <1>1, <1>2, PTL DEF Spec

\* The agent's thread and the receiver never use the endpoint at once, and it
\* is not closed under a receiver at work: that it has no lock is no race.
THEOREM EndpointAlwaysOwned == Spec => []EndpointOwned
<1>1. OwnInv => EndpointOwned
  BY DEF OwnInv
<1> QED BY <1>1, InvariantOwnInv, PTL

\* After the error is returned nothing is left in the queue, and no receiver
\* that could add to it: the agent may stop on it and loses no message.
THEOREM ErrorAlwaysFinal == Spec => []ErrorIsFinal
<1>1. OwnInv => ErrorIsFinal
  BY DEF OwnInv
<1> QED BY <1>1, InvariantOwnInv, PTL
----------------------------------------------------------------------------
(* Honest answers.                                                         *)

\* Nothing has become of message n yet.
Fresh(n) == n \notin enqueued /\ answers[n] = "none"

Numbered(q) == {i \in 1 .. Len(q) : q[i].kind # "response"}

\* Messages come once, in the order sent; one that waits to be sent or to be
\* read is fresh.
WireInv ==
  /\ \A n \in MsgNums : n > sent => Fresh(n)
  /\ \A i \in Numbered(inbox) : inbox[i].n <= sent /\ Fresh(inbox[i].n)
  /\ \A i, j \in Numbered(inbox) : i < j => inbox[i].n < inbox[j].n

\* The message in the loop is not in the inbox as well, and queued says what
\* became of it.
LoopInv ==
  /\ recv = "enqueue" => Fresh(msg.n)
  /\ recv = "respond" => (queued <=> msg.n \in enqueued)
  /\ recv \in {"enqueue", "respond"} =>
       msg.n <= sent /\ \A i \in Numbered(inbox) : inbox[i].n # msg.n

HonInv == WireInv /\ LoopInv /\ HonestAnswer

\* The steps that leave the messages alone, or throw some away.
Passive ==
  /\ UNCHANGED <<sent, enqueued, answers>>
  /\ \/ inbox' \in {inbox, <<>>}
     \/ inbox # <<>> /\ inbox' = Tail(inbox)

LEMMA InitHonInv == Init => HonInv
<1> SUFFICES ASSUME Init PROVE HonInv
  OBVIOUS
<1>1. \A n \in MsgNums : answers[n] = "none" /\ n \notin enqueued
  BY DEF Init
<1>2. Numbered(inbox) = {}
  BY DEF Init, EpInit, Numbered
<1>3. recv = "none"
  BY DEF Init
<1> QED BY <1>1, <1>2, <1>3 DEF HonInv, WireInv, LoopInv, HonestAnswer, Fresh

LEMMA Shrinks ==
  ASSUME EpTypeOK,
         \/ inbox' \in {inbox, <<>>}
         \/ inbox # <<>> /\ inbox' = Tail(inbox)
  PROVE  \E d \in {0, 1} :
           \A i \in Numbered(inbox') :
             i \in Nat /\ i + d \in Numbered(inbox) /\ inbox'[i] = inbox[i + d]
<1>0. inbox \in Seq(Incoming \cup Response)
  BY DEF EpTypeOK
<1>1. CASE inbox' = inbox
  <2>1. \A i \in Numbered(inbox') : i \in Nat /\ i + 0 = i
    BY DEF Numbered
  <2> QED BY <1>1, <2>1
<1>2. CASE inbox' = <<>>
  <2>1. Numbered(inbox') = {}
    BY <1>2 DEF Numbered
  <2> QED BY <2>1
<1>3. CASE inbox # <<>> /\ inbox' = Tail(inbox)
  <2>1. ASSUME NEW i \in Numbered(inbox')
        PROVE  i \in Nat /\ i + 1 \in Numbered(inbox) /\ inbox'[i] = inbox[i + 1]
    <3>1. i \in 1 .. Len(inbox') /\ inbox'[i].kind # "response"
      BY DEF Numbered
    <3>2. inbox'[i] = inbox[i + 1] /\ i + 1 \in 1 .. Len(inbox)
      BY <1>0, <1>3, <3>1
    <3> QED BY <3>1, <3>2 DEF Numbered
  <2> QED BY <2>1
<1> QED BY <1>1, <1>2, <1>3

\* What is left after the first frame is taken is numbered above it.
LEMMA AboveHead ==
  ASSUME EpTypeOK, WireInv, inbox # <<>>, Head(inbox).kind # "response",
         inbox' = Tail(inbox)
  PROVE  /\ Head(inbox) \in Incoming
         /\ Head(inbox).n <= sent /\ Fresh(Head(inbox).n)
         /\ \A i \in Numbered(inbox') : inbox'[i].n # Head(inbox).n
<1>0. inbox \in Seq(Incoming \cup Response)
  BY DEF EpTypeOK
<1>1. Head(inbox) = inbox[1] /\ 1 \in Numbered(inbox)
  BY <1>0 DEF Numbered
<1>2. Head(inbox) \in Incoming
  <2>1. Head(inbox) \in Incoming \cup Response
    BY <1>0
  <2> QED BY <2>1 DEF Response
<1>3. ASSUME NEW i \in Numbered(inbox') PROVE inbox'[i].n # Head(inbox).n
  <2>1. i \in 1 .. Len(inbox') /\ inbox'[i].kind # "response"
    BY DEF Numbered
  <2>2. inbox'[i] = inbox[i + 1] /\ i + 1 \in 1 .. Len(inbox)
    BY <1>0, <2>1
  <2>3. i + 1 \in Numbered(inbox) /\ 1 < i + 1
    BY <2>1, <2>2 DEF Numbered
  <2>4. inbox[1].n < inbox[i + 1].n
    BY <1>1, <2>3 DEF WireInv
  <2>5. inbox[1].n \in Int /\ inbox[i + 1].n \in Int
    <3>1. inbox[i + 1] \in Incoming
      <4>1. inbox[i + 1] \in Incoming \cup Response
        BY <1>0, <2>2
      <4> QED BY <2>3, <4>1 DEF Numbered, Response
    <3> QED BY <1>1, <1>2, <3>1 DEF Incoming, MsgNums
  <2>6. inbox[i + 1].n # inbox[1].n
    BY <2>4, <2>5
  <2> QED BY <1>1, <2>2, <2>6
<1> QED BY <1>1, <1>2, <1>3 DEF WireInv

LEMMA PassiveWire ==
  ASSUME EpTypeOK, WireInv, Passive
  PROVE  WireInv'
<1>1. PICK d \in {0, 1} :
        \A i \in Numbered(inbox') :
          i \in Nat /\ i + d \in Numbered(inbox) /\ inbox'[i] = inbox[i + d]
  BY Shrinks DEF Passive
<1>2. UNCHANGED <<sent, enqueued, answers>>
  BY DEF Passive
<1>3. (\A n \in MsgNums : n > sent => Fresh(n))'
  BY <1>2 DEF WireInv, Fresh
<1>4. (\A i \in Numbered(inbox) : inbox[i].n <= sent /\ Fresh(inbox[i].n))'
  <2> SUFFICES ASSUME NEW i \in Numbered(inbox')
               PROVE  (inbox[i].n <= sent /\ Fresh(inbox[i].n))'
    BY DEF Numbered
  <2>1. inbox[i + d].n <= sent /\ Fresh(inbox[i + d].n)
    BY <1>1 DEF WireInv
  <2> QED BY <1>1, <1>2, <2>1 DEF Fresh
<1>5. ASSUME NEW i \in Numbered(inbox'), NEW j \in Numbered(inbox'), i < j
      PROVE  inbox'[i].n < inbox'[j].n
  <2>1. i + d < j + d
    BY <1>1, <1>5
  <2> QED BY <1>1, <2>1 DEF WireInv
<1> QED BY <1>3, <1>4, <1>5 DEF WireInv, Numbered, Fresh

\* A passive step that does not bring a message into the loop.
LEMMA PassiveHon ==
  ASSUME EpTypeOK, HonInv, Passive,
         \/ recv' \notin {"enqueue", "respond"}
         \/ UNCHANGED <<recv, msg, queued>>
  PROVE  HonInv'
<1>1. WireInv'
  BY PassiveWire DEF HonInv
<1>2. LoopInv'
  <2>1. PICK d \in {0, 1} :
          \A i \in Numbered(inbox') :
            i \in Nat /\ i + d \in Numbered(inbox) /\ inbox'[i] = inbox[i + d]
    BY Shrinks DEF Passive
  <2>2. UNCHANGED <<sent, enqueued, answers>>
    BY DEF Passive
  <2>3. CASE recv' \notin {"enqueue", "respond"}
    BY <2>3 DEF LoopInv
  <2>4. CASE UNCHANGED <<recv, msg, queued>>
    BY <2>1, <2>2, <2>4 DEF HonInv, LoopInv, Fresh, Numbered
  <2> QED BY <2>3, <2>4
<1>3. HonestAnswer'
  BY DEF HonInv, HonestAnswer, Passive
<1> QED BY <1>1, <1>2, <1>3 DEF HonInv

\* The router answers the endpoint, or passes on a message of the sketch.
LEMMA RouterHon ==
  ASSUME TInv, HonInv, RouterStep
  PROVE  HonInv'
<1> USE DEF TInv, TypeOK
<1>0. UNCHANGED <<recv, msg, queued, enqueued, answers>>
  BY DEF RouterStep, plugin, locals, history
<1>1. CASE RouterActs \/ RouterCloses
  <2>1. Passive
    BY <1>0, <1>1 DEF RouterActs, RouterCloses, Passive
  <2> QED BY <1>0, <2>1, PassiveHon
<1>2. CASE RouterReplies \/ RouterRefuses
  <2>1. PICK r : r.kind = "response" /\ inbox' = Append(inbox, r) /\ UNCHANGED sent
    <3>1. ASSUME NEW a, NEW ok
          PROVE  [kind |-> "response", msgid |-> a, ok |-> ok].kind = "response"
      OBVIOUS
    <3> QED BY <1>2, <3>1 DEF RouterReplies, RouterRefuses
  <2>2. inbox \in Seq(Incoming \cup Response)
    BY DEF EpTypeOK
  <2>3. \A i \in Numbered(inbox') : i \in Numbered(inbox) /\ inbox'[i] = inbox[i]
    BY <2>1, <2>2 DEF Numbered
  <2>4. WireInv'
    <3>1. (\A i \in Numbered(inbox) : inbox[i].n <= sent /\ Fresh(inbox[i].n))'
      <4> SUFFICES ASSUME NEW i \in Numbered(inbox')
                   PROVE  (inbox[i].n <= sent /\ Fresh(inbox[i].n))'
        BY DEF Numbered
      <4> QED BY <1>0, <2>1, <2>3 DEF HonInv, WireInv, Fresh
    <3>2. (\A n \in MsgNums : n > sent => Fresh(n))'
      BY <1>0, <2>1 DEF HonInv, WireInv, Fresh
    <3>3. (\A i, j \in Numbered(inbox) : i < j => inbox[i].n < inbox[j].n)'
      BY <2>3 DEF HonInv, WireInv, Numbered
    <3> QED BY <3>1, <3>2, <3>3 DEF WireInv
  <2>5. LoopInv'
    BY <1>0, <2>1, <2>3 DEF HonInv, LoopInv, Fresh, Numbered
  <2>6. HonestAnswer'
    BY <1>0 DEF HonInv, HonestAnswer
  <2> QED BY <2>4, <2>5, <2>6 DEF HonInv
<1>3. CASE SketchSends
  <2>1. PICK k \in {"notify", "request"}, ok \in BOOLEAN :
          inbox' = Append(inbox, [kind |-> k, n |-> sent + 1, ok |-> ok])
    BY <1>3 DEF SketchSends
  <2> DEFINE new == [kind |-> k, n |-> sent + 1, ok |-> ok]
  <2> DEFINE l == Len(inbox) + 1
  <2>2. /\ inbox \in Seq(Incoming \cup Response)
        /\ sent \in Nat /\ sent < MaxMsgs /\ sent' = sent + 1 /\ sent + 1 \in MsgNums
    BY <1>3, EndpointAssumption DEF EpTypeOK, SketchSends, MsgNums
  <2>3. new.n = sent + 1
    OBVIOUS
  <2> HIDE DEF new
  <2>4. inbox' = Append(inbox, new)
    BY <2>1 DEF new
  <2>5. \A i \in Numbered(inbox') :
          \/ i \in Numbered(inbox) /\ i \in Nat /\ i < l /\ inbox'[i] = inbox[i]
          \/ i = l /\ inbox'[i] = new
    BY <2>2, <2>4 DEF Numbered
  <2>6. Fresh(sent + 1)
    BY <2>2 DEF HonInv, WireInv
  <2>7. \A i \in Numbered(inbox) : inbox[i].n \in Nat /\ inbox[i].n <= sent
    <3> SUFFICES ASSUME NEW i \in Numbered(inbox) PROVE inbox[i].n \in Nat
      BY DEF HonInv, WireInv
    <3>1. inbox[i] \in Incoming \cup Response /\ inbox[i].kind # "response"
      BY <2>2 DEF Numbered
    <3> QED BY <3>1 DEF Incoming, Response, MsgNums
  <2>8. WireInv'
    <3>1. (\A i \in Numbered(inbox) : inbox[i].n <= sent /\ Fresh(inbox[i].n))'
      <4> SUFFICES ASSUME NEW i \in Numbered(inbox')
                   PROVE  (inbox[i].n <= sent /\ Fresh(inbox[i].n))'
        BY DEF Numbered
      <4>1. CASE i \in Numbered(inbox) /\ inbox'[i] = inbox[i]
        BY <1>0, <2>2, <2>7, <4>1 DEF HonInv, WireInv, Fresh
      <4>2. CASE inbox'[i] = new
        BY <1>0, <2>2, <2>3, <2>6, <4>2 DEF Fresh
      <4> QED BY <2>5, <4>1, <4>2
    <3>2. (\A n \in MsgNums : n > sent => Fresh(n))'
      BY <1>0, <2>2 DEF HonInv, WireInv, Fresh, MsgNums
    <3>3. ASSUME NEW i \in Numbered(inbox'), NEW j \in Numbered(inbox'), i < j
          PROVE  inbox'[i].n < inbox'[j].n
      <4>0. l \in Nat
        BY <2>2
      <4>1. i \in Numbered(inbox) /\ inbox'[i] = inbox[i]
        BY <2>5, <3>3, <4>0
      <4>2. CASE j \in Numbered(inbox) /\ inbox'[j] = inbox[j]
        BY <3>3, <4>1, <4>2 DEF HonInv, WireInv
      <4>3. CASE inbox'[j] = new
        BY <2>2, <2>3, <2>7, <4>1, <4>3
      <4> QED BY <2>5, <4>2, <4>3
    <3> QED BY <3>1, <3>2, <3>3 DEF WireInv, Numbered
  <2>9. LoopInv'
    <3>1. recv \in {"enqueue", "respond"} => msg.n <= sent /\ msg.n \in Nat
      BY DEF HonInv, LoopInv, MsgInv, Incoming, MsgNums
    <3>2. recv \in {"enqueue", "respond"} =>
            msg.n <= sent + 1 /\ \A i \in Numbered(inbox') : inbox'[i].n # msg.n
      <4> SUFFICES ASSUME recv \in {"enqueue", "respond"}
                   PROVE  /\ msg.n <= sent + 1
                          /\ \A i \in Numbered(inbox') : inbox'[i].n # msg.n
        OBVIOUS
      <4>1. msg.n <= sent + 1 /\ new.n # msg.n
        BY <2>2, <2>3, <3>1
      <4>2. \A i \in Numbered(inbox) : inbox[i].n # msg.n
        BY DEF HonInv, LoopInv
      <4> QED BY <2>5, <4>1, <4>2
    <3> QED BY <1>0, <2>2, <3>2 DEF HonInv, LoopInv, Fresh, Numbered
  <2>10. HonestAnswer'
    BY <1>0 DEF HonInv, HonestAnswer
  <2> QED BY <2>8, <2>9, <2>10 DEF HonInv
<1> QED BY <1>1, <1>2, <1>3 DEF RouterStep, Router

\* A request met while waiting is answered with an error, and never queued.
LEMMA SkipHon ==
  ASSUME TInv, OwnInv, HonInv, RegisterSkips \/ ResetSkips
  PROVE  HonInv'
<1> USE DEF TInv, TypeOK
<1>0. UNCHANGED <<recv, msg, queued, enqueued, sent>>
  BY DEF RegisterSkips, ResetSkips, SkipNotify, SkipRequest, plugin, locals
<1>1. recv \notin {"enqueue", "respond"}
  BY DEF RegisterSkips, ResetSkips, OwnInv, EndpointOwned
<1>2. /\ inbox # <<>> /\ Head(inbox).kind # "response"
      /\ inbox' = Tail(inbox)
  BY DEF RegisterSkips, ResetSkips, SkipNotify, SkipRequest, Front
<1>3. CASE UNCHANGED answers
  <2>1. Passive
    BY <1>0, <1>2, <1>3 DEF Passive
  <2> QED BY <1>0, <2>1, PassiveHon
<1>4. CASE answers' = [answers EXCEPT ![Head(inbox).n] = "error"]
  <2> DEFINE h == Head(inbox).n
  <2>1. /\ Head(inbox) \in Incoming /\ h <= sent /\ Fresh(h)
        /\ \A i \in Numbered(inbox') : inbox'[i].n # h
    BY <1>2, AboveHead DEF HonInv
  <2>2. h \in MsgNums /\ h \in Nat
    BY <2>1 DEF Incoming, MsgNums
  <2>3. answers' = [answers EXCEPT ![h] = "error"] /\ answers \in [MsgNums -> Answers]
    BY <1>4
  <2> HIDE DEF h
  <2>4. \A n \in MsgNums : n # h => answers'[n] = answers[n]
    BY <2>3
  <2>5. PICK d \in {0, 1} :
          \A i \in Numbered(inbox') :
            i \in Nat /\ i + d \in Numbered(inbox) /\ inbox'[i] = inbox[i + d]
    BY <1>2, Shrinks
  <2>6. \A i \in Numbered(inbox) : inbox[i].n \in MsgNums
    <3> SUFFICES ASSUME NEW i \in Numbered(inbox) PROVE inbox[i].n \in MsgNums
      OBVIOUS
    <3>1. inbox[i] \in Incoming \cup Response /\ inbox[i].kind # "response"
      BY DEF Numbered, EpTypeOK
    <3> QED BY <3>1 DEF Incoming, Response
  <2>7. WireInv'
    <3>1. (\A n \in MsgNums : n > sent => Fresh(n))'
      BY <1>0, <2>1, <2>2, <2>4 DEF HonInv, WireInv, Fresh, EpTypeOK, MsgNums
    <3>2. (\A i \in Numbered(inbox) : inbox[i].n <= sent /\ Fresh(inbox[i].n))'
      <4> SUFFICES ASSUME NEW i \in Numbered(inbox')
                   PROVE  (inbox[i].n <= sent /\ Fresh(inbox[i].n))'
        BY DEF Numbered
      <4>1. /\ inbox[i + d].n <= sent /\ Fresh(inbox[i + d].n)
            /\ inbox[i + d].n \in MsgNums
        BY <2>5, <2>6 DEF HonInv, WireInv
      <4>2. inbox'[i].n # h
        BY <2>1
      <4> QED BY <1>0, <2>4, <2>5, <4>1, <4>2 DEF Fresh
    <3>3. ASSUME NEW i \in Numbered(inbox'), NEW j \in Numbered(inbox'), i < j
          PROVE  inbox'[i].n < inbox'[j].n
      <4>1. i + d < j + d
        BY <2>5, <3>3
      <4> QED BY <2>5, <4>1 DEF HonInv, WireInv
    <3> QED BY <3>1, <3>2, <3>3 DEF WireInv, Numbered
  <2>8. LoopInv'
    BY <1>0, <1>1 DEF LoopInv
  <2>9. HonestAnswer'
    <3>1. answers'[h] = "error" /\ h \notin enqueued'
      BY <1>0, <2>1, <2>2, <2>3 DEF Fresh
    <3> QED BY <1>0, <2>4, <3>1 DEF HonInv, HonestAnswer
  <2> QED BY <2>7, <2>8, <2>9 DEF HonInv
<1> QED BY <1>3, <1>4 DEF RegisterSkips, ResetSkips

\* The receiver takes the first message into the loop.
LEMMA ReceiveHon ==
  ASSUME TInv, HonInv, Receive
  PROVE  HonInv'
<1> USE DEF TInv, TypeOK
<1>1. /\ inbox # <<>> /\ Head(inbox).kind # "response" /\ inbox' = Tail(inbox)
      /\ UNCHANGED <<sent, enqueued, answers>>
      /\ msg' = Head(inbox) /\ recv' = "enqueue"
  BY DEF Receive, Receivable, TakeFrame, history
<1>2. WireInv'
  BY <1>1, PassiveWire DEF HonInv, Passive
<1>3. /\ Head(inbox).n <= sent /\ Fresh(Head(inbox).n)
      /\ \A i \in Numbered(inbox') : inbox'[i].n # Head(inbox).n
  BY <1>1, AboveHead DEF HonInv
<1>4. LoopInv'
  BY <1>1, <1>3 DEF LoopInv, Fresh, Numbered
<1>5. HonestAnswer'
  BY <1>1 DEF HonInv, HonestAnswer
<1> QED BY <1>2, <1>4, <1>5 DEF HonInv

\* The message in the loop is queued or refused.
LEMMA EnqueueHon ==
  ASSUME TInv, HonInv, Enqueue
  PROVE  HonInv'
<1> USE DEF TInv, TypeOK
<1>1. /\ recv = "enqueue" /\ recv' \in {"respond", "check"}
      /\ UNCHANGED <<inbox, sent, answers, msg>>
  BY DEF Enqueue, epVars
<1>2. \/ enqueued' = enqueued /\ queued' = FALSE
      \/ enqueued' = enqueued \cup {msg.n} /\ queued' = TRUE
  BY DEF Enqueue
<1>3. /\ msg.n \in Nat /\ msg.n <= sent /\ Fresh(msg.n)
      /\ \A i \in Numbered(inbox) : inbox[i].n # msg.n
  BY <1>1 DEF HonInv, LoopInv, MsgInv, Incoming, MsgNums
<1>4. WireInv'
  <2>1. (\A n \in MsgNums : n > sent => Fresh(n))'
    BY <1>1, <1>2, <1>3 DEF HonInv, WireInv, Fresh, EpTypeOK, MsgNums
  <2>2. (\A i \in Numbered(inbox) : inbox[i].n <= sent /\ Fresh(inbox[i].n))'
    BY <1>1, <1>2, <1>3 DEF HonInv, WireInv, Fresh, Numbered
  <2>3. (\A i, j \in Numbered(inbox) : i < j => inbox[i].n < inbox[j].n)'
    BY <1>1 DEF HonInv, WireInv, Numbered
  <2> QED BY <2>1, <2>2, <2>3 DEF WireInv
<1>5. LoopInv'
  <2>1. queued' <=> msg.n \in enqueued'
    BY <1>2, <1>3 DEF Fresh
  <2> QED BY <1>1, <1>3, <2>1 DEF LoopInv, Numbered
<1>6. HonestAnswer'
  BY <1>1, <1>2, <1>3 DEF HonInv, HonestAnswer, Fresh
<1> QED BY <1>4, <1>5, <1>6 DEF HonInv

\* The answer sent says what became of the message.
LEMMA RespondHon ==
  ASSUME TInv, HonInv, Respond
  PROVE  HonInv'
<1> USE DEF TInv, TypeOK
<1>1. /\ recv = "respond" /\ recv' = "check"
      /\ UNCHANGED <<inbox, sent, enqueued>>
      /\ answers' = [answers EXCEPT ![msg.n] = Reply]
  BY DEF Respond, epVars
<1>2. /\ msg.n \in MsgNums /\ msg.n \in Nat /\ msg.n <= sent
      /\ queued <=> msg.n \in enqueued
      /\ \A i \in Numbered(inbox) : inbox[i].n # msg.n
  BY <1>1 DEF HonInv, LoopInv, MsgInv, Incoming, MsgNums
<1>3. \A n \in MsgNums : n # msg.n => answers'[n] = answers[n]
  BY <1>1
<1>4. WireInv'
  <2>1. (\A n \in MsgNums : n > sent => Fresh(n))'
    BY <1>1, <1>2, <1>3 DEF HonInv, WireInv, Fresh, EpTypeOK, MsgNums
  <2>2. (\A i \in Numbered(inbox) : inbox[i].n <= sent /\ Fresh(inbox[i].n))'
    <3> SUFFICES ASSUME NEW i \in Numbered(inbox)
                 PROVE  (inbox[i].n <= sent /\ Fresh(inbox[i].n))'
      BY <1>1 DEF Numbered
    <3>1. inbox[i] \in Incoming \cup Response /\ inbox[i].kind # "response"
      BY DEF Numbered, EpTypeOK
    <3>2. inbox[i].n \in MsgNums
      BY <3>1 DEF Incoming, Response
    <3>3. inbox[i].n <= sent /\ Fresh(inbox[i].n) /\ inbox[i].n # msg.n
      BY <1>2 DEF HonInv, WireInv
    <3> QED BY <1>1, <1>3, <3>2, <3>3 DEF Fresh
  <2>3. (\A i, j \in Numbered(inbox) : i < j => inbox[i].n < inbox[j].n)'
    BY <1>1 DEF HonInv, WireInv, Numbered
  <2> QED BY <2>1, <2>2, <2>3 DEF WireInv
<1>5. LoopInv'
  BY <1>1 DEF LoopInv
<1>6. HonestAnswer'
  <2>1. answers'[msg.n] = Reply
    BY <1>1, <1>2
  <2>2. /\ Reply = "true" => msg.n \in enqueued
        /\ Reply = "false" => msg.n \notin enqueued
        /\ Reply # "error"
    BY <1>2 DEF Reply
  <2> QED BY <1>1, <1>3, <2>1, <2>2 DEF HonInv, HonestAnswer
<1> QED BY <1>4, <1>5, <1>6 DEF HonInv

LEMMA NextHonInv ==
  ASSUME TInv, OwnInv, HonInv, [Next]_vars
  PROVE  HonInv'
<1>0. EpTypeOK
  BY DEF TInv, TypeOK
<1>1. CASE SetParams \/ Destroy \/ GetOutput
  <2>1. Passive /\ UNCHANGED <<recv, msg, queued>>
    BY <1>1 DEF SetParams, Destroy, GetOutput, GetBatches, GetError, Passive,
       epVars, plugin, locals, history
  <2> QED BY <1>0, <2>1, PassiveHon
<1>2. CASE Stop \/ ConnectEndpoint \/ RegisterNext \/ Registered \/ RegisterFails \/ ThreadFails
  <2>1. Passive
    BY <1>2 DEF Stop, Configure, Destroyed, ConnectEndpoint, RegisterNext,
       Registered, RegisterFails, ThreadFails, EpClose, EpConnect, FreshSocket, AskSent,
       AskFailed, TakeReply, ReplyAccepted, Front, Passive, history
  <2>2. UNCHANGED <<recv, msg, queued>>
    BY <1>2 DEF Stop, Configure, Destroyed, ConnectEndpoint, RegisterNext,
       Registered, RegisterFails, ThreadFails, StartFails, locals
  <2> QED BY <1>0, <2>1, <2>2, PassiveHon
<1>3. CASE StartThread \/ Check \/ ReceiveTimeout \/ ReceiveThrows
             \/ RespondThrows \/ ReceiverFails \/ ResetSent \/ ResetDone
  <2>1. Passive
    BY <1>3 DEF StartThread, Check, ReceiveTimeout, ReceiveThrows, RespondThrows,
       ReceiverFails, ResetSent, ResetDone, EpClose, FreshSocket, AskSent,
       AskFailed, TakeFrame, Passive, epVars, history
  <2>2. recv' \notin {"enqueue", "respond"}
    BY <1>3 DEF StartThread, Check, ReceiveTimeout, ReceiveThrows, RespondThrows,
       ReceiverFails, ResetSent, ResetDone, Caught
  <2> QED BY <1>0, <2>1, <2>2, PassiveHon
<1>4. CASE UNCHANGED vars
  <2>1. Passive /\ UNCHANGED <<recv, msg, queued>>
    BY <1>4 DEF vars, plugin, locals, history, epVars, Passive
  <2> QED BY <1>0, <2>1, PassiveHon
<1> QED BY <1>1, <1>2, <1>3, <1>4, RouterHon, SkipHon, ReceiveHon, EnqueueHon,
           RespondHon DEF Next, Start, Receiver

\* Whatever the threads and the router do: a sketch told true has its message
\* in the queue or already past it, one told false or an error can send it
\* again without its being published twice.
THEOREM AnswerAlwaysHonest == Spec => []HonestAnswer
<1>1. Init => TInv /\ OwnInv /\ HonInv
  BY InitTInv, InitOwnInv, InitHonInv
<1>2. TInv /\ OwnInv /\ HonInv /\ [Next]_vars => (TInv /\ OwnInv /\ HonInv)'
  BY NextTInv, NextOwnInv, NextHonInv
<1>3. HonInv => HonestAnswer
  BY DEF HonInv
<1> QED BY <1>1, <1>2, <1>3, PTL DEF Spec
----------------------------------------------------------------------------
(* The queue: it is a Mailbox, and it loses the oldest messages only.      *)

\* Messages are queued in the order sent.
OrdInv ==
  /\ \A i \in Numbered(inbox) : \A m \in enqueued : m < inbox[i].n
  /\ recv = "enqueue" => \A m \in enqueued : m < msg.n
  /\ recv = "enqueue" => \A i \in Numbered(inbox) : msg.n < inbox[i].n

\* The queue never outgrows its limit, and holds the messages in that order.
BoxInv ==
  /\ Len(queue) <= cfg.max_queue
  /\ \A i \in 1 .. Len(queue) : queue[i] \in enqueued
  /\ \A i, j \in 1 .. Len(queue) : i < j => queue[i] < queue[j]

QInv == TInv /\ OwnInv /\ HonInv /\ OrdInv /\ BoxInv /\ OnlyOldestLost

LEMMA InitQInv == Init => QInv
<1> SUFFICES ASSUME Init PROVE QInv
  OBVIOUS
<1>1. TInv /\ OwnInv /\ HonInv
  BY InitTInv, InitOwnInv, InitHonInv
<1>2. OrdInv /\ OnlyOldestLost
  BY DEF Init, OrdInv, OnlyOldestLost
<1>3. BoxInv
  BY DEF Init, BoxInv, DefaultConfig
<1> QED BY <1>1, <1>2, <1>3 DEF QInv

\* What the parameters in force can be.
LEMMA ConfigFacts ==
  ASSUME TypeOK
  PROVE  cfg.max_queue \in Nat \ {0} /\ cfg.policy \in Policies
<1>1. CASE cfg \in Configs
  BY <1>1, SourceAssumption DEF Config
<1>2. CASE cfg = DefaultConfig
  BY <1>2 DEF DefaultConfig, Policies
<1> QED BY <1>1, <1>2 DEF TypeOK

\* Steps that queue nothing and let nothing into the inbox.
LEMMA QuietOrd ==
  ASSUME EpTypeOK, OrdInv, UNCHANGED enqueued,
         \/ inbox' \in {inbox, <<>>}
         \/ inbox # <<>> /\ inbox' = Tail(inbox),
         recv' # "enqueue" \/ UNCHANGED <<recv, msg>>
  PROVE  OrdInv'
<1>1. PICK d \in {0, 1} :
        \A i \in Numbered(inbox') :
          i \in Nat /\ i + d \in Numbered(inbox) /\ inbox'[i] = inbox[i + d]
  BY Shrinks
<1>2. CASE recv' # "enqueue"
  BY <1>1, <1>2 DEF OrdInv, Numbered
<1>3. CASE UNCHANGED <<recv, msg>>
  BY <1>1, <1>3 DEF OrdInv, Numbered
<1> QED BY <1>2, <1>3

LEMMA RouterOrd ==
  ASSUME TInv, HonInv, OrdInv, RouterStep
  PROVE  OrdInv'
<1>0. UNCHANGED <<recv, msg, enqueued>> /\ EpTypeOK
  BY DEF RouterStep, plugin, locals, history, TInv, TypeOK
<1>1. CASE RouterActs \/ RouterCloses
  BY <1>0, <1>1, QuietOrd DEF RouterActs, RouterCloses
<1>2. CASE RouterReplies \/ RouterRefuses
  <2>1. PICK r : r.kind = "response" /\ inbox' = Append(inbox, r)
    <3>1. ASSUME NEW a, NEW ok
          PROVE  [kind |-> "response", msgid |-> a, ok |-> ok].kind = "response"
      OBVIOUS
    <3> QED BY <1>2, <3>1 DEF RouterReplies, RouterRefuses
  <2>2. inbox \in Seq(Incoming \cup Response)
    BY <1>0 DEF EpTypeOK
  <2>3. \A i \in Numbered(inbox') : i \in Numbered(inbox) /\ inbox'[i] = inbox[i]
    BY <2>1, <2>2 DEF Numbered
  <2> QED BY <1>0, <2>3 DEF OrdInv, Numbered
<1>3. CASE SketchSends
  <2>1. PICK k \in {"notify", "request"}, ok \in BOOLEAN :
          inbox' = Append(inbox, [kind |-> k, n |-> sent + 1, ok |-> ok])
    BY <1>3 DEF SketchSends
  <2> DEFINE new == [kind |-> k, n |-> sent + 1, ok |-> ok]
  <2>2. inbox \in Seq(Incoming \cup Response) /\ sent \in Nat
    BY <1>0, EndpointAssumption DEF EpTypeOK
  <2>3. new.n = sent + 1
    OBVIOUS
  <2>4. inbox' = Append(inbox, new)
    BY <2>1
  <2> HIDE DEF new
  <2>5. \A i \in Numbered(inbox') :
          \/ i \in Numbered(inbox) /\ inbox'[i] = inbox[i]
          \/ inbox'[i] = new
    BY <2>2, <2>4 DEF Numbered
  <2>6. \A m \in enqueued : m < sent + 1
    <3>1. enqueued \subseteq MsgNums /\ \A m \in MsgNums : m \in Nat
      BY DEF TInv, TypeOK, MsgNums
    <3> QED BY <2>2, <3>1 DEF HonInv, WireInv, Fresh
  <2>7. recv = "enqueue" => msg.n < sent + 1
    <3>1. recv = "enqueue" => msg.n \in Nat /\ msg.n <= sent
      BY DEF HonInv, LoopInv, TInv, MsgInv, Incoming, MsgNums
    <3> QED BY <2>2, <3>1
  <2> QED BY <1>0, <2>3, <2>5, <2>6, <2>7 DEF OrdInv, Numbered
<1> QED BY <1>1, <1>2, <1>3 DEF RouterStep, Router

LEMMA ReceiveOrd ==
  ASSUME TInv, HonInv, OrdInv, Receive
  PROVE  OrdInv'
<1>1. /\ inbox # <<>> /\ Head(inbox).kind # "response" /\ inbox' = Tail(inbox)
      /\ UNCHANGED enqueued /\ msg' = Head(inbox)
  BY DEF Receive, Receivable, TakeFrame, history
<1>2. inbox \in Seq(Incoming \cup Response)
  BY DEF TInv, TypeOK, EpTypeOK
<1>3. Head(inbox) = inbox[1] /\ 1 \in Numbered(inbox)
  BY <1>1, <1>2 DEF Numbered
<1>4. \A i \in Numbered(inbox') :
        1 < i + 1 /\ i + 1 \in Numbered(inbox) /\ inbox'[i] = inbox[i + 1]
  <2> SUFFICES ASSUME NEW i \in Numbered(inbox')
               PROVE  1 < i + 1 /\ i + 1 \in Numbered(inbox) /\ inbox'[i] = inbox[i + 1]
    OBVIOUS
  <2>1. i \in 1 .. Len(inbox') /\ inbox'[i].kind # "response"
    BY DEF Numbered
  <2>2. inbox'[i] = inbox[i + 1] /\ i + 1 \in 1 .. Len(inbox) /\ 1 < i + 1
    BY <1>1, <1>2, <2>1
  <2> QED BY <2>1, <2>2 DEF Numbered
<1>5. \A i \in Numbered(inbox') : msg'.n < inbox'[i].n
  BY <1>1, <1>3, <1>4 DEF HonInv, WireInv
<1>6. \A m \in enqueued' : m < msg'.n
  BY <1>1, <1>3 DEF OrdInv
<1>7. \A i \in Numbered(inbox') : \A m \in enqueued' : m < inbox'[i].n
  BY <1>1, <1>4 DEF OrdInv
<1> QED BY <1>5, <1>6, <1>7 DEF OrdInv, Numbered

\* What Enqueue does, if it does not refuse.
LEMMA EnqueueFacts ==
  ASSUME QInv, Enqueue, ~Refused
  PROVE  /\ recv = "enqueue" /\ recv' # "enqueue" /\ msg.n \in MsgNums
         /\ UNCHANGED <<inbox, cfg, published, born>>
         /\ \A m \in enqueued : m < msg.n
         /\ enqueued' = enqueued \cup {msg.n}
         /\ \/ Len(queue) < cfg.max_queue /\ queue' = Append(queue, msg.n)
            \/ /\ Len(queue) = cfg.max_queue /\ cfg.policy = "drop_oldest"
               /\ queue' = Append(Tail(queue), msg.n)
<1>1. /\ recv = "enqueue" /\ recv' # "enqueue" /\ enqueued' = enqueued \cup {msg.n}
      /\ queue' = Append(Kept, msg.n) /\ UNCHANGED <<inbox, cfg, published, born>>
  BY DEF Enqueue, epVars, setup
<1>2. msg.n \in MsgNums /\ \A m \in enqueued : m < msg.n
  BY <1>1 DEF QInv, TInv, MsgInv, Incoming, OrdInv
<1>3. /\ cfg.max_queue \in Nat /\ cfg.policy \in Policies
      /\ Len(queue) \in Nat /\ Len(queue) <= cfg.max_queue
  BY ConfigFacts DEF QInv, TInv, TypeOK, BoxInv
<1>4. CASE Full
  <2>1. Len(queue) = cfg.max_queue
    BY <1>3, <1>4 DEF Full
  <2>2. cfg.policy = "drop_oldest"
    BY <1>3, <1>4 DEF Refused, Policies
  <2> QED BY <1>1, <1>2, <1>4, <2>1, <2>2 DEF Kept
<1>5. CASE ~Full
  <2>1. Len(queue) < cfg.max_queue
    BY <1>3, <1>5 DEF Full
  <2> QED BY <1>1, <1>2, <1>5, <2>1 DEF Kept
<1> QED BY <1>4, <1>5

\* A message joins the queue, and may push the oldest out.
LEMMA EnqueueBox ==
  ASSUME QInv, Enqueue, ~Refused
  PROVE  OrdInv' /\ BoxInv' /\ OnlyOldestLost'
<1> DEFINE max == cfg.max_queue
<1>1. /\ recv = "enqueue" /\ recv' # "enqueue" /\ msg.n \in MsgNums
      /\ UNCHANGED <<inbox, cfg, published, born>>
      /\ \A m \in enqueued : m < msg.n
      /\ enqueued' = enqueued \cup {msg.n}
  BY EnqueueFacts
<1>2. \/ Len(queue) < max /\ queue' = Append(queue, msg.n)
      \/ /\ Len(queue) = max /\ cfg.policy = "drop_oldest"
         /\ queue' = Append(Tail(queue), msg.n)
  BY EnqueueFacts
<1>3. /\ queue \in Seq(MsgNums) /\ enqueued \subseteq MsgNums
      /\ Len(queue) \in Nat /\ max \in Nat \ {0}
  BY ConfigFacts DEF QInv, TInv, TypeOK
<1> HIDE DEF max
<1>4. \A m \in MsgNums : m \in Nat
  BY DEF MsgNums
<1>5. /\ \A i \in 1 .. Len(queue) : queue[i] \in enqueued
      /\ \A i, j \in 1 .. Len(queue) : i < j => queue[i] < queue[j]
  BY DEF QInv, BoxInv
<1>6. PICK d \in {0, 1} :
        /\ Len(queue') = Len(queue) + 1 - d /\ Len(queue') <= max
        /\ queue'[Len(queue')] = msg.n
        /\ \A i \in 1 .. Len(queue') - 1 :
             i + d \in 1 .. Len(queue) /\ queue'[i] = queue[i + d]
        /\ d = 1 => Len(queue) = max /\ cfg.policy = "drop_oldest"
  <2>1. CASE Len(queue) < max /\ queue' = Append(queue, msg.n)
    <3>1. /\ Len(queue') = Len(queue) + 1 - 0 /\ Len(queue') <= max
          /\ queue'[Len(queue')] = msg.n
          /\ \A i \in 1 .. Len(queue') - 1 :
               i + 0 \in 1 .. Len(queue) /\ queue'[i] = queue[i + 0]
      BY <1>3, <2>1
    <3> QED BY <3>1
  <2>2. CASE /\ Len(queue) = max /\ cfg.policy = "drop_oldest"
             /\ queue' = Append(Tail(queue), msg.n)
    <3>1. /\ Tail(queue) \in Seq(MsgNums) /\ Len(Tail(queue)) = max - 1
          /\ \A i \in 1 .. max - 1 : Tail(queue)[i] = queue[i + 1]
      BY <1>3, <2>2
    <3>2. /\ Len(queue') = Len(queue) + 1 - 1 /\ Len(queue') <= max
          /\ queue'[Len(queue')] = msg.n
          /\ \A i \in 1 .. Len(queue') - 1 :
               i + 1 \in 1 .. Len(queue) /\ queue'[i] = queue[i + 1]
      BY <1>1, <1>3, <2>2, <3>1
    <3> QED BY <2>2, <3>2
  <2> QED BY <1>2, <2>1, <2>2
<1>7. OrdInv'
  <2>1. \A i \in Numbered(inbox) : msg.n < inbox[i].n /\ \A m \in enqueued : m < inbox[i].n
    BY <1>1 DEF QInv, OrdInv
  <2> QED BY <1>1, <2>1 DEF OrdInv, Numbered
<1>8. Len(queue') \in Nat
  BY <1>3, <1>6
<1>9. \A i \in 1 .. Len(queue') :
        queue'[i] \in enqueued' /\ (i < Len(queue') => queue'[i] \in enqueued)
  <2> SUFFICES ASSUME NEW i \in 1 .. Len(queue')
               PROVE  queue'[i] \in enqueued' /\ (i < Len(queue') => queue'[i] \in enqueued)
    OBVIOUS
  <2>1. CASE i = Len(queue')
    BY <1>1, <1>6, <1>8, <2>1
  <2>2. CASE i < Len(queue')
    <3>1. i \in 1 .. Len(queue') - 1
      BY <1>8, <2>2
    <3> QED BY <1>1, <1>5, <1>6, <3>1
  <2> QED BY <1>8, <2>1, <2>2
<1>10. ASSUME NEW i \in 1 .. Len(queue'), NEW j \in 1 .. Len(queue'), i < j
       PROVE  queue'[i] < queue'[j]
  <2>1. i \in 1 .. Len(queue') - 1
    BY <1>8, <1>10
  <2>2. CASE j = Len(queue')
    BY <1>1, <1>6, <1>9, <1>10, <2>2
  <2>3. CASE j < Len(queue')
    <3>1. j \in 1 .. Len(queue') - 1 /\ i + d < j + d
      BY <1>8, <1>10, <2>3
    <3> QED BY <1>5, <1>6, <2>1, <3>1
  <2> QED BY <1>8, <2>2, <2>3
<1>11. BoxInv'
  BY <1>1, <1>6, <1>9, <1>10 DEF BoxInv, max
<1>12. ASSUME NEW n \in enqueued', n > born', n \notin Delivered'
       PROVE  /\ cfg'.policy = "drop_oldest"
              /\ Cardinality({k \in enqueued' : k > n}) >= cfg'.max_queue
  <2> DEFINE T == {k \in enqueued' : k > n}
  <2>0. enqueued' \subseteq MsgNums /\ IsFiniteSet(MsgNums) /\ IsFiniteSet(T)
    <3>1. IsFiniteSet(MsgNums)
      BY FS_Interval, EndpointAssumption DEF MsgNums
    <3>2. enqueued' \subseteq MsgNums
      BY <1>1, <1>3
    <3> QED BY <3>1, <3>2, FS_Subset
  <2>1. \A i \in 1 .. Len(queue') : queue'[i] # n
    <3>1. DOMAIN queue' = 1 .. Len(queue')
      BY <1>1, <1>2, <1>3
    <3> QED BY <1>12, <3>1 DEF Delivered
  <2>2. n \in enqueued /\ n \in Nat
    <3>1. n # msg.n
      BY <1>1, <1>6, <1>8, <2>1, <1>2, <1>3
    <3> QED BY <1>1, <1>3, <1>4, <3>1
  <2>3. CASE n \notin Delivered
    <3> DEFINE U == {k \in enqueued : k > n}
    <3>1. cfg.policy = "drop_oldest" /\ Cardinality(U) >= max
      BY <1>1, <1>12, <2>2, <2>3 DEF QInv, OnlyOldestLost, max
    <3>2. U \in SUBSET T
      BY <1>1
    <3>3. IsFiniteSet(U) /\ Cardinality(U) <= Cardinality(T)
      BY <2>0, <3>2, FS_Subset
    <3>4. Cardinality(U) \in Nat /\ Cardinality(T) \in Nat
      BY <2>0, <3>3, FS_CardinalityType
    <3>5. Cardinality(T) >= max
      BY <1>3, <3>1, <3>3, <3>4
    <3> QED BY <1>1, <3>1, <3>5 DEF max
  <2>4. CASE n \in Delivered
    <3>1. PICK i \in 1 .. Len(queue) : queue[i] = n
      <4>1. n \notin {published[k] : k \in DOMAIN published}
        BY <1>1, <1>12 DEF Delivered
      <4>2. DOMAIN queue = 1 .. Len(queue)
        BY <1>3
      <4> QED BY <2>4, <4>1, <4>2 DEF Delivered
    <3>2. i = 1 /\ d = 1
      <4>1. i - d \notin 1 .. Len(queue') - 1
        <5> SUFFICES ASSUME i - d \in 1 .. Len(queue') - 1 PROVE FALSE
          OBVIOUS
        <5>1. queue'[i - d] = queue[(i - d) + d] /\ i - d \in 1 .. Len(queue')
          BY <1>6, <1>8
        <5>2. (i - d) + d = i
          OBVIOUS
        <5> QED BY <2>1, <3>1, <5>1, <5>2
      <4> QED BY <1>3, <1>6, <4>1
    <3>3. Len(queue') = max /\ cfg.policy = "drop_oldest"
      BY <1>3, <1>6, <3>2
    <3>4. \A j \in 1 .. max : queue'[j] \in T
      <4> SUFFICES ASSUME NEW j \in 1 .. max PROVE queue'[j] > n
        BY <1>9, <3>3
      <4>1. CASE j = max
        BY <1>1, <1>3, <1>4, <1>6, <2>2, <3>3, <4>1
      <4>2. CASE j < max
        <5>1. j \in 1 .. Len(queue') - 1 /\ 1 < j + 1
          BY <1>3, <3>3, <4>2
        <5>2. queue'[j] = queue[j + 1] /\ j + 1 \in 1 .. Len(queue) /\ 1 \in 1 .. Len(queue)
          BY <1>6, <3>2, <5>1
        <5>3. queue[1] < queue[j + 1] /\ queue[1] = n
          BY <1>5, <3>1, <3>2, <5>1, <5>2
        <5>4. queue[j + 1] \in Nat
          BY <1>3, <1>4, <1>5, <5>2
        <5> QED BY <2>2, <5>2, <5>3, <5>4
      <4> QED BY <1>3, <4>1, <4>2
    <3> DEFINE f == [j \in 1 .. max |-> queue'[j]]
    <3>5. f \in Injection(1 .. max, T)
      <4>1. f \in [1 .. max -> T]
        BY <3>4
      <4>2. ASSUME NEW a \in 1 .. max, NEW b \in 1 .. max, f[a] = f[b] PROVE a = b
        <5>1. \A j \in 1 .. max : queue'[j] \in Nat
          BY <1>4, <2>0, <3>4
        <5>2. ~(a < b) /\ ~(b < a)
          BY <1>10, <3>3, <4>2, <5>1
        <5> QED BY <1>3, <5>2
      <4> QED BY <4>1, <4>2 DEF Injection, IsInjective
    <3>6. Cardinality(1 .. max) <= Cardinality(T) /\ Cardinality(1 .. max) = max
      <4>1. Cardinality(1 .. max) = max
        BY <1>3, FS_Interval
      <4> QED BY <2>0, <3>5, <4>1, FS_Injection
    <3>7. Cardinality(T) >= max
      <4>1. Cardinality(T) \in Nat
        BY <2>0, FS_CardinalityType
      <4> QED BY <1>3, <3>6, <4>1
    <3> QED BY <1>1, <3>3, <3>7 DEF max
  <2> QED BY <2>3, <2>4
<1>13. OnlyOldestLost'
  BY <1>12 DEF OnlyOldestLost
<1> QED BY <1>7, <1>11, <1>13

\* All that the steps leave alone which do not work on the queue.
BoxKept == UNCHANGED <<queue, cfg, enqueued, published, born, rerror, told>>

LEMMA KeptBox ==
  ASSUME QInv, BoxKept
  PROVE  BoxInv' /\ OnlyOldestLost'
<1>1. BoxInv'
  BY DEF QInv, BoxKept, BoxInv
<1>2. OnlyOldestLost'
  BY DEF QInv, BoxKept, OnlyOldestLost, Delivered
<1> QED BY <1>1, <1>2

\* The steps that change neither the queue nor what becomes of it.
Elsewhere ==
  \/ SetParams \/ Destroy \/ Destroyed \/ Start \/ Check \/ ReceiveTimeout
  \/ ReceiveThrows \/ Respond \/ RespondThrows \/ ResetSent \/ ResetSkips
  \/ ResetDone \/ UNCHANGED vars

LEMMA ElsewhereKept ==
  ASSUME QInv, Elsewhere
  PROVE  BoxKept /\ OrdInv'
<1>1. BoxKept
  <2>1. CASE SetParams \/ Destroy \/ Destroyed \/ UNCHANGED vars
    BY <2>1 DEF SetParams, Destroy, Destroyed, vars, plugin, setup, box, history, BoxKept
  <2>2. CASE Start
    <3>1. CASE ConnectEndpoint \/ RegisterNext \/ RegisterFails \/ ThreadFails
      BY <3>1 DEF ConnectEndpoint, RegisterNext, RegisterFails, ThreadFails, StartFails,
         setup, box, history, BoxKept
    <3>2. CASE RegisterSkips \/ Registered \/ StartThread
      BY <3>2 DEF RegisterSkips, Registered, StartThread, plugin, setup, box,
         history, BoxKept
    <3> QED BY <2>2, <3>1, <3>2 DEF Start
  <2>3. CASE Check \/ ReceiveTimeout \/ ReceiveThrows \/ Respond \/ RespondThrows
    BY <2>3 DEF Check, ReceiveTimeout, ReceiveThrows, Respond, RespondThrows, setup,
       box, history, BoxKept
  <2>4. CASE ResetSent \/ ResetSkips \/ ResetDone
    BY <2>4 DEF ResetSent, ResetSkips, ResetDone, plugin, setup, box, history, BoxKept
  <2> QED BY <2>1, <2>2, <2>3, <2>4 DEF Elsewhere
<1>2. \/ inbox' \in {inbox, <<>>}
      \/ inbox # <<>> /\ inbox' = Tail(inbox)
  <2>1. CASE SetParams \/ Destroy \/ Destroyed \/ UNCHANGED vars
    BY <2>1 DEF SetParams, Destroy, Destroyed, vars, epVars, EpClose, FreshSocket
  <2>2. CASE Start
    BY <2>2 DEF Start, ConnectEndpoint, RegisterNext, RegisterSkips, Registered,
       RegisterFails, ThreadFails, StartThread, EpClose, EpConnect, FreshSocket, AskSent, AskFailed,
       SkipNotify, SkipRequest, TakeReply, ReplyAccepted, Front, epVars
  <2>3. CASE Check \/ ReceiveTimeout \/ ReceiveThrows \/ Respond \/ RespondThrows
    BY <2>3 DEF Check, ReceiveTimeout, ReceiveThrows, Respond, RespondThrows, TakeFrame,
       epVars
  <2>4. CASE ResetSent \/ ResetSkips \/ ResetDone
    BY <2>4 DEF ResetSent, ResetSkips, ResetDone, AskSent, AskFailed, EpClose,
       FreshSocket, SkipNotify, SkipRequest, Front
  <2> QED BY <2>1, <2>2, <2>3, <2>4 DEF Elsewhere
<1>3. recv' # "enqueue" \/ UNCHANGED <<recv, msg>>
  <2>1. CASE SetParams \/ Destroy \/ Destroyed \/ UNCHANGED vars
    BY <2>1 DEF SetParams, Destroy, Destroyed, vars, plugin, locals
  <2>2. CASE Start
    BY <2>2 DEF Start, ConnectEndpoint, RegisterNext, RegisterSkips, Registered,
       RegisterFails, ThreadFails, StartThread, StartFails, plugin, locals
  <2>3. CASE Check \/ ReceiveTimeout \/ ReceiveThrows \/ Respond \/ RespondThrows
    BY <2>3 DEF Check, ReceiveTimeout, ReceiveThrows, Respond, RespondThrows, Caught
  <2>4. CASE ResetSent \/ ResetSkips \/ ResetDone
    BY <2>4 DEF ResetSent, ResetSkips, ResetDone, plugin
  <2> QED BY <2>1, <2>2, <2>3, <2>4 DEF Elsewhere
<1>4. OrdInv'
  <2>1. UNCHANGED enqueued
    BY <1>1 DEF BoxKept
  <2> QED BY <1>2, <1>3, <2>1, QuietOrd DEF QInv, TInv, TypeOK
<1> QED BY <1>1, <1>4

\* The queue is cleared by set_params, or taken whole by get_output.
LEMMA ClearedBox ==
  ASSUME QInv, TypeOK', Configure \/ GetBatches
  PROVE  OrdInv' /\ BoxInv' /\ OnlyOldestLost'
<1>1. /\ queue' = <<>> /\ UNCHANGED <<recv, msg, enqueued>>
      /\ inbox' \in {inbox, <<>>}
  BY DEF Configure, GetBatches, EpClose, FreshSocket, epVars, locals
<1>2. OrdInv'
  BY <1>1, QuietOrd DEF QInv, TInv, TypeOK
<1>3. BoxInv'
  <2>1. cfg'.max_queue \in Nat
    <3>1. CASE cfg' \in Configs
      BY <3>1, SourceAssumption DEF Config
    <3>2. CASE cfg' = DefaultConfig
      BY <3>2 DEF DefaultConfig
    <3> QED BY <3>1, <3>2 DEF TypeOK
  <2> QED BY <1>1, <2>1 DEF BoxInv
<1>4. OnlyOldestLost'
  <2>1. CASE Configure
    <3>1. born' = sent
      BY <2>1 DEF Configure
    <3>2. \A n \in enqueued : ~(n > sent)
      BY DEF QInv, TInv, TypeOK, HonInv, WireInv, Fresh
    <3> QED BY <1>1, <3>1, <3>2 DEF OnlyOldestLost
  <2>2. CASE GetBatches
    <3>1. published' = published \o queue /\ UNCHANGED <<cfg, born>>
      BY <2>2 DEF GetBatches, setup
    <3>2. published \in Seq(MsgNums) /\ queue \in Seq(MsgNums)
      BY DEF QInv, TInv, TypeOK
    <3>3. \A i \in DOMAIN published :
            i \in DOMAIN published' /\ published'[i] = published[i]
      BY <3>1, <3>2
    <3>4. \A i \in DOMAIN queue :
            /\ Len(published) + i \in DOMAIN published'
            /\ published'[Len(published) + i] = queue[i]
      BY <3>1, <3>2
    <3>5. Delivered \subseteq Delivered'
      BY <3>3, <3>4 DEF Delivered
    <3> QED BY <1>1, <3>1, <3>5 DEF QInv, OnlyOldestLost
  <2> QED BY <2>1, <2>2
<1> QED BY <1>2, <1>3, <1>4

\* The steps left, which leave the queue alone.
LEMMA OtherBox ==
  ASSUME QInv, \/ RouterStep \/ Receive \/ GetError \/ ReceiverFails
               \/ (Enqueue /\ Refused)
  PROVE  /\ OrdInv' /\ BoxInv' /\ OnlyOldestLost'
         /\ UNCHANGED <<queue, cfg, enqueued, published, born>>
<1>1. UNCHANGED <<queue, cfg, enqueued, published, born>>
  BY DEF RouterStep, Receive, GetError, ReceiverFails, Enqueue, plugin, setup, box, history
<1>2. BoxInv' /\ OnlyOldestLost'
  BY <1>1 DEF QInv, BoxInv, OnlyOldestLost, Delivered
<1>3. CASE RouterStep
  BY <1>1, <1>2, <1>3, RouterOrd DEF QInv
<1>4. CASE Receive
  BY <1>1, <1>2, <1>4, ReceiveOrd DEF QInv
<1>5. CASE GetError \/ ReceiverFails \/ Enqueue
  <2>1. UNCHANGED inbox /\ (recv' # "enqueue" \/ UNCHANGED <<recv, msg>>)
    BY <1>5 DEF GetError, ReceiverFails, Enqueue, epVars, plugin, locals
  <2> QED BY <1>1, <1>2, <2>1, QuietOrd DEF QInv, TInv, TypeOK
<1> QED BY <1>3, <1>4, <1>5

LEMMA NextQInv ==
  ASSUME QInv, [Next]_vars
  PROVE  QInv'
<1>1. TInv' /\ OwnInv' /\ HonInv'
  BY NextTInv, NextOwnInv, NextHonInv DEF QInv
<1>2. OrdInv' /\ BoxInv' /\ OnlyOldestLost'
  <2>1. CASE Elsewhere
    BY <2>1, ElsewhereKept, KeptBox
  <2>2. CASE Configure \/ GetBatches
    BY <1>1, <2>2, ClearedBox DEF TInv
  <2>3. CASE Enqueue /\ ~Refused
    BY <2>3, EnqueueBox
  <2>4. CASE RouterStep \/ Receive \/ GetError \/ ReceiverFails \/ (Enqueue /\ Refused)
    BY <2>4, OtherBox
  <2>5. Next \/ UNCHANGED vars
    OBVIOUS
  <2> QED BY <2>1, <2>2, <2>3, <2>4, <2>5, Zenon DEF Next, Stop, GetOutput, Receiver, Elsewhere
<1> QED BY <1>1, <1>2 DEF QInv

LEMMA InvariantQInv == Spec => []QInv
BY InitQInv, NextQInv, PTL DEF Spec

\* For any queue size and however the receiver and get_output interleave: a
\* message once queued is published or waits its turn, unless drop_oldest gave
\* it up for as many newer ones as the queue holds.
THEOREM OnlyOldestEverLost == Spec => []OnlyOldestLost
<1>1. QInv => OnlyOldestLost
  BY DEF QInv
<1> QED BY <1>1, InvariantQInv, PTL
----------------------------------------------------------------------------
LEMMA InitMailbox == Init => Box!Init
BY DEF Init, Box!Init, DefaultConfig

\* A message put in the queue is one put in the mailbox.
LEMMA EnqueuePuts ==
  ASSUME QInv, Enqueue, ~Refused
  PROVE  Box!Put
<1>1. /\ recv = "enqueue" /\ msg.n \in MsgNums /\ UNCHANGED <<cfg, published>>
      /\ \A m \in enqueued : m < msg.n
      /\ enqueued' = enqueued \cup {msg.n}
      /\ \/ Len(queue) < cfg.max_queue /\ queue' = Append(queue, msg.n)
         \/ /\ Len(queue) = cfg.max_queue /\ cfg.policy = "drop_oldest"
            /\ queue' = Append(Tail(queue), msg.n)
  BY EnqueueFacts
<1>2. ~rerror /\ ~told /\ UNCHANGED <<rerror, told>>
  BY <1>1 DEF QInv, OwnInv, Ended, ErrorIsFinal, Enqueue
<1>3. /\ queue \in Seq(MsgNums) /\ Len(queue) \in Nat
      /\ cfg.max_queue \in Nat \ {0} /\ enqueued \subseteq MsgNums
  BY ConfigFacts DEF QInv, TInv, TypeOK
<1>4. Len(queue') > 0 /\ queue'[Len(queue')] = msg.n
  <2>1. CASE queue' = Append(queue, msg.n)
    BY <1>1, <1>3, <2>1
  <2>2. CASE queue' = Append(Tail(queue), msg.n) /\ Len(queue) = cfg.max_queue
    <3>1. Tail(queue) \in Seq(MsgNums)
      BY <1>3, <2>2
    <3> QED BY <1>1, <2>2, <3>1
  <2> QED BY <1>1, <2>1, <2>2
<1>5. \A m \in enqueued : msg.n > m
  BY <1>1, <1>3 DEF MsgNums
<1> QED BY <1>1, <1>2, <1>4, <1>5 DEF Box!Put

LEMMA StepMailbox ==
  ASSUME QInv, TypeOK', [Next]_vars
  PROVE  [Box!Next]_(Box!vars)
<1>1. CASE Elsewhere
  BY <1>1, ElsewhereKept DEF BoxKept, Box!vars
<1>2. CASE Configure
  <2>1. cfg'.max_queue \in Nat \ {0} /\ cfg'.policy \in {"drop_oldest", "drop_newest"}
    <3>1. CASE cfg' \in Configs
      BY <3>1, SourceAssumption DEF Config, Policies
    <3>2. CASE cfg' = DefaultConfig
      BY <3>2 DEF DefaultConfig
    <3> QED BY <3>1, <3>2 DEF TypeOK
  <2>2. /\ queue' = <<>> /\ published' = <<>> /\ UNCHANGED enqueued
        /\ rerror' = FALSE /\ told' = FALSE
    BY <1>2 DEF Configure
  <2> QED BY <2>1, <2>2 DEF Box!Next, Box!Renew
<1>3. CASE GetBatches
  BY <1>3 DEF GetBatches, setup, Box!Next, Box!TakeAll
<1>4. CASE Enqueue /\ ~Refused
  BY <1>4, EnqueuePuts DEF Box!Next
<1>5. CASE RouterStep \/ Receive \/ (Enqueue /\ Refused)
  <2>1. UNCHANGED <<queue, cfg, enqueued, published>>
    BY <1>5, OtherBox
  <2>2. UNCHANGED <<rerror, told>>
    BY <1>5 DEF RouterStep, Receive, Enqueue, plugin, box, history
  <2> QED BY <2>1, <2>2 DEF Box!vars
<1>6. CASE ReceiverFails
  <2>1. recv = "fail" /\ rerror' = TRUE /\ UNCHANGED told
    BY <1>6 DEF ReceiverFails, history
  <2>2. ~rerror /\ ~told
    BY <2>1 DEF QInv, OwnInv, Ended, ErrorIsFinal
  <2>3. UNCHANGED <<queue, cfg, enqueued, published>>
    BY <1>6, OtherBox
  <2> QED BY <2>1, <2>2, <2>3 DEF Box!Next, Box!Fail
<1>7. CASE GetError
  <2>1. rerror /\ queue = <<>> /\ told' = TRUE /\ UNCHANGED rerror
    BY <1>7 DEF GetError, TellGuard, plugin, box
  <2>2. UNCHANGED <<queue, cfg, enqueued, published>>
    BY <1>7, OtherBox
  <2>3. CASE told
    BY <2>1, <2>2, <2>3 DEF Box!vars
  <2>4. CASE ~told
    BY <2>1, <2>2, <2>4 DEF Box!Next, Box!Tell
  <2> QED BY <2>3, <2>4
<1>8. Next \/ UNCHANGED vars
  OBVIOUS
<1> QED BY <1>1, <1>2, <1>3, <1>4, <1>5, <1>6, <1>7, <1>8, Zenon
        DEF Next, Stop, GetOutput, Receiver, Elsewhere

\* The agent's thread, the receiver, the endpoint and the router together are
\* a Mailbox, for any sizes, policies, methods and numbers of messages.
THEOREM SourceImplementsMailbox == Spec => ImplementsMailbox
<1>1. QInv /\ TypeOK' /\ [Next]_vars => [Box!Next]_(Box!vars)
  BY StepMailbox
<1>2. QInv => TypeOK
  BY DEF QInv, TInv
<1> QED BY <1>1, <1>2, InitMailbox, InvariantQInv, PTL DEF Spec, ImplementsMailbox, Box!Spec
----------------------------------------------------------------------------
(* Responses and the requests they answer.                                 *)

Responses(q) == {i \in 1 .. Len(q) : q[i].kind = "response"}

\* One of the threads waits in request().
Awaiting == "await" \in {main, recv}

\* A thread that waits has one request at the router or one response to read,
\* its own; while none waits there is neither.
AskInv ==
  /\ ~Awaiting => asks = {} /\ Responses(inbox) = {}
  /\ \A a, b \in asks : a = b
  /\ \A a \in asks : a.msgid = waiting
  /\ \A i, j \in Responses(inbox) : i = j
  /\ asks # {} => Responses(inbox) = {}
  /\ \A i \in Responses(inbox) : inbox[i].msgid = waiting

LEMMA InitAskInv == Init => AskInv
BY DEF Init, EpInit, AskInv, Responses

\* A socket closed or connected afresh holds nothing.
LEMMA FreshAsk ==
  ASSUME FreshSocket
  PROVE  AskInv'
BY DEF FreshSocket, AskInv, Responses

LEMMA StillAsk ==
  ASSUME AskInv, UNCHANGED <<inbox, asks, waiting>>, Awaiting' <=> Awaiting
  PROVE  AskInv'
BY DEF AskInv, Responses

\* A request is sent by a thread that does not wait yet, and then does.
LEMMA SentAsk ==
  ASSUME AskInv, ~Awaiting, Awaiting', NEW m, AskSent(m)
  PROVE  AskInv'
<1>1. /\ waiting' = ep_msgid /\ inbox' = inbox
      /\ asks' = {[msgid |-> ep_msgid, method |-> m, done |-> FALSE]}
  BY DEF AskSent, AskInv
<1> QED BY <1>1 DEF AskInv, Responses

\* The first frame is taken: by a thread that goes on as before, or because it
\* is the response.
LEMMA TakenAsk ==
  ASSUME EpTypeOK, AskInv, inbox # <<>>, inbox' = Tail(inbox), UNCHANGED <<asks, waiting>>,
         (Awaiting' <=> Awaiting) \/ Head(inbox).kind = "response"
  PROVE  AskInv'
<1>1. inbox \in Seq(Incoming \cup Response)
  BY DEF EpTypeOK
<1>2. \A i \in Responses(inbox') :
        i \in Nat \ {0} /\ i + 1 \in Responses(inbox) /\ inbox'[i] = inbox[i + 1]
  <2> SUFFICES ASSUME NEW i \in Responses(inbox')
               PROVE  i \in Nat \ {0} /\ i + 1 \in Responses(inbox)
                      /\ inbox'[i] = inbox[i + 1]
    OBVIOUS
  <2>1. i \in 1 .. Len(inbox') /\ inbox'[i].kind = "response"
    BY DEF Responses
  <2>2. inbox'[i] = inbox[i + 1] /\ i + 1 \in 1 .. Len(inbox) /\ i \in Nat \ {0}
    BY <1>1, <2>1
  <2> QED BY <2>1, <2>2 DEF Responses
<1>3. CASE Awaiting' <=> Awaiting
  <2>1. \A i, j \in Responses(inbox') : i = j
    <3> SUFFICES ASSUME NEW i \in Responses(inbox'), NEW j \in Responses(inbox')
                 PROVE  i = j
      OBVIOUS
    <3>1. i + 1 = j + 1 /\ i \in Nat /\ j \in Nat
      BY <1>2 DEF AskInv
    <3> QED BY <3>1
  <2> QED BY <1>2, <1>3, <2>1 DEF AskInv, Responses
<1>4. CASE Head(inbox).kind = "response"
  <2>1. 1 \in Responses(inbox)
    BY <1>1, <1>4 DEF Responses
  <2>2. Responses(inbox') = {}
    <3> SUFFICES ASSUME NEW i \in Responses(inbox') PROVE FALSE
      OBVIOUS
    <3>1. i + 1 = 1 /\ i \in Nat \ {0}
      BY <1>2, <2>1 DEF AskInv
    <3> QED BY <3>1
  <2> QED BY <2>1, <2>2 DEF AskInv, Responses
<1> QED BY <1>3, <1>4

LEMMA RouterAsk ==
  ASSUME TypeOK, AskInv, RouterStep
  PROVE  AskInv'
<1>0. /\ UNCHANGED waiting /\ Awaiting' <=> Awaiting
      /\ inbox \in Seq(Incoming \cup Response) /\ asks \subseteq Ask
  <2>1. UNCHANGED waiting
    BY DEF RouterStep, Router, RouterActs, RouterReplies, RouterRefuses, SketchSends,
       RouterCloses
  <2>2. Awaiting' <=> Awaiting
    BY DEF RouterStep, plugin, Awaiting
  <2> QED BY <2>1, <2>2 DEF TypeOK, EpTypeOK
<1>1. CASE RouterActs
  <2>1. PICK a \in asks :
          /\ asks' = (asks \ {a}) \cup {[a EXCEPT !.done = TRUE]}
          /\ inbox' = inbox
    BY <1>1 DEF RouterActs
  <2>2. [a EXCEPT !.done = TRUE].msgid = waiting
    BY <1>0, <2>1 DEF AskInv, Ask
  <2>3. asks' = {[a EXCEPT !.done = TRUE]}
    BY <2>1 DEF AskInv
  <2> QED BY <1>0, <2>1, <2>2, <2>3 DEF AskInv, Responses
<1>2. CASE RouterCloses
  BY <1>0, <1>2 DEF RouterCloses, AskInv, Responses
<1>3. CASE RouterReplies \/ RouterRefuses
  <2>1. PICK a \in asks, ok \in BOOLEAN :
          /\ asks' = asks \ {a}
          /\ inbox' = Append(inbox, [kind |-> "response", msgid |-> a.msgid, ok |-> ok])
    BY <1>3 DEF RouterReplies, RouterRefuses
  <2> DEFINE r == [kind |-> "response", msgid |-> a.msgid, ok |-> ok]
  <2>2. r.msgid = waiting
    BY <2>1 DEF AskInv
  <2>3. inbox' = Append(inbox, r)
    BY <2>1
  <2> HIDE DEF r
  <2>4. asks' = {} /\ Awaiting /\ Responses(inbox) = {}
    BY <2>1 DEF AskInv
  <2>5. \A i \in Responses(inbox') : i = Len(inbox) + 1 /\ inbox'[i] = r
    <3> SUFFICES ASSUME NEW i \in Responses(inbox'), ~(i = Len(inbox) + 1 /\ inbox'[i] = r)
                 PROVE  FALSE
      OBVIOUS
    <3>1. i \in 1 .. Len(inbox') /\ inbox'[i].kind = "response"
      BY DEF Responses
    <3>2. i \in 1 .. Len(inbox) /\ inbox'[i] = inbox[i]
      BY <1>0, <2>3, <3>1
    <3> QED BY <2>4, <3>1, <3>2 DEF Responses
  <2> QED BY <1>0, <2>2, <2>4, <2>5 DEF AskInv, Responses
<1>4. CASE SketchSends
  <2>1. PICK k \in {"notify", "request"}, ok \in BOOLEAN :
          inbox' = Append(inbox, [kind |-> k, n |-> sent + 1, ok |-> ok])
    BY <1>4 DEF SketchSends
  <2> DEFINE new == [kind |-> k, n |-> sent + 1, ok |-> ok]
  <2>2. new.kind # "response"
    OBVIOUS
  <2>3. inbox' = Append(inbox, new) /\ UNCHANGED asks
    BY <1>4, <2>1 DEF SketchSends
  <2> HIDE DEF new
  <2>4. \A i \in Responses(inbox') : i \in Responses(inbox) /\ inbox'[i] = inbox[i]
    <3> SUFFICES ASSUME NEW i \in Responses(inbox')
                 PROVE  i \in Responses(inbox) /\ inbox'[i] = inbox[i]
      OBVIOUS
    <3>1. i \in 1 .. Len(inbox') /\ inbox'[i].kind = "response"
      BY DEF Responses
    <3>2. i \in 1 .. Len(inbox) /\ inbox'[i] = inbox[i]
      BY <1>0, <2>2, <2>3, <3>1
    <3> QED BY <3>1, <3>2 DEF Responses
  <2> QED BY <1>0, <2>3, <2>4 DEF AskInv, Responses
<1> QED BY <1>1, <1>2, <1>3, <1>4 DEF RouterStep, Router

LEMMA NextAskInv ==
  ASSUME TInv, OwnInv, AskInv, [Next]_vars
  PROVE  AskInv'
<1>0. EpTypeOK /\ TypeOK
  BY DEF TInv, TypeOK
<1>1. CASE SetParams \/ Destroy \/ StartThread \/ GetOutput \/ Check \/ ReceiveTimeout
             \/ Enqueue \/ Respond \/ RespondThrows \/ ReceiverFails \/ UNCHANGED vars
  <2>1. UNCHANGED <<inbox, asks, waiting>>
    BY <1>1 DEF SetParams, Destroy, StartThread, GetOutput, GetBatches, GetError, Check,
       ReceiveTimeout, Enqueue, Respond, RespondThrows, ReceiverFails, vars, epVars
  <2>2. Awaiting' <=> Awaiting
    <3>1. CASE SetParams \/ Destroy \/ GetOutput \/ UNCHANGED vars
      BY <3>1 DEF SetParams, Destroy, GetOutput, GetBatches, GetError, vars, plugin, Awaiting
    <3>2. CASE StartThread
      BY <3>2 DEF StartThread, OwnInv, EndpointOwned, Awaiting
    <3>3. CASE Check \/ ReceiveTimeout \/ Enqueue \/ Respond \/ RespondThrows
                 \/ ReceiverFails
      BY <3>3 DEF Check, ReceiveTimeout, Enqueue, Respond, RespondThrows, ReceiverFails,
         Caught, Awaiting
    <3> QED BY <1>1, <3>1, <3>2, <3>3
  <2> QED BY <2>1, <2>2, StillAsk
<1>2. CASE Stop \/ ConnectEndpoint \/ RegisterFails \/ ThreadFails \/ ResetDone
  <2>1. FreshSocket
    BY <1>2 DEF Stop, Configure, Destroyed, ConnectEndpoint, RegisterFails, ThreadFails, ResetDone,
       EpClose, EpConnect
  <2> QED BY <2>1, FreshAsk
<1>3. CASE RegisterNext \/ ResetSent
  <2>1. CASE FreshSocket
    BY <2>1, FreshAsk
  <2>2. CASE ~FreshSocket
    <3>1. ~Awaiting
      BY <1>3 DEF RegisterNext, ResetSent, OwnInv, EndpointOwned, Awaiting
    <3>2. Awaiting' /\ \E m : AskSent(m)
      BY <1>3, <2>2 DEF RegisterNext, ResetSent, AskFailed, Awaiting
    <3> QED BY <3>1, <3>2, SentAsk
  <2> QED BY <2>1, <2>2
<1>4. CASE RegisterSkips \/ ResetSkips \/ Registered
  <2>1. inbox # <<>> /\ inbox' = Tail(inbox) /\ UNCHANGED <<asks, waiting>>
    BY <1>4 DEF RegisterSkips, ResetSkips, Registered, SkipNotify, SkipRequest,
       TakeReply, ReplyAccepted, Front
  <2>2. (Awaiting' <=> Awaiting) \/ Head(inbox).kind = "response"
    BY <1>4 DEF RegisterSkips, ResetSkips, Registered, plugin, TakeReply, ReplyAccepted,
       Front, Awaiting
  <2> QED BY <1>0, <2>1, <2>2, TakenAsk
<1>5. CASE Receive \/ ReceiveThrows
  <2>1. Awaiting' <=> Awaiting
    BY <1>5 DEF Receive, ReceiveThrows, Caught, Awaiting
  <2>2. CASE UNCHANGED epVars
    BY <2>1, <2>2, StillAsk DEF epVars
  <2>3. CASE TakeFrame
    BY <1>0, <2>1, <2>3, TakenAsk DEF TakeFrame
  <2> QED BY <1>5, <2>2, <2>3 DEF Receive, ReceiveThrows
<1>6. CASE RouterStep
  BY <1>0, <1>6, RouterAsk
<1>7. Next \/ UNCHANGED vars
  OBVIOUS
<1> QED BY <1>1, <1>2, <1>3, <1>4, <1>5, <1>6, <1>7, Zenon DEF Next, Start, Receiver

\* Whatever the router answers, refuses or leaves unanswered, and however often
\* the ids wrap: the one response there can be is read by the thread that waits
\* for it, and receive() never meets one.
THEOREM NoResponseEverStray == Spec => []NoStrayResponse
<1>1. Init => TInv /\ OwnInv /\ AskInv
  BY InitTInv, InitOwnInv, InitAskInv
<1>2. TInv /\ OwnInv /\ AskInv /\ [Next]_vars => (TInv /\ OwnInv /\ AskInv)'
  BY NextTInv, NextOwnInv, NextAskInv
<1>3. TInv /\ AskInv => NoStrayResponse
  <2> SUFFICES ASSUME TInv, AskInv, NEW i \in DOMAIN inbox, inbox[i].kind = "response"
               PROVE  Awaiting /\ inbox[i].msgid = waiting
    BY DEF NoStrayResponse, Awaiting
  <2>1. DOMAIN inbox = 1 .. Len(inbox)
    BY DEF TInv, TypeOK, EpTypeOK
  <2>2. i \in Responses(inbox)
    BY <2>1 DEF Responses
  <2> QED BY <2>2 DEF AskInv
<1> QED BY <1>1, <1>2, <1>3, PTL DEF Spec
============================================================================
