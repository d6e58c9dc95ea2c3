-------------------------- MODULE CallPluginProofs --------------------------
(***************************************************************************)
(* For any number of inputs, calls and connections: what the plugins that  *)
(* make one call per message publish, and what their _setup_ok and _error  *)
(* are worth.  Message ids are assumed not to wrap (PluginAssumption).     *)
(***************************************************************************)
EXTENDS CallPlugin, RpcClientProofs

\* The call in progress is the one made for the input in hand.
CallingInv ==
  /\ stage = "calling" <=> pc = "receive"
  /\ stage = "calling" => made_for[calls] = rpc_call

\* What was published is the answer of a call made already, for its input.
PubInv ==
  \A p \in published : p.call <= calls /\ made_for[p.call] = p.input

PInv == IInv /\ PluginTypeOK /\ CallingInv /\ PubInv /\ SetUpMeansOpen
----------------------------------------------------------------------------
\* Every step of a plugin is a step of its client, or leaves it alone.
LEMMA PluginStep ==
  ASSUME [PluginNext]_pluginVars
  PROVE  [Next]_vars
<1>1. CASE UNCHANGED pluginVars
  BY <1>1 DEF pluginVars
<1>2. CASE SetParams
  BY <1>2 DEF SetParams, Next
<1>3. CASE Critical \/ Load \/ LoadRefused \/ CallRefused
  BY <1>3 DEF Critical, Load, LoadRefused, CallRefused
<1>4. CASE MakeCall
  BY <1>4 DEF MakeCall, Next
<1>5. CASE InCall
  BY <1>5 DEF InCall, Receive, Next
<1>6. CASE Environment
  BY <1>6 DEF Environment, Next
<1> QED BY <1>1, <1>2, <1>3, <1>4, <1>5, <1>6 DEF PluginNext

\* What Connect does to the connection; nothing else here opens or closes.
LEMMA OpenKept ==
  ASSUME [Next]_vars, ~Connect, ~Close
  PROVE  open' = open
BY DEF Next, vars, CallSent, CallSendFails, Recv, RecvTimeout, RecvEof,
       RouterAnswer, Deliver, PeerClose, client
----------------------------------------------------------------------------
LEMMA InitPInv == PluginInit => PInv
<1> SUFFICES ASSUME PluginInit PROVE PInv
  OBVIOUS
<1>1. Init
  BY DEF PluginInit
<1>2. IInv
  BY <1>1, InitIInv
<1>3. PluginTypeOK
  <2>1. TypeOK
    BY <1>2 DEF IInv
  <2>2. 0 \in Inputs
    BY PluginAssumption DEF Inputs
  <2>3. made_for \in [Calls -> Inputs]
    BY <2>2 DEF PluginInit
  <2> QED BY <2>1, <2>2, <2>3 DEF PluginInit, PluginTypeOK
<1>4. CallingInv
  BY <1>1 DEF PluginInit, Init, CallingInv
<1>5. PubInv /\ SetUpMeansOpen
  BY DEF PluginInit, PubInv, SetUpMeansOpen
<1> QED BY <1>2, <1>3, <1>4, <1>5 DEF PInv

\* Steps that make no call, end none and publish nothing.
LEMMA QuietPInv ==
  ASSUME PInv, IInv', PluginTypeOK',
         UNCHANGED <<pc, calls, made_for, published>>,
         pc = "receive" => stage' = stage /\ rpc_call' = rpc_call,
         pc # "receive" => stage' # "calling",
         SetUpMeansOpen'
  PROVE  PInv'
<1>1. CallingInv'
  BY DEF PInv, CallingInv
<1>2. PubInv'
  BY DEF PInv, PubInv
<1> QED BY <1>1, <1>2 DEF PInv

\* The next input is one.
LEMMA NextInputs ==
  ASSUME PluginTypeOK, NextInput
  PROVE  inputs' \in Inputs
BY PluginAssumption DEF NextInput, PluginTypeOK, Inputs

LEMMA SetParamsPInv ==
  ASSUME PInv, IInv', SetParams
  PROVE  PInv'
<1> USE DEF PInv
<1>1. stage \in {"new", "ready"} /\ stage' = "ready" /\ pc # "receive"
  BY DEF SetParams, CallingInv
<1>2. UNCHANGED <<kind, inputs, rpc_call, made_for, published>> /\ returned' = "none"
  BY DEF SetParams
<1>3. \/ Connect /\ setup_ok' = open'
      \/ setup_ok' = FALSE /\ UNCHANGED vars
  BY DEF SetParams, SetupOk
<1>4. UNCHANGED <<pc, calls>> /\ setup_ok' \in BOOLEAN
  BY <1>3 DEF Connect, vars
<1>5. PluginTypeOK'
  <2>1. error' \in Inputs
    BY PluginAssumption DEF SetParams, PluginTypeOK, Inputs
  <2>2. UNCHANGED Inputs /\ TypeOK'
    BY DEF IInv, Inputs
  <2> QED BY <1>1, <1>2, <1>4, <2>1, <2>2 DEF PluginTypeOK, Inputs
<1>6. SetUpMeansOpen'
  BY <1>3 DEF SetUpMeansOpen
<1> QED BY <1>1, <1>2, <1>4, <1>5, <1>6, QuietPInv

\* An input that leads to no call.
LEMMA NoCallPInv ==
  ASSUME PInv, IInv', Critical \/ Load \/ LoadRefused \/ CallRefused
  PROVE  PInv'
<1> USE DEF PInv
<1>1. UNCHANGED <<vars, kind, setup_ok, made_for, published>>
  BY DEF Critical, Load, LoadRefused, CallRefused, Failed
<1>2. stage \in {"ready", "loaded"} /\ stage' \in {"ready", "loaded", "stopped"}
  BY DEF Critical, Load, LoadRefused, CallRefused, Failed, Prepare, NextInput
<1>3. pc # "receive" /\ UNCHANGED <<pc, calls, open>>
  BY <1>1, <1>2 DEF CallingInv, vars
<1>4. PluginTypeOK'
  <2>1. inputs' \in Inputs
    BY NextInputs DEF Critical, Load, LoadRefused, CallRefused, Prepare, PluginTypeOK
  <2>2. rpc_call' \in Inputs
    BY <2>1 DEF Critical, Load, LoadRefused, CallRefused, Prepare, PluginTypeOK
  <2>3. error' \in Inputs
    BY <2>1 DEF Critical, Load, LoadRefused, CallRefused, Failed, Trace, PluginTypeOK
  <2>4. returned' \in {"none", "success", "error", "critical"}
    BY DEF Critical, Load, LoadRefused, CallRefused, Failed
  <2> QED BY <1>1, <1>2, <2>1, <2>2, <2>3, <2>4 DEF PluginTypeOK, IInv, Inputs
<1>5. SetUpMeansOpen'
  BY <1>1, <1>2, <1>3 DEF SetUpMeansOpen
<1> QED BY <1>1, <1>2, <1>3, <1>4, <1>5, QuietPInv

LEMMA MakeCallPInv ==
  ASSUME PInv, IInv', MakeCall
  PROVE  PInv'
<1> USE DEF PInv
<1>1. /\ stage \in {"ready", "loaded"} /\ setup_ok
      /\ UNCHANGED <<kind, setup_ok, published>>
  BY DEF MakeCall, Failed, Prepare, NextInput
<1>2. inputs' \in Inputs /\ rpc_call' \in Inputs
  BY NextInputs DEF MakeCall, Prepare, PluginTypeOK
<1>3. /\ calls \in Nat /\ calls + 1 \in Calls /\ calls' = calls + 1
      /\ made_for' = [made_for EXCEPT ![calls + 1] = rpc_call']
      /\ UNCHANGED open
  BY ConstAssumption DEF MakeCall, CallSent, CallSendFails, StartCall, PluginTypeOK,
     TypeOK, Calls
<1>4. \/ pc' = "receive" /\ stage' = "calling" /\ returned' = "none" /\ UNCHANGED error
      \/ pc' = pc /\ stage' = "ready" /\ returned' = "error"
         /\ error' = IF kind = "sink" THEN inputs' ELSE error
  BY DEF MakeCall, CallSent, CallSendFails, Failed, Trace
<1>5. made_for' \in [Calls -> Inputs] /\ made_for'[calls'] = rpc_call'
  BY <1>2, <1>3 DEF PluginTypeOK
<1>6. PluginTypeOK'
  BY <1>1, <1>2, <1>4, <1>5 DEF PluginTypeOK, IInv, Inputs
<1>7. CallingInv'
  BY <1>1, <1>4, <1>5 DEF CallingInv
<1>8. PubInv'
  <2> SUFFICES ASSUME NEW p \in published
               PROVE  p.call <= calls' /\ made_for'[p.call] = p.input
    BY <1>1 DEF PubInv
  <2>1. p.call \in Calls /\ p.call \in Nat /\ p.call <= calls
    BY DEF PubInv, PluginTypeOK, Calls
  <2>2. made_for'[p.call] = made_for[p.call]
    BY <1>3, <2>1 DEF PluginTypeOK
  <2> QED BY <1>3, <2>1, <2>2 DEF PubInv
<1>9. SetUpMeansOpen'
  BY <1>1, <1>3 DEF SetUpMeansOpen
<1> QED BY <1>6, <1>7, <1>8, <1>9

\* No two calls share an id.
LEMMA IdsDiffer ==
  ASSUME NEW n \in Calls, NEW a \in 1 .. n, IdOf(a) = IdOf(n)
  PROVE  a = n
<1> DEFINE x == n - 1
<1> DEFINE y == a - 1
<1>1. x \in Int /\ y \in Int /\ 0 <= x - y /\ x - y < IdSpace
  BY ConstAssumption, PluginAssumption DEF Calls
<1>2. x % IdSpace = y % IdSpace
  BY DEF IdOf
<1> HIDE DEF x, y
<1>3. x = y
  BY <1>1, <1>2, ConstAssumption, ModSame
<1> QED BY <1>3 DEF x, y, Calls

LEMMA InCallPInv ==
  ASSUME PInv, IInv', InCall
  PROVE  PInv'
<1> USE DEF PInv
<1>1. /\ stage = "calling" /\ pc = "receive"
      /\ UNCHANGED <<kind, setup_ok, inputs, rpc_call, made_for, calls, open>>
  BY DEF InCall, Receive, Recv, RecvTimeout, RecvEof
<1>2. calls \in Calls
  BY <1>1, ConstAssumption DEF CounterInv, IInv, TypeOK, Calls
<1>3. pc' \in {"idle", "receive"} /\ TypeOK'
  BY DEF IInv, TypeOK
<1>4. CASE pc' = "receive"
  <2>1. UNCHANGED <<stage, returned, error, published>>
    BY <1>4, Zenon DEF InCall
  <2>2. PluginTypeOK'
    BY <1>1, <1>3, <2>1 DEF PluginTypeOK, Inputs
  <2>3. SetUpMeansOpen'
    BY <1>1, <2>1 DEF SetUpMeansOpen
  <2> QED BY <1>1, <1>4, <2>1, <2>2, <2>3, QuietPInv
<1>5. CASE pc' = "idle" /\ outcome'[calls] = "ok" /\ Succeeded
  <2>1. Succeeded
    BY <1>5
  <2>2. answer'[calls] = calls
    <3>1. answer'[calls] \in 1 .. calls /\ IdOf(answer'[calls]) = IdOf(calls)
      BY <1>2, <1>5 DEF IInv, AnswerInv, IdOf
    <3> QED BY <1>2, <3>1, IdsDiffer
  <2>3. /\ stage' = "ready" /\ returned' = "success" /\ error' = error
        /\ \A p \in published' : p \in published \/ p = [input |-> rpc_call, call |-> calls]
    BY <2>1, <2>2 DEF Succeeded
  <2>4. PluginTypeOK'
    <3>1. published' \subseteq [input : Inputs, call : Calls]
      BY <1>2, <2>3 DEF PluginTypeOK
    <3> QED BY <1>1, <1>3, <2>3, <3>1 DEF PluginTypeOK, Inputs
  <2>5. CallingInv'
    BY <1>5, <2>3 DEF CallingInv
  <2>6. PubInv'
    <3>1. calls \in Nat /\ made_for[calls] = rpc_call
      BY <1>1, <1>2 DEF CallingInv, Calls
    <3> QED BY <1>1, <2>3, <3>1 DEF PubInv
  <2>7. SetUpMeansOpen'
    BY <1>1, <2>3 DEF SetUpMeansOpen
  <2> QED BY <2>4, <2>5, <2>6, <2>7
<1>6. CASE pc' = "idle" /\ Failed
  <2>1. Failed
    BY <1>6
  <2>2. /\ stage' = "ready" /\ returned' = "error" /\ published' = published
        /\ error' = IF kind = "sink" THEN inputs' ELSE error
    BY <2>1 DEF Failed, Trace
  <2>3. PluginTypeOK'
    BY <1>1, <1>3, <2>2 DEF PluginTypeOK, Inputs
  <2>4. CallingInv'
    BY <1>6, <2>2 DEF CallingInv
  <2>5. PubInv'
    BY <1>1, <2>2 DEF PubInv
  <2>6. SetUpMeansOpen'
    BY <1>1, <2>2 DEF SetUpMeansOpen
  <2> QED BY <2>3, <2>4, <2>5, <2>6
<1>7. CASE pc' = "idle" /\ outcome'[calls] = "ok"
  <2>1. Succeeded \/ Failed
    BY <1>7, Zenon DEF InCall, ReportFails
  <2> QED BY <1>5, <1>6, <1>7, <2>1
<1>8. CASE pc' = "idle" /\ outcome'[calls] # "ok"
  <2>1. Failed
    BY <1>8, Zenon DEF InCall
  <2> QED BY <1>6, <1>8, <2>1
<1> QED BY <1>3, <1>4, <1>7, <1>8

LEMMA OutsidePInv ==
  ASSUME PInv, IInv', Environment \/ UNCHANGED pluginVars
  PROVE  PInv'
<1>1. UNCHANGED <<plugin, client>>
  BY DEF Environment, RouterAnswer, Deliver, PeerClose, pluginVars, vars, client, plugin
<1>2. UNCHANGED <<kind, stage, setup_ok, inputs, rpc_call, error, returned, made_for,
                  published, pc, calls, open>>
  BY <1>1 DEF plugin, client
<1>3. PluginTypeOK' /\ SetUpMeansOpen'
  BY <1>2 DEF PInv, IInv, PluginTypeOK, Inputs, SetUpMeansOpen
<1> QED BY <1>2, <1>3, QuietPInv DEF PInv, CallingInv

LEMMA NextPInv ==
  ASSUME PInv, [PluginNext]_pluginVars
  PROVE  PInv'
<1>1. IInv'
  BY PluginStep, NextIInv DEF PInv
<1> QED BY <1>1, SetParamsPInv, NoCallPInv, MakeCallPInv, InCallPInv, OutsidePInv
        DEF PluginNext

LEMMA InvariantPInv == PluginSpec => []PInv
BY InitPInv, NextPInv, PTL DEF PluginSpec

\* The plugin's variables keep their types, for any number of inputs.
THEOREM PluginTypeCorrect == PluginSpec => []PluginTypeOK
<1>1. PInv => PluginTypeOK
  BY DEF PInv
<1> QED BY <1>1, InvariantPInv, PTL

\* The result published for an input was computed for the call made for it,
\* whatever timed out, was refused or was answered late before.
THEOREM AlwaysPublishedForInput == PluginSpec => []PublishedForInput
<1>1. PInv => PublishedForInput
  BY DEF PInv, PubInv, PublishedForInput
<1> QED BY <1>1, InvariantPInv, PTL

\* However often, and with whatever luck, set_params was called: a plugin that
\* believes itself set up has a socket.
THEOREM SetUpAlwaysOpen == PluginSpec => []SetUpMeansOpen
<1>1. PInv => SetUpMeansOpen
  BY DEF PInv
<1> QED BY <1>1, InvariantPInv, PTL

\* In unoq_sink, whatever the order in which messages are refused, fail and
\* succeed: the exception in _error is that of the message it is traced for.
THEOREM SinkErrorAlwaysTraced == PluginSpec => []SinkErrorTraced
<1> USE DEF SinkErrorTraced, ErrorTraced
<1>1. PluginInit => SinkErrorTraced
  BY DEF PluginInit
<1>2. ASSUME PInv, SinkErrorTraced, [PluginNext]_pluginVars
      PROVE  SinkErrorTraced'
  <2>1. CASE SetParams
    BY <2>1 DEF SetParams
  <2>2. CASE Critical \/ Load \/ LoadRefused
    BY <2>2 DEF Critical, Load, LoadRefused
  <2>3. CASE CallRefused
    BY <2>3 DEF CallRefused, Failed, Trace
  <2>4. CASE MakeCall
    BY <2>4 DEF MakeCall, Failed, Trace
  <2>5. CASE InCall
    <3>1. UNCHANGED <<kind, inputs>> /\ pc' \in {"idle", "receive"}
      BY <1>2, <2>5, NextIInv, PluginStep DEF InCall, PInv, IInv, TypeOK
    <3>2. CASE pc' = "receive"
      <4>1. UNCHANGED <<returned, error>>
        BY <2>5, <3>2, Zenon DEF InCall
      <4> QED BY <1>2, <3>1, <4>1
    <3>3. CASE pc' = "idle" /\ outcome'[calls] = "ok"
      <4>1. Succeeded \/ Failed
        BY <2>5, <3>3, Zenon DEF InCall, ReportFails
      <4> QED BY <3>1, <4>1 DEF Succeeded, Failed, Trace
    <3>4. CASE pc' = "idle" /\ outcome'[calls] # "ok"
      <4>1. Failed
        BY <2>5, <3>4, Zenon DEF InCall
      <4> QED BY <3>1, <4>1 DEF Failed, Trace
    <3> QED BY <3>1, <3>2, <3>3, <3>4
  <2>6. CASE Environment \/ UNCHANGED pluginVars
    BY <1>2, <2>6 DEF Environment, pluginVars, plugin
  <2> QED BY <1>2, <2>1, <2>2, <2>3, <2>4, <2>5, <2>6 DEF PluginNext
<1> HIDE DEF SinkErrorTraced, ErrorTraced
<1> QED BY <1>1, <1>2, InvariantPInv, PTL DEF PluginSpec
=============================================================================
