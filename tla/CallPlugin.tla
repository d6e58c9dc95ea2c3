----------------------------- MODULE CallPlugin -----------------------------
(***************************************************************************)
(* The plugins that make one call() per message: unoq_sink, unoq_filter    *)
(* and unoq_source in call mode, over RPCClient::Client.  The MADS agent   *)
(* calls set_params, then load_data and process, or get_output, on one     *)
(* thread; messages, and the polls of the source, are numbered as inputs.  *)
(***************************************************************************)
EXTENDS RpcClient

CONSTANTS
  Kinds,           \* the plugins to look at
  MaxInputs        \* bound: inputs

ASSUME PluginAssumption ==
  /\ Kinds \subseteq {"source", "sink", "filter"}
  /\ MaxInputs \in Nat
  /\ MaxCalls <= IdSpace   \* no two calls share an id

VARIABLES
  kind,            \* the plugin
  stage,           \* "new" before set_params; "ready"; "loaded" between
                   \* load_data and process; "calling"; "stopped"
  setup_ok,        \* _setup_ok
  inputs,          \* inputs so far (history): the last is the current one
  rpc_call,        \* the input _rpc_call was taken from
  error,           \* the input _error tells of, or 0: none, or the connection
  returned,        \* what the last handler returned, "none" inside one
  made_for,        \* the input each call was made for (history)
  published        \* results published: for which input, of which call (history)

plugin == <<kind, stage, setup_ok, inputs, rpc_call, error, returned, made_for,
            published>>
pluginVars == <<vars, plugin>>

Inputs == 0 .. MaxInputs

PluginTypeOK ==
  /\ TypeOK
  /\ kind \in Kinds
  /\ stage \in {"new", "ready", "loaded", "calling", "stopped"}
  /\ setup_ok \in BOOLEAN
  /\ inputs \in Inputs /\ rpc_call \in Inputs /\ error \in Inputs
  /\ returned \in {"none", "success", "error", "critical"}
  /\ made_for \in [Calls -> Inputs]
  /\ published \subseteq [input : Inputs, call : Calls]

PluginInit ==
  /\ Init
  /\ kind \in Kinds
  /\ stage = "new"
  /\ setup_ok = TRUE
  /\ inputs = 0 /\ rpc_call = 0 /\ error = 0
  /\ returned = "none"
  /\ made_for = [n \in Calls |-> 0]
  /\ published = {}
----------------------------------------------------------------------------
(* set_params.                                                             *)

\* Mutant: a failed connect() is not remembered.
SetupOkAlways(connected) == TRUE

\* Whether the plugin is set up, after its connect().
SetupOk(connected) == connected

\* connect() either closed the old socket and tried a new one, or refused the
\* path before it touched the old one; the source also refuses parameters.
\* Only the source sets _setup_ok, and clears _error, before it tries: a sink
\* or a filter that failed once does not connect again.
SetParams ==
  /\ stage \in {"new", "ready"}
  /\ kind = "source" \/ setup_ok
  /\ \/ Connect /\ setup_ok' = SetupOk(open')
     \/ setup_ok' = FALSE /\ UNCHANGED vars
  /\ error' = IF kind = "source" \/ ~setup_ok' THEN 0 ELSE error
  /\ stage' = "ready"
  /\ returned' = "none"
  /\ UNCHANGED <<kind, inputs, rpc_call, made_for, published>>
----------------------------------------------------------------------------
(* load_data, process and get_output.                                      *)

\* The next input; a plugin that is not set up returns critical, and the agent
\* stops.
NextInput ==
  /\ stage = "ready"
  /\ inputs < MaxInputs
  /\ inputs' = inputs + 1

Critical ==
  /\ NextInput
  /\ ~setup_ok
  /\ stage' = "stopped"
  /\ returned' = "critical"
  /\ UNCHANGED <<vars, kind, setup_ok, rpc_call, error, made_for, published>>

\* unoq_filter's load_data accepts the input, and the agent calls process.
Load ==
  /\ kind = "filter"
  /\ NextInput
  /\ setup_ok
  /\ rpc_call' = inputs'
  /\ stage' = "loaded"
  /\ returned' = "success"
  /\ UNCHANGED <<vars, kind, setup_ok, error, made_for, published>>

\* An input that is no call is refused by load_data of the filter.
LoadRefused ==
  /\ kind = "filter"
  /\ NextInput
  /\ setup_ok
  /\ error' = inputs'
  /\ returned' = "error"
  /\ UNCHANGED <<vars, kind, stage, setup_ok, rpc_call, made_for, published>>

\* Mutant: unoq_sink keeps the exception to itself.
TraceNever(ofSink) == error

\* catch: only unoq_sink puts the exception in _error; the other two put it in
\* an output that is not published.
Trace(ofSink) == IF ofSink THEN inputs' ELSE error

Failed ==
  /\ stage' = "ready"
  /\ returned' = "error"
  /\ error' = Trace(kind = "sink")
  /\ UNCHANGED published

\* What the call is made with: the source's own parameters, the input itself,
\* or the input load_data kept.
Prepare ==
  IF kind = "filter"
  THEN stage = "loaded" /\ UNCHANGED <<inputs, rpc_call>>
  ELSE NextInput /\ rpc_call' = inputs'

\* parse_json_call throws: the sink has looked at nothing, the other two not at
\* the arguments one by one.
CallRefused ==
  /\ Prepare
  /\ setup_ok
  /\ Failed
  /\ UNCHANGED <<vars, kind, setup_ok, made_for>>

\* call().
MakeCall ==
  /\ Prepare
  /\ setup_ok
  /\ made_for' = [made_for EXCEPT ![calls + 1] = rpc_call']
  /\ \/ /\ CallSent
        /\ stage' = "calling"
        /\ returned' = "none"
        /\ UNCHANGED <<error, published>>
     \/ CallSendFails /\ Failed
  /\ UNCHANGED <<kind, setup_ok>>

\* call() has returned.
Succeeded ==
  /\ stage' = "ready"
  /\ returned' = "success"
  /\ published' = IF kind = "sink" THEN published
                  ELSE published \cup {[input |-> rpc_call, call |-> answer'[calls]]}
  /\ UNCHANGED error

\* What unoq_sink prints of a call that succeeded throws, in the same try:
\* verbose is no bool, or the result is no text.
ReportFails == kind = "sink" /\ Failed

InCall ==
  /\ stage = "calling"
  /\ UNCHANGED <<kind, setup_ok, inputs, rpc_call, made_for>>
  /\ Receive
  /\ CASE pc' = "receive" -> UNCHANGED <<stage, returned, error, published>>
       [] pc' = "idle" /\ outcome'[calls] = "ok" -> Succeeded \/ ReportFails
       [] OTHER -> Failed
----------------------------------------------------------------------------
\* The router and the socket.
Environment ==
  /\ RouterAnswer \/ Deliver \/ PeerClose
  /\ UNCHANGED plugin

PluginNext ==
  \/ SetParams \/ Critical \/ Load \/ LoadRefused
  \/ CallRefused \/ MakeCall \/ InCall
  \/ Environment

PluginSpec == PluginInit /\ [][PluginNext]_pluginVars
----------------------------------------------------------------------------
(* Properties.                                                             *)

\* The result published for an input was computed for the call made for that
\* very input: not for an earlier one whose call had failed and was answered
\* late, not for one load_data refused.
PublishedForInput ==
  \A p \in published : made_for[p.call] = p.input

\* A plugin that believes itself set up has a socket: no way through set_params,
\* once or again, leads to a call() that throws "Socket is not open".
SetUpMeansOpen == stage # "new" /\ setup_ok => open

\* "return_type::error: _error is traced": an error the agent is told of is
\* the one _error holds, not one of before.
ErrorTraced == returned = "error" => error = inputs

\* What ErrorTraced says is true of unoq_sink, in whatever order messages are
\* refused, fail and succeed: the exception of this very message is in _error.
SinkErrorTraced == kind = "sink" => ErrorTraced
=============================================================================
