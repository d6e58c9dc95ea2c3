----------------------------- MODULE UnoqSource -----------------------------
(***************************************************************************)
(* The unoq_source plugin (src/unoq_source.cpp): the agent's thread, which *)
(* calls set_params, get_output and the destructor, and in notify mode the *)
(* receiver thread, which moves messages from the endpoint to the queue.   *)
(* They share the queue and the error text under _queue_mutex, the flag    *)
(* _receiver_running (atomic), and the endpoint, which nothing guards.     *)
(***************************************************************************)
EXTENDS Endpoint

CONSTANTS
  Configs,         \* what set_params can make of its parameters
  MaxSetups        \* bound: calls of set_params

Policies == {"drop_oldest", "drop_newest"}

\* valid: the parameters passed every check of set_params, so that _setup_ok
\* is still true when it comes to connecting.
Config == [mode : {"call", "notify"}, valid : BOOLEAN, policy : Policies,
           max_queue : Nat \ {0}, methods : Seq(Methods)]

ASSUME SourceAssumption ==
  /\ Configs \subseteq Config
  /\ MaxSetups \in Nat
  /\ Reset \notin Methods

VARIABLES
  main,            \* where the agent's thread is
  recv,            \* where the receiver thread is; "none": there is none, or
                   \* it has returned
  cfg,             \* the parameters in force
  next_cfg,        \* the parameters of the set_params that waits for the join
  setup_ok,        \* _setup_ok
  running,         \* _receiver_running
  nreg,            \* methods registered by the start_receiver in progress
  msg,             \* the message local to receiver_loop
  queued,          \* what enqueue_message returned for it
  queue,           \* _message_queue, the numbers of its messages
  rerror,          \* _receiver_error is not empty
  setups,          \* number of set_params calls (history)
  born,            \* messages sent before the queue was last cleared (history)
  enqueued,        \* messages ever put in the queue (history)
  published,       \* messages published since set_params (history)
  told,            \* get_output returned the error since then (history)
  answers,         \* what the sketch was answered, by message (history)
  skipped          \* notifications dropped while registering (history)

setup == <<cfg, next_cfg, setup_ok, nreg>>
locals == <<msg, queued>>
box == <<queue, rerror>>
plugin == <<main, recv, running, setup, locals, box>>
history == <<setups, born, enqueued, published, told, answers, skipped>>
vars == <<epVars, plugin, history>>

MainPcs == {"idle", "join", "connect", "register", "await", "destroy", "gone"}
RecvPcs == {"none", "check", "receive", "enqueue", "respond", "fail", "reset",
            "await"}
Answers == {"none", "true", "false", "error"}

\* The members' initial values.
DefaultConfig == [mode |-> "call", valid |-> TRUE, policy |-> "drop_oldest",
                  max_queue |-> 256, methods |-> <<>>]

TypeOK ==
  /\ EpTypeOK
  /\ main \in MainPcs
  /\ recv \in RecvPcs
  /\ cfg \in Configs \cup {DefaultConfig}
  /\ next_cfg \in Configs \cup {DefaultConfig}
  /\ setup_ok \in BOOLEAN
  /\ running \in BOOLEAN
  /\ nreg \in Nat
  /\ msg \in Incoming \cup {<<>>}
  /\ queued \in BOOLEAN
  /\ queue \in Seq(MsgNums)
  /\ rerror \in BOOLEAN
  /\ setups \in 0 .. MaxSetups
  /\ born \in 0 .. MaxMsgs
  /\ enqueued \subseteq MsgNums
  /\ published \in Seq(MsgNums)
  /\ told \in BOOLEAN
  /\ answers \in [MsgNums -> Answers]
  /\ skipped \subseteq MsgNums

Init ==
  /\ EpInit
  /\ main = "idle"
  /\ recv = "none"
  /\ cfg = DefaultConfig
  /\ next_cfg = DefaultConfig
  /\ setup_ok = TRUE
  /\ running = FALSE
  /\ nreg = 0
  /\ msg = <<>>
  /\ queued = FALSE
  /\ queue = <<>>
  /\ rerror = FALSE
  /\ setups = 0
  /\ born = 0
  /\ enqueued = {}
  /\ published = <<>>
  /\ told = FALSE
  /\ answers = [n \in MsgNums |-> "none"]
  /\ skipped = {}
----------------------------------------------------------------------------
(* set_params and the destructor.  Both begin with stop_receiver.          *)

SetParams ==
  /\ main = "idle"
  /\ setups < MaxSetups
  /\ setups' = setups + 1
  /\ next_cfg' \in Configs
  /\ running' = FALSE
  /\ main' = "join"
  /\ UNCHANGED <<epVars, recv, cfg, setup_ok, nreg, locals, box, born,
                 enqueued, published, told, answers, skipped>>

Destroy ==
  /\ main = "idle"
  /\ running' = FALSE
  /\ main' = "destroy"
  /\ UNCHANGED <<epVars, recv, setup, locals, box, history>>

\* Mutant: the thread is told to stop, and not waited for.
JoinedAtOnce == recv \in RecvPcs

\* _receiver_thread.join() returns, or there is no thread to join.
Joined == recv = "none"

\* The rest of stop_receiver, and set_params up to start_receiver.  In call
\* mode Client::connect may fail.
Configure ==
  /\ main = "join"
  /\ Joined
  /\ EpClose
  /\ cfg' = next_cfg
  /\ queue' = <<>>
  /\ rerror' = FALSE
  /\ IF next_cfg.valid /\ next_cfg.mode = "notify"
     THEN main' = "connect" /\ setup_ok' = TRUE
     ELSE main' = "idle" /\ setup_ok' \in {FALSE, next_cfg.valid}
  /\ published' = <<>>
  /\ told' = FALSE
  /\ born' = sent
  /\ UNCHANGED <<recv, running, next_cfg, nreg, locals, setups, enqueued,
                 answers, skipped>>

Destroyed ==
  /\ main = "destroy"
  /\ Joined
  /\ main' = "gone"
  /\ EpClose
  /\ UNCHANGED <<recv, running, setup, locals, box, history>>
----------------------------------------------------------------------------
(* start_receiver.                                                         *)

\* The exception that leaves start_receiver, the endpoint closed.
StartFails ==
  /\ main' = "idle"
  /\ setup_ok' = FALSE
  /\ UNCHANGED <<recv, running, cfg, next_cfg, nreg, locals, box>>

ConnectEndpoint ==
  /\ main = "connect"
  /\ \/ /\ EpConnect
        /\ main' = "register"
        /\ nreg' = 0
        /\ UNCHANGED <<recv, running, cfg, next_cfg, setup_ok, locals, box>>
     \/ EpClose /\ StartFails
  /\ UNCHANGED history

\* register_method of the next method.
RegisterNext ==
  /\ main = "register"
  /\ nreg < Len(cfg.methods)
  /\ \/ /\ AskSent(cfg.methods[nreg + 1])
        /\ main' = "await"
        /\ UNCHANGED <<recv, running, setup, locals, box>>
     \/ AskFailed /\ StartFails
  /\ UNCHANGED history

\* Waiting for the answer, the thread meets a message of the sketch.
RegisterSkips ==
  /\ main = "await"
  /\ \/ SkipNotify  /\ skipped' = skipped \cup {Head(inbox).n} /\ UNCHANGED answers
     \/ SkipRequest /\ answers' = [answers EXCEPT ![Head(inbox).n] = "error"]
                    /\ UNCHANGED skipped
  /\ UNCHANGED <<plugin, setups, born, enqueued, published, told>>

Registered ==
  /\ main = "await"
  /\ TakeReply
  /\ nreg' = nreg + 1
  /\ main' = "register"
  /\ UNCHANGED <<recv, running, cfg, next_cfg, setup_ok, locals, box, history>>

\* Mutant: a method that could not be registered is passed over.
RegisterPassesOver ==
  /\ main = "await"
  /\ AwaitThrows
  /\ nreg' = nreg + 1
  /\ main' = "register"
  /\ UNCHANGED <<epVars, recv, running, cfg, next_cfg, setup_ok, locals, box,
                 history>>

RegisterFails ==
  /\ main = "await"
  /\ AwaitThrows
  /\ EpClose
  /\ StartFails
  /\ UNCHANGED history

StartThread ==
  /\ main = "register"
  /\ nreg = Len(cfg.methods)
  /\ running' = TRUE
  /\ recv' = "check"
  /\ main' = "idle"
  /\ UNCHANGED <<epVars, setup, locals, box, history>>

\* There is no thread to be had: its constructor throws.
ThreadFails ==
  /\ main = "register"
  /\ nreg = Len(cfg.methods)
  /\ EpClose
  /\ StartFails
  /\ UNCHANGED history
----------------------------------------------------------------------------
(* get_output in notify mode.  In call mode it is a Client::call and       *)
(* changes nothing here; a source that is not set up answers critical.     *)

Polled == main = "idle" /\ setup_ok /\ cfg.mode = "notify"

\* Mutant: the error is looked at first.
TellGuardFirst == rerror

\* The error is returned if the queue is empty.
TellGuard == rerror /\ queue = <<>>

\* success: the queue is emptied, oldest first.  That the batch is laid out as
\* one array per method is left out.
GetBatches ==
  /\ Polled
  /\ queue # <<>>
  /\ queue' = <<>>
  /\ published' = published \o queue
  /\ UNCHANGED <<epVars, main, recv, running, setup, locals, rerror, setups,
                 born, enqueued, told, answers, skipped>>

\* error; with neither messages nor an error the answer is retry.
GetError ==
  /\ Polled
  /\ TellGuard
  /\ told' = TRUE
  /\ UNCHANGED <<epVars, plugin, setups, born, enqueued, published, answers,
                 skipped>>
----------------------------------------------------------------------------
(* receiver_loop.                                                          *)

\* Mutant: the loop never tests the flag.
CheckNever ==
  /\ recv = "check"
  /\ recv' = "receive"
  /\ UNCHANGED <<epVars, main, running, setup, locals, box, history>>

\* while (_receiver_running.load())
Check ==
  /\ recv = "check"
  /\ recv' = IF running THEN "receive" ELSE "reset"
  /\ UNCHANGED <<epVars, main, running, setup, locals, box, history>>

Receive ==
  /\ recv = "receive"
  /\ Receivable
  /\ TakeFrame
  /\ msg' = Head(inbox)
  /\ recv' = "enqueue"
  /\ UNCHANGED <<main, running, setup, queued, box, history>>

\* The receive timeout: whatever the flag says the loop comes to test it again.
ReceiveTimeout ==
  /\ recv = "receive"
  /\ Quiet
  /\ ep_peer = "up"
  /\ recv' = "check"
  /\ UNCHANGED <<epVars, main, running, setup, locals, box, history>>

\* The handler of any other exception begins with a look at the flag.
Caught == IF running THEN "fail" ELSE "reset"

\* receive() throws: the stream ended, or the frame cannot be decoded.
ReceiveThrows ==
  /\ recv = "receive"
  /\ \/ Quiet /\ ep_peer = "down" /\ UNCHANGED epVars
     \/ Unreceivable /\ TakeFrame
  /\ recv' = Caught
  /\ UNCHANGED <<main, running, setup, locals, box, history>>

\* Mutant: one too many.
FullPast == Len(queue) > cfg.max_queue

Full == Len(queue) >= cfg.max_queue

\* Mutant: the overflow policies are swapped.
RefusedSwapped == Full /\ cfg.policy = "drop_oldest"

\* enqueue_message returns false, and drops the new message.
Refused == Full /\ cfg.policy = "drop_newest"

Kept == IF Full THEN Tail(queue) ELSE queue

Enqueue ==
  /\ recv = "enqueue"
  /\ queued' = ~Refused
  /\ IF Refused
     THEN UNCHANGED <<queue, enqueued>>
     ELSE /\ queue' = Append(Kept, msg.n)
          /\ enqueued' = enqueued \cup {msg.n}
  /\ recv' = IF msg.kind = "request" THEN "respond" ELSE "check"
  /\ UNCHANGED <<epVars, main, running, setup, msg, rerror, setups, born,
                 published, told, answers, skipped>>

\* Mutant: every request is acknowledged.
ReplyAlways == "true"

\* What respond() sends.
Reply == IF queued THEN "true" ELSE "false"

Respond ==
  /\ recv = "respond"
  /\ ep_peer = "up"
  /\ answers' = [answers EXCEPT ![msg.n] = Reply]
  /\ recv' = "check"
  /\ UNCHANGED <<epVars, main, running, setup, locals, box, setups, born,
                 enqueued, published, told, skipped>>

\* respond() throws: the peer is down, or the send timed out.
RespondThrows ==
  /\ recv = "respond"
  /\ recv' = Caught
  /\ UNCHANGED <<epVars, main, running, setup, locals, box, history>>

\* Mutant: the receiver ends and says nothing.
ReceiverFailsSilently ==
  /\ recv = "fail"
  /\ running' = FALSE
  /\ recv' = "reset"
  /\ UNCHANGED <<epVars, main, setup, locals, box, history>>

\* set_receiver_error, the flag cleared, and break.
ReceiverFails ==
  /\ recv = "fail"
  /\ rerror' = TRUE
  /\ running' = FALSE
  /\ recv' = "reset"
  /\ UNCHANGED <<epVars, main, setup, locals, queue, history>>

\* After the loop: "$/reset" is sent and its answer awaited; however that ends
\* the endpoint is closed.
ResetSent ==
  /\ recv = "reset"
  /\ \/ AskSent(Reset) /\ recv' = "await"
     \/ AskFailed /\ recv' = "none"
  /\ UNCHANGED <<main, running, setup, locals, box, history>>

ResetSkips ==
  /\ recv = "await"
  /\ \/ SkipNotify  /\ UNCHANGED answers
     \/ SkipRequest /\ answers' = [answers EXCEPT ![Head(inbox).n] = "error"]
  /\ UNCHANGED <<plugin, setups, born, enqueued, published, told, skipped>>

ResetDone ==
  /\ recv = "await"
  /\ ReplyAccepted \/ AwaitThrows
  /\ EpClose
  /\ recv' = "none"
  /\ UNCHANGED <<main, running, setup, locals, box, history>>
----------------------------------------------------------------------------
RouterStep == Router /\ UNCHANGED <<plugin, history>>

Start == ConnectEndpoint \/ RegisterNext \/ RegisterSkips \/ Registered
           \/ RegisterFails \/ StartThread \/ ThreadFails
Stop == Configure \/ Destroyed
GetOutput == GetBatches \/ GetError
Receiver == Check \/ Receive \/ ReceiveTimeout \/ ReceiveThrows \/ Enqueue
              \/ Respond \/ RespondThrows \/ ReceiverFails \/ ResetSent
              \/ ResetSkips \/ ResetDone

Next == SetParams \/ Destroy \/ Stop \/ Start \/ GetOutput \/ Receiver
          \/ RouterStep

Spec == Init /\ [][Next]_vars

\* The agent goes on calling get_output, and both threads run.  Nothing is
\* asked of the router: a recv() it leaves waiting ends by its timeout.
Fairness == WF_vars(Stop) /\ WF_vars(Start) /\ WF_vars(GetOutput) /\ WF_vars(Receiver)

FairSpec == Spec /\ Fairness
----------------------------------------------------------------------------
(* Properties.                                                             *)

\* The endpoint has no lock, and needs none: the agent's thread connects it
\* and registers methods only while there is no receiver, and no receiver at
\* work ever has it closed, or reopened, under its feet.
EndpointOwned ==
  /\ main \in {"connect", "register", "await", "gone"} => recv = "none"
  /\ recv # "none" => ep_open

\* What the sketch is told of a request is what became of it: true for one
\* that was queued, false or an error only for one that never will be.
HonestAnswer ==
  \A n \in MsgNums :
    /\ answers[n] = "true" => n \in enqueued
    /\ answers[n] \in {"false", "error"} => n \notin enqueued

\* Once get_output has returned the receiver's error there is nothing left to
\* publish and nothing will come: an agent that stops on the error loses no
\* message.
ErrorIsFinal ==
  told => queue = <<>> /\ recv \in {"none", "reset", "await"}

\* The messages that can still be, or have been, published.
Delivered ==
  {queue[i] : i \in DOMAIN queue} \cup {published[i] : i \in DOMAIN published}

\* A message queued since set_params is lost only by drop_oldest, and only to
\* as many newer messages as the queue holds; acknowledged or not.
OnlyOldestLost ==
  \A n \in enqueued :
    n > born /\ n \notin Delivered =>
      /\ cfg.policy = "drop_oldest"
      /\ Cardinality({k \in enqueued : k > n}) >= cfg.max_queue

\* The answer request() reads is the answer to its own request, and receive()
\* is never handed one, though the ids may wrap and requests time out: what a
\* request leaves unanswered dies with its socket.
NoStrayResponse ==
  \A i \in DOMAIN inbox :
    inbox[i].kind = "response" =>
      /\ "await" \in {main, recv}
      /\ inbox[i].msgid = waiting

\* README: "Incoming MCU notifications are accumulated in a queue."  One that
\* comes while start_receiver waits for the router's answer is not.
NotificationsAccumulated == skipped = {}

\* set_params and the destructor return: the join does not wait for a receiver
\* that waits for ever, whether the router is silent, gone or talkative.
StopReturns == main \in {"join", "destroy"} ~> main \notin {"join", "destroy"}

\* A receiver that died does not leave the source silently idle: get_output
\* comes to report it, unless the plugin is set up afresh first.
FailureTold == (Polled /\ recv = "none") ~> (told \/ ~Polled)

Box == INSTANCE Mailbox WITH
  cap <- cfg.max_queue, keep <- cfg.policy, box <- queue, seen <- enqueued,
  taken <- published,
  state <- IF told THEN "told" ELSE IF rerror THEN "failed" ELSE "on"

\* The two threads together are a Mailbox.
ImplementsMailbox == Box!Spec
============================================================================
