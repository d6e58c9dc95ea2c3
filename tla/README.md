# Specifications of the arduinoQ plugin

TLA+ models of the RPC clients, the MADS plugins and the test tools of this
repository, checked with TLC on small instances, with theorems checked by
TLAPS for every value of the constants. Paths below are relative to the
repository; `src/src/rpc.cpp` is its file `src/rpc.cpp`.

Contents: [inventory](#inventory) · [modules](#modules) ·
[model and code](#model-and-code) · [runs](#runs) · [findings](#findings) ·
[fairness](#fairness) · [theorems](#theorems) ·
[only model-checked](#only-model-checked) · [not modelled](#not-modelled) ·
[plan](#plan) · [running it](#running-it)

## Inventory

The Arduino Uno Q has a Linux CPU and a microcontroller (MCU). The Arduino
Router, a service on the CPU, tunnels msgpack-rpc between processes on the CPU,
which reach it through a Unix stream socket, and the sketch on the MCU.

```
 MADS agent ── unoq_sink ───┐
 MADS agent ── unoq_filter ─┤ RPCClient::Client ────┐
 MADS agent ── unoq_source ─┤ (call mode)           │  Unix       Arduino
 qrpc_call, qrpc_throughput ┘                       ├─ stream ── Router, or ── sketch
 MADS agent ── unoq_source ── RPCClient::Endpoint ──┘  socket    qrpc_dummy
                (notify mode: receiver thread, queue)
```

| part | state | operations | what is hard | what makes it correct |
|---|---|---|---|---|
| `RPCClient::Client` (rpc.hpp, rpc.cpp) | the socket, `_next_msgid` (`uint32_t`); per call an unpacker | `connect`, `close`, `call` | `call` fails in seven ways and leaves the socket open in all of them: an answer may come after its call gave up; one `recv()` may hold less or more than a frame; the ids wrap | a value returned is the answer to that call; a mismatch is never the fault of the call that reports it; every call ends |
| `RPCClient::Endpoint` (rpc.hpp, rpc.cpp) | the socket, `_next_msgid`, an unpacker that lives as long as the socket | `connect`, `close`, `register_method`, `reset_methods`, `receive`, `respond` | no lock, used by two threads; `request()` meets messages of the sketch while it waits for the router | used by one thread at a time; an answer is read by the request that waits for it |
| `unoq_source`, notify mode | the queue and the error text under `_queue_mutex`, the flag `_receiver_running`, the thread, the parameters | agent: `set_params`, `get_output`, destructor; thread: `receiver_loop` | two threads, one of them blocked in `recv()`; a full queue; `set_params` on a live source; a request that is queued first and answered after | nothing is lost but what the policy gives up; the sketch is told the truth; the error comes last, and comes; the join returns |
| `unoq_sink`, `unoq_filter`, `unoq_source` in call mode | `_setup_ok`, `_error`, `_rpc_call`, a `Client` | `set_params`, `load_data`, `process`, `get_output` | a call that timed out leaves its answer for the next input; an error kept from an earlier input | a published result belongs to its input; a plugin set up has a socket; the error traced is the error of that input |
| `qrpc_dummy` (dummy.cpp) | the registry of descriptors under `RegistryMutex`, `SendMutex`, `Running`; per client a thread, an unpacker | `main`, SIGINT, `client_loop` | any thread writes to any socket; descriptors are reused; clients hang up anywhere | frames are never interleaved; the registry names live registrants; every request is answered, once |
| `unoq_source`, `set_params` | `_params`, `_mode`, `_rpc_call`, `_provided_methods`, `_max_queue`, `_overflow_policy`, `_setup_ok`, `_error` | `set_params`, any number of times | members set only where the code that reads the parameter is reached; a refused mode leaves the earlier one; unsigned conversions | a source that works is the one configured last; one that does not says why |
| `qrpc_throughput` (rpc_throughput.cpp) | the tests read; one `Client`; latencies and errors of each test | reading the description, warm-up and timed loop, statistics | defaults at two levels; warm-up calls share the connection with timed ones; percentiles at one sample, at whole ranks, at the end | no call before every test was found right; what is counted was served; each timed call is counted once; the run ends; percentiles are in bounds and in order |
| value conversions (rpc.hpp, rpc.cpp) | none | JSON ↔ `Value` ↔ msgpack | integers at the edge of `int64_t`; nested arrays; floats msgpack may send as integers | an echo returns what was sent; nothing supported is rejected |
| `qrpc_call` (rpc_call.cpp) | a `Client` | one `connect`, one `call`, an exit code | arguments guessed from text; every way a call fails | the exit code is the truth; what was typed is what is sent |
| sketches (arduino/) | the timer of rpc_notify; the ring of samples of rpc_server_modulino | `loop`, `get_fft` | a timer over the wrapping `micros()`; a ring read while it is filled | never early, never missed; no sample twice, none that was gone |

`PROJECT.json` lists the same parts with the modules of each, and under
`hazards`, by line, everything here that is hard to test, with the property that
would notice it, in whole or in part, or the reason there is none.

## Modules

| module | models | extends | depends on |
|---|---|---|---|
| `RpcCall` | abstract: what a caller may rely on | | |
| `RpcClient` | `RPCClient::Client`, the byte stream, the router | | `RpcCall` (refined) |
| `Endpoint` | `RPCClient::Endpoint`, its frames, the router | | |
| `Mailbox` | abstract: a bounded box of messages | | |
| `UnoqSource` | `unoq_source` in notify mode, both threads | `Endpoint` | `Mailbox` (refined) |
| `CallPlugin` | `unoq_sink`, `unoq_filter`, `unoq_source` in call mode | `RpcClient` | |
| `Throughput` | `qrpc_throughput`: the description and the loops | `RpcClient` | |
| `QrpcCall` | `qrpc_call` | `RpcClient` | |
| `Percentile`, `LatencyStats` | `percentile()`, `compute_stats()` | | |
| `DummyRouter` | `qrpc_dummy` | | |
| `SourceParams` | what `set_params` of `unoq_source` makes of its parameters | | |
| `ValueCodec` | the conversions of a value, and of an argument of `qrpc_call` | | |
| `FloodedRequest` | `start_receiver` against a sketch that never stops | `Endpoint` | |
| `NotifySketch`, `ModulinoSketch` | the two sketches with state | | |
| `MCUnoqSource`, `MCDummyRouter` | sets of parameters and frames for TLC | | |
| `MCTools`, `MCInputs`, `MCSketches` | models that share no state, checked in one run: `part` says which of them moves | | |
| `WrapArithmetic` | lemmas on numbers modulo a word; induction over the natural numbers | | |
| `RpcClientProofs`, `CallPluginProofs`, `ToolProofs`, `UnoqSourceProofs`, `DummyRouterProofs`, `SketchProofs`, `DataProofs` | theorems | the modules they are about | |

A definition whose comment begins with "Mutant:" is a deliberately broken form
of the one after it. It is used by no specification; put in the place of the
real one it must make a property fail, which shows that the property can.

## Model and code

**RpcClient.** `open` is `_socket_fd >= 0`, `next_msgid` is `_next_msgid` modulo
`IdSpace` (2^32 in the code), `unp` is the unpacker local to `receive_message`.
`CallSent`/`CallSendFails` are `call()` up to and including `send_all`;
`Recv`, `RecvTimeout` and `RecvEof` are the three ends of each `recv()` in
`receive_message`, with the checks `call()` makes on what it got (`Verdict`, in
the code's order: id, error, type of the result). A response is two chunks, so
that a `recv()` can end inside one or run into the next, and what the unpacker
of a call still holds is lost with it, as in the code. The router answers any
pending request at any time or never (`RouterAnswer`), bytes become readable one
chunk at a time (`Deliver`), and it may die (`PeerClose`). Calls are numbered;
the numbers (`calls`, `via`, `outcome`, `answer`, `served`) are history.

Assumed: the tail of a frame read on its own never looks like a valid response
(it fails the format check, or asks for more); a request cut short by a send
timeout may be completed by later bytes and answered after all.

**Endpoint, UnoqSource.** `Endpoint` has the steps the object is used by:
`AskSent`/`AskFailed` and the wait loop of `request()` (`SkipNotify`, `SkipRequest`,
`ReplyAccepted`, `AwaitThrows`), `receive()` (`Receivable`, `TakeFrame`), `close`
and `connect`. Its unpacker lives as long as the socket, so frames are whole.
`UnoqSource` runs them from two threads: `main` is where the agent's thread is (in
`stop_receiver`'s join, connecting, registering, waiting for the router), `recv`
where `receiver_loop` is. A step is atomic exactly where the code holds
`_queue_mutex` or touches one atomic; between `Enqueue` and `Respond`, between the
test of the flag and `receive()`, and between the error and the end of the thread,
the other thread may run. `FreshSocket` is a new or a closed socket: unread frames
die with it, and the router forgets the methods. `Configure` includes everything
`set_params` does after the join: close, clear the queue and the error, take the new
parameters. A start fails at the connection, at a registration, or at the thread,
which may not be had (`ThreadFails`). The grouping of a batch by method and
`agent_id` are left out.

**FloodedRequest.** The same steps of `Endpoint`, called by `start_receiver` alone,
with a sketch whose messages have no number and no end: the socket's buffer is
the only bound on them, so `SkipNotify` and `SkipRequest` can go round for ever.

**SourceParams.** `Merged` is the three defaults and `merge_patch`, in which a null
takes a key away; what `Source::set_params`, which is not in this repository,
makes of `_params` is either the parameters given or those of before. `Errors`
lists the complaints in the order the code finds them, `_error` being the last;
`SetMembers` has, for each member, the condition under which the code reaches the
statement that sets it. `MaxQueueGiven` wraps an integer, as `get<size_t>()` does,
and takes a float without its fraction; of a float that is no `size_t` the
conversion is undefined, and `FloatSizeT`, a constant, is what the build makes of it.
An error stands for the parameter it names.

**CallPlugin.** `kind` says which plugin it is. `SetParams` is the `connect()` of
each `set_params`, with its differences: only the source sets `_setup_ok` before
it tries. `Prepare`, `MakeCall`, `InCall` are the call an input leads to;
`Succeeded` publishes (not in the sink), `Failed` returns error, and `Trace`
says who writes `_error`. What the sink prints of a call that succeeded may throw,
which makes it an error (`ReportFails`). `returned = "none"` while a handler is
running.

**Throughput, QrpcCall.** A description is the JSON the program reads, down to what
decides: whether a string is one, whether `rpc_func` is empty, whether `rpc_args`
can be converted, and for each number whether it is absent, an integer, a float or
neither. `Load` is everything up to `tests.empty()`; then `i` counts the calls of
one test, the warm-up ones first (`Timed`), and `Count` is `push_back` or
`++errors`. An empty `rpc_func` is accepted, and each of its calls throws before it
has an id (`Named`). `began`, the calls made before each test, is history. In
`QrpcCall`, `prog` is where `main` is, and `Leave` is the destructor of the client
and the exit.

**Percentile, LatencyStats.** `Percentile` is `percentile()` over whole microseconds in
hundredths: exact, where the code rounds to doubles.
`LatencyStats` collects latencies and computes what
`compute_stats` does but for the standard deviation; `Place` is where `std::sort` puts
a latency, among equals by its index, which nothing can tell.

**DummyRouter.** `owner` is the kernel's table: which connection a descriptor
names now. `registered` holds descriptors, as `RegisteredMethods` does. A thread
passes `next → register | reset | lookup → lock → write`: `Lookup` gives
`RegistryMutex` back before `Lock` takes `SendMutex`, as in
`route_notification`; a frame is two writes (`half`), each of which resolves the
descriptor anew. `AfterSend` is what follows `send_buffer`: the answer to
`emit_notify`, the second answer to a router request whose first failed, be it a
`$/register` of no one name (`misregister`). A frame that is no request or
notification by its size, type or parameters is passed over (`ignored`). SIGINT
may reach `main` before or inside `accept()` (`Sigint`) or a thread blocked in
`read()` (`SigintInRead`). A frame whose conversion throws ends the process
(`Terminate`). A `write()` that blocks is a step that comes later; `Read` takes
all there is.

**ValueCodec.** Each action is one conversion, of an argument that is a function
from the places in it to what is there, a scalar or an array of so many items; the
code goes through arrays item by item and in order, so a conversion is what it does
at a place. What is typed to `qrpc_call` is a run of digits, a decimal, `inf` or
`nan`, a number beyond any double, a boolean or a word (`Typed`); `TextValue` is the
nest of `stoll`, `stod` and comparisons. `stod` rounds: `Doubles` are the numbers a
double holds, and `Nearest` is one of those nearest to what was typed, which is what
`CodecAssumption` says of it. `MaxInt` is the greatest `int64_t`; the instance has
all its integers with and without sign, floats with and without fraction, doubles of
two significant bits with ties to the even one, arrays in arrays. Whether a whole
float travels as an integer is the msgpack library's choice and is left open.

**NotifySketch, ModulinoSketch.** `clock` is the time since the start, unbounded, of
which the sketch sees `Micros`, its value modulo the word; `loop()` is called after
any gap. In the ring a sample is its number. `get_fft` is called by the bridge,
on a thread of its own, and its library reads the slots (`ReadSlot`) while `loop()`
may push; that it reads them one by one and in order is assumed, for the library is
not in this repository.

**External code.** The router and the sketch, the kernel's sockets, nlohmann's
parser and msgpack's packer are modelled from how `src/` uses them and marked
external in `map`.

## Runs

| run | instance | shows |
|---|---|---|
| `rpc_client` | ids 0..1, three calls, two sockets, buffers of three chunks | `OwnAnswer`, `MismatchNeedsAbandoned`, `CallReturns` |
| `unoq_source` | ids 0..1, two methods, both policies and call mode, queue of two, three messages, two `set_params` | `EndpointOwned`, `HonestAnswer`, `ErrorIsFinal`, `OnlyOldestLost`, `NoStrayResponse`, refinement of `Mailbox`, `StopReturns`, `FailureTold` |
| `unoq_source_register` | two methods, one message | violates `NotificationsAccumulated` |
| `dummy_router` | three clients on two descriptors, two frames of every kind, SIGINT | `RegistrantAlive`, `NoInterleaving`, `AnsweredOnce`, `UnregisterOwnOnly`, `EveryRequestAnswered` |
| `dummy_router_reuse` | three clients on two descriptors; register, call, emit | violates `NotifiedRegistrant` |
| `tools` | descriptions of up to two tests and three calls, one more with a test of an empty name between two, eight with a test in error; one `qrpc_call`; up to six latencies of four lengths | `HonestReport`, `ErrorsBeforeTraffic`, `RunEnds`; `ExitTells`; `StatsOrdered`, `PercentileRanks` |
| `call_plugin` | each plugin, three inputs, three calls, two `connect()` | `PublishedForInput`, `SetUpMeansOpen`, `SinkErrorTraced`, refinement of `RpcCall` |
| `call_filter_error` | the filter of the same instance | violates `ErrorTraced` |
| `inputs` | four-bit integers, doubles of two significant bits, arrays of up to two items, nested, and what may be typed; two `set_params`, each a mode and two more parameters, right or wrong | `EchoedUnchanged`, `SupportedAccepted`; `SetUpAsConfigured`, `RefusalExplained` |
| `source_params_queue` | the same parameters | violates `QueuePositive` |
| `value_codec_range` | the same arguments | violates `RangeChecked` |
| `sketches` | a clock of 16 values over four turns; a ring of four filled almost three times; two methods, a buffer of three messages | `Paced`, `Prompt`; `HoldsLatest`, `WindowRecent`; `StartedWhole`, `RequestOutlastsFlood` |

Why the bounds are enough to meet the interesting cases:

- Two ids and three calls make the third call carry the id of the first, so the
  answer to the first, read by the third, is the late answer the exception in
  `OwnAnswer` is about, and an answer late by one is the one it must refuse.
  Three chunks per buffer let one `recv()` take a frame and half the next. Two
  sockets let `connect()` interrupt a backlog. `ImplementsRpcCall` holds only of
  ids that do not wrap; `call_plugin` has as many ids as calls.
- Three messages and a queue of two overflow the queue, under either policy,
  before, between and after polls. Two `set_params` give one on a live source,
  with the first receiver anywhere in its loop; ids wrap within one start.
- Two descriptors for three clients force the reuse of a number; two frames are
  enough to register a method and to send to it, and the leaving of a client is
  not a frame.
- Three calls are a warm-up and two timed calls of one test, or one test of one
  call and one of two: the answer of a call of either kind reaches a later call of
  the same test, and of the next. (Two tests with a warm-up each, four calls, were
  checked too; it takes longer than a run should.) The descriptions take the
  number of iterations from each of its three sources.
- Six samples give ranks that are whole, fractional, first and last for every
  percentile of the report.
- Two `set_params` put every configuration on top of every other. Two parameters
  and a mode are as many as any check of the code relates, but for the chain of
  three names of the methods, of which any two are tried.
- Gaps of 0 to 17 on a clock of 16 wrap within a period, at its end, and over a
  whole turn, which is the exception in `Prompt`.
- A ring of four, pushed eleven times, is read while it is empty, half full, full
  and overwritten, with none to all of its slots pushed during the read.
- In `dummy_router` SIGINT comes when at most one frame has been sent, and none is
  sent after it (`SigintEarly`): it sets one flag, which every thread tests
  between two frames, and the threads may then be anywhere in the first.
- A frame that is refused, ignored or fatal (`misregister`, `ignored`, `bad`) is only
  tried as the first of the two that are sent (`OddFirst`), and any other may follow
  it, from any client. It leaves the registry alone: of what an earlier frame did
  it finds only answers and notifications on their way.
- Four bits (`MaxInt` = 7) keep the shape of `int64_t`: a sign, a largest value, and an
  unsigned half that wraps. Doubles of two significant bits do not hold all of them:
  9, out of range, is rounded down to 8, 7.5, in range, up to 8, which is not.

`CHECK_DEADLOCK FALSE` is set in every run: each bound lets a behaviour end, and
so do the destructor, the exit of a process and a critical return to the agent.

## Findings

Each is a passing description of the code that contradicts a text of the
repository; TLC finds the behaviour.

1. *An unsigned integer above `int64_t` is sent as a negative number*
   (`value_codec_range`). `is_number_integer()` (rpc.cpp:160) holds of unsigned
   numbers, so the range test of the next branch, with its message "contains
   unsigned integer out of int64_t range" (rpc.cpp:168), is never reached.
2. *A notification of `qrpc_dummy` can reach a client that registered nothing*
   (`dummy_router_reuse`). Between the lookup (dummy.cpp:136) and the write, the
   registrant may leave and its descriptor be given to a new connection. What
   does hold, and is proved, is that the registry itself never names a dead or
   foreign descriptor, and that no frame that was begun on a socket has anything
   but its own end behind it. The end of a frame alone may reach the new connection,
   when the number changes hands between its two writes: the model does that, and
   `NoInterleaving`, which is about frames begun, does not speak of it.
3. *A notification that comes while methods are being registered is dropped*
   (`unoq_source_register`). `request()` skips it (rpc.cpp:606); the README
   (lines 167-169) says that notifications are accumulated.
4. *An error of `unoq_filter::process` is not traced* (`call_filter_error`). The
   comment at unoq_filter.cpp:83 says `_error` is traced; the `catch` at line 95
   writes the exception to an output that is not published, and `_error` stays
   empty or tells of an earlier input. In the sink it is right: `SinkErrorTraced`.
5. *A negative `max_queue` is accepted* (`source_params_queue`). `get<size_t>()`
   (unoq_source.cpp:260) wraps it to a number close to 2^64, which passes the test
   for zero, whose message (line 262) says "must be greater than zero": the queue
   has no limit.

More behaviours are in the models and are contradicted by nothing written:

- A call that times out leaves its answer on the open socket, and every later
  call on it fails with a mismatch, each reading the answer to the one before,
  until the plugin connects again. No value is ever mistaken for another
  (`OwnAnswer`), but one timeout is enough to lose the connection
  (`MismatchNeedsAbandoned` says that it is the only way). In `qrpc_throughput`
  a warm-up call that timed out shows up as errors of timed calls.
- A sink or filter whose `connect()` failed once does not try again, even if
  `set_params` is called again: only the source sets `_setup_ok` back.
- A mode that is none leaves the mode of the call before, whose setup runs on the
  new parameters: the source is refused, as it should be, but the text of `_error`
  may be about another parameter.
- An empty list in `provided_rpc` is accepted: a receiver that registers nothing.
- rpc_notify.ino says "once per second" (line 4) and notifies every 500
  microseconds (line 28).
- `get_fft` reads the ring from slot 0, not from the oldest sample: the window is
  rotated, and if samples are pushed meanwhile it holds some that were never
  together in the ring (`WindowRecent` says how far apart they can be).
- An argument such as `nan` or `inf` of `qrpc_call` is a number to `stod`, and is
  sent as one. Digits that are no `int64_t` are sent as the nearest double: of
  9223372036854775809 typed, 2^63 is sent. `EchoedUnchanged` says that this rounding,
  done once, is all that happens to what was typed.
- A test of `qrpc_throughput` whose `rpc_func` is empty is accepted and run: each
  of its calls throws before anything is sent, and is counted as an error.
- In `load_data` of the filter, a `verbose` that is no bool throws out of the
  handler, to the agent; what the agent does then is not in this repository.

## Fairness

Liveness is claimed under these assumptions, and no others.

- `RpcClient`: `WF_vars(Receive)`. The calling thread runs, and `SO_RCVTIMEO`
  (five seconds, `set_socket_timeouts`) ends a `recv()` to which nothing comes.
  The router need not answer, deliver or close.
- `UnoqSource`: weak fairness of the stop, start, `get_output` and receiver
  steps taken as four groups. Both threads are scheduled, the agent goes on
  polling, a `recv()` of the endpoint times out after a second. Nothing is asked
  of the router or the sketch. One bound helps: the sketch sends `MaxMsgs`
  messages, so a flood of messages that would keep `request()` waiting ends.
- `DummyRouter`: `WF_vars(ClientLoop(c))` for each client. Threads run and
  clients read what they are sent (a `write()` does not block for ever); they
  need not send, and may hang up. `EveryRequestAnswered` excuses a client that
  hangs up, and the shutdown or end of the process.
- `Throughput`: weak fairness of the program's own steps (`RunFairness`).
- `FloodedRequest`: the thread runs, and the router acts on what it was asked while
  it lives (`WF` of its steps). The sketch need never pause: that the wait ends
  is due to the router's answer, which comes behind a bounded number of messages,
  and not to `SO_RCVTIMEO`. This is `start_receiver`; the same wait in
  `stop_receiver`, for the answer to `$/reset`, is in `UnoqSource` only.

Mutexes need no strong fairness: `SendMutex` is given back by the very step that
ends a send, and with bounded frames no thread can take it for ever.

## Theorems

All are of the unbounded specifications: for every value of the constants that
satisfies the modules' assumptions, which TLC evaluates on the instances:

- `ConstAssumption` (RpcClient, DummyRouter), `FramesAssumption` (the
  frames are frames), `SketchAssumption`, `RingAssumption`: the types of constants.
- `EndpointAssumption`, `SourceAssumption`: the configurations are
  configurations, and `"$/reset"` is no method name.
- `ParamsAssumption`: every parameter is absent or a value a JSON parser gives,
  with integers no wider than `size_t`, and the default queue is one; a float that is
  a `size_t` but for its fraction becomes that;
  `CodecAssumption`: arguments are JSON, every item of an array at its place, and a
  typed number is rounded to a nearest double;
  `FloodAssumption`: `"$/reset"` is no method name; `StatsAssumption`.
- `PluginAssumption`, `RunAssumption`: the plugins and descriptions have their
  types; `MaxCalls` is enough for every call a description asks for, and no two
  calls share an id, as they would after 2^32 of them in one process.
- `ImplementsRpcCall` is proved for `MaxCalls <= IdSpace`, a hypothesis of the
  theorem: past it a late answer may pass for another call's.

Each is proved from an invariant that a step preserves, shown one action at a
time; the property itself is seldom preserved alone, and what is added is the
argument.

**RpcClientProofs.** `TypeCorrect`, `OwnAnswerAlways`,
`MismatchAlwaysFromAbandoned`, `ClientImplementsRpcCall`. `OwnAnswer` is about the
end of a call and says nothing of what is in flight. `IInv` adds: the counter equals
the number of calls modulo `IdSpace`, and the call in progress holds its own id
(`CounterInv`); every request, chunk in flight and chunk in an unpacker bears the id
of the call it answers, a call made already (`WireInv`); and a call that returned a
value returned one with its own id, of a call no later (`AnswerInv`). Two numbers
that agree modulo `IdSpace` and are less than `IdSpace` apart are equal
(`WrapArithmetic`, from a proof of the uniqueness of quotient and remainder): that
is `OwnAnswer`. For `MismatchNeedsAbandoned`, `AInv` says which calls a connection
has seen (`ConnInv`), and that a socket on which no call timed out or was cut short
is tidy (`TidyInv`): all that is on its way, in both directions and in the unpacker,
is one request or one answer, whole and in order, of the call in progress, and
nothing between two calls.

`ClientImplementsRpcCall`, in the same module: every step of the client is one of
`RpcCall`, or changes none of what `RpcCall` sees. `RInv` adds to `AInv` that a
request that waits was not served yet, and that only what was served is on its way
or was returned (`ServedInv`), and that calls are made in order, only the last of
them unfinished (`OrderInv`).

**CallPluginProofs.** `PluginTypeCorrect`, `AlwaysPublishedForInput`,
`SetUpAlwaysOpen`, `SinkErrorAlwaysTraced`. Every step of a plugin is a step of its
client or leaves it alone, so the client's invariants hold in the composition and
are cited, not proved again. `PInv` adds which call the input in hand made
(`CallingInv`) and that what was published came from it (`PubInv`).

**ToolProofs.** `ExitAlwaysTells`: `ProgInv` follows the one call of `qrpc_call` to
the exit code.
`ReportAlwaysHonest`, `ErrorsAlwaysBeforeTraffic`: `RunInv` says that the plan is
the description's or empty (`PlanInv`), which call of which test the loop is at,
by the number of calls made (`LoopInv`), and that the successes of a test are
counted among its timed calls so far (`CountInv`), of which a test of an empty name
has none; that each was served comes from
the client's `RInv`.

**UnoqSourceProofs.** `TypeCorrect`, `EndpointAlwaysOwned`, `ErrorAlwaysFinal`,
`AnswerAlwaysHonest`, `OnlyOldestEverLost`, `SourceImplementsMailbox`,
`NoResponseEverStray`. Types need that a message being handled was received
(`TInv`). `OwnInv` carries ownership and finality together: the endpoint is open
from its `connect` to the start of the thread, nothing of an earlier receiver's
error is left while a start is under way, and an error is on record only when the
receiver is past its loop and will queue nothing more. `HonInv` follows a message
from the wire to its answer: the numbers in the inbox ascend and differ from that
of the message being handled, so that each is answered at most once, and a message
that is skipped, refused or still unread was never queued. `OrdInv` is the order
of the queue, `BoxInv` what became of each message that was in it; that a dropped
message had a queue of newer ones behind it is a matter of counting, by
cardinality. `AskInv` places the one answer the router owes: not yet given, in the
socket behind its request, or read. The refinement of `Mailbox` is by cases on the
steps of the two threads; only `Enqueue`, the poll and `Configure` are seen.

**DummyRouterProofs.** `TypeCorrect`, `RegistrantAlwaysAlive`,
`OnlyOwnUnregistered`, `FramesNeverInterleaved`, `RequestsAnsweredOnce`. `IInv` says
which descriptor a thread has and that it is open until the thread closes it
(`ThreadInv`), and that a registered descriptor belongs to a client that claimed
the method and has not yet come past its reset (`RegInv`). `SendInv` is the
argument for the wire: the one thread in `write` holds `SendMutex` (`LockInv`), and
a socket whose last chunk is a head is being written to by the holder, or its
client has gone (`BegunInv`); a reused descriptor is a new wire. For the answers,
only what asks for one is answered, on its own descriptor (`AddressInv`), and a
request is counted in one place at most: the client's answers, the thread's
unpacker or the socket (`OwedInv`), where the last chunk of an answer takes its
request from the unpacker.

**SketchProofs.** `AlwaysPaced`, `AlwaysPrompt`: the sketch holds `micros()` of the
time of its last notification (`TimerInvariant`), and a difference modulo the word
is the true one, or short of it by whole turns (`ModDiff`, `ModLe`, `ModSmall` of
`WrapArithmetic`). `RingAlwaysLatest`, `WindowAlwaysRecent`: `head` is the number of
pushes modulo the size, a slot holds the latest sample of its residue, and a slot
that was read held such a sample between the call and now.

`StartAlwaysWhole`, of `FloodedRequest`: that no method is forgotten when
`start_receiver` succeeds depends on which answer each `register_method` took.
`PendingInv` says that at most one request is under way and that it is with the
router or its answer is in the socket, never both, and neither when nobody waits;
then `WholeInv`, that each method is in service, still to come, or the one being
registered, and that a good answer is of one in service, is preserved by a wait of
any length. `SocketInv` says that what fails leaves nothing: the router forgets a
closed endpoint.

**DataProofs.** What is computed, for any data.

`SetUpAlwaysAsConfigured`, `RefusalAlwaysExplained`: for any set of parameter
objects, and any number of calls of `set_params`. What is kept in `_params` is
always what a parser gives (`ParsedInv`: a `merge_patch` of three defaults and such
an object). The two properties are then shown of one call from any state, right
or refused, which is the point: whatever members an earlier call left, a call that
complains of nothing has set all that its mode uses. The link is from the list of
complaints being empty to each check having passed (`NoNotifyErrors`,
`ParsedNames`, `QueueGiven`).

`PercentileInBounds`, `PercentileWithinSamples`, `PercentileMonotone`: for every
non-empty ascending sequence and percentage, both indices exist and differ by at
most one, the result lies between the first and the last sample, and grows with
the percentage. `StatsAlwaysOrdered`, `PercentileAlwaysRanks`: for any number of
latencies in any order. The place `std::sort` gives a latency is the number of
those that stand no later; that each place is taken once (`PlacesTaken`) is an
injection of a finite set into itself, so `sorted` is a rearrangement in ascending
order (`SortedIs`). The sum is bounded by induction on the number of terms
(`TotalBounds`), and the mean with it. `PercentileRanks` counts in the latencies as
they came: the places up to the rank below are as many calls no slower, those
faster have places below the rank above (`RanksHold`).

`EchoAlwaysUnchanged`, `SupportedAlwaysAccepted`: for any greatest `int64_t`, any
doubles, any rounding to a nearest one, any arguments and any texts. `CodecInv` says
what is at each place of the argument in each of its forms: what the argument holds
there, unless `json_to_value` wrapped it or `stod` rounded it; and that an integer
above `int64_t` in a result was a large float at that place of the argument, or was
rounded to one.

## Only model-checked

- Liveness, which the prover does not do: `CallReturns`, `StopReturns`,
  `FailureTold`, `EveryRequestAnswered`, `RunEnds`, `RequestOutlastsFlood`.
- The five properties that the code violates: a theorem would say the opposite.

Every invariant and action property of the passing runs is stated by a theorem.
Two limits of the provers shaped the models. A definition that recurs is a
recursive function or is not recursive at all: `Total` is a function on `0 .. Len(s)`,
and a nested value is a function of the places in it, so that the conversions,
which the code writes as recursion over arrays, are said place by place. And
induction is stated for a set, not an operator (`NatSetInduction`, from the
well-foundedness of `<` on the natural numbers), with the set of the numbers for
which the claim holds.

## Not modelled

- `rpc_server.ino`, whose methods keep no state, and the FFT itself.
- The standard deviation (a square root), the rounding of doubles in the statistics,
  and the layout of reports.
- What a router does that sends the bytes of one answer one at a time, for ever:
  each ends a `recv()` in time, and no call would end. `RunEnds` and `CallReturns`
  are about answers that come whole, in two parts, late or never.
- Text: error wording, conversions of values to strings, verbose output, the
  options of the tools and the layout of reports.
- What detached threads of `qrpc_dummy` do while the exit of the process
  destroys the objects they use: undefined, and after anything a client sees.
- Build files, packaging and the example configuration.

## Plan

Done, in this order: `RpcCall` and `RpcClient`, `Mailbox`, `Endpoint` and
`UnoqSource`, their proofs; `DummyRouter` and its proofs; `Percentile`,
`LatencyStats` and theirs; `CallPlugin`, `Throughput`, `ValueCodec`; the sketches
and their proofs, `FloodedRequest`, `SourceParams`, `QrpcCall`, the description of
`Throughput`; the refinements of `RpcCall` and `Mailbox`, the plugins, the tools and
the answers of `qrpc_dummy`, proved;
then of `set_params`, the statistics, the value conversions and the flooded
registration, which leaves no invariant without a theorem.

Left: the grouping of a batch by method in `get_output`, if the wording of what is
published comes to matter.

## Running it

```
tlc -workers 2 -config UnoqSource.cfg MCUnoqSource    # module and cfg of a run: PROJECT.json
tlapm UnoqSourceProofs.tla
```

The longest run is `dummy_router` (710 thousand states, three minutes), then `inputs`
(a minute, most of it two `set_params` with all their parameters); the others
take seconds.
