---------------------------- MODULE SourceParams ----------------------------
(***************************************************************************)
(* What set_params of unoq_source makes of its parameters                  *)
(* (src/unoq_source.cpp).  Some members are set afresh at each call, some  *)
(* only where the code that reads the parameter is reached; a plugin may   *)
(* be configured any number of times, well or badly.  UnoqSource takes the *)
(* result as a configuration; here is where it comes from.                 *)
(***************************************************************************)
EXTENDS Integers, Sequences, SequencesExt, FiniteSetsExt

CONSTANTS
  Params,          \* the objects set_params is given
  SizeT,           \* values of a size_t: 2^64 in the code
  FloatSizeT(_),   \* what the build makes of a float, in halves, as a size_t
  DefaultMaxQueue, \* default_max_queue, 256 in the code
  MaxSets          \* bound: calls of set_params

\* The empty string.
Blank == ""

\* A value of a parameter: a string, an integer, a float in halves, an array, or
\* none.
Json(type, text, num, items) == [type |-> type, text |-> text, num |-> num, items |-> items]
Absent == Json("absent", Blank, 0, <<>>)
NullValue == Json("null", Blank, 0, <<>>)
Text(s) == Json("string", s, 0, <<>>)
Number(n) == Json("int", Blank, n, <<>>)
Half(n) == Json("float", Blank, n, <<>>)
List(items) == Json("list", Blank, 0, items)

Keys == {"mode", "provided_rpc", "rpc_call", "rpc_func", "rpc_args",
         "max_queue", "overflow"}

\* The floats, in halves, that are a size_t without their fraction.
Fitting == -1 .. 2 * SizeT - 1

\* What the parser of nlohmann::json makes of a value: an array has its items
\* in order, and an integer is an int64_t or a uint64_t.  A float loses its
\* fraction in a size_t; what does not fit is undefined, and becomes anything.
Parses(j) ==
  /\ j.type = "absent" => j = Absent
  /\ j.items \in Seq(Range(j.items))
  /\ IF j.type = "float"
     THEN /\ j.num \in Int
          /\ FloatSizeT(j.num) \in 0 .. SizeT - 1
          /\ j.num \in Fitting => FloatSizeT(j.num) = (IF j.num < 0 THEN 0 ELSE j.num \div 2)
     ELSE j.num \in -SizeT .. SizeT - 1

ASSUME ParamsAssumption ==
  /\ \A p \in Params : DOMAIN p = Keys /\ \A k \in Keys : Parses(p[k])
  /\ SizeT \in Nat \ {0}
  /\ DefaultMaxQueue \in 1 .. SizeT - 1
  /\ MaxSets \in Nat

VARIABLES
  params,          \* _params
  mode,            \* _mode
  rpc_call,        \* _rpc_call: <<>>, or the values of its two keys
  methods,         \* _provided_methods
  max_queue,       \* _max_queue
  overflow,        \* _overflow_policy
  setup_ok,        \* _setup_ok
  error,           \* _error: what it is about, "" for none
  connected,       \* _rpc_client.is_open()
  receiving,       \* there is a receiver thread
  sets             \* calls of set_params (history)

paramsVars == <<params, mode, rpc_call, methods, max_queue, overflow, setup_ok,
                error, connected, receiving, sets>>

ParamsInit ==
  /\ params = [k \in Keys |-> Absent]
  /\ mode = "call"
  /\ rpc_call = <<>>
  /\ methods = <<>>
  /\ max_queue = DefaultMaxQueue
  /\ overflow = "drop_oldest"
  /\ setup_ok = TRUE
  /\ error = Blank
  /\ connected = FALSE
  /\ receiving = FALSE
  /\ sets = 0
----------------------------------------------------------------------------
(* _params.                                                                *)

Defaults(k) ==
  CASE k = "mode" -> Text("call")
    [] k = "max_queue" -> Number(DefaultMaxQueue)
    [] k = "overflow" -> Text("drop_oldest")
    [] OTHER -> Absent

\* merge_patch of the parameters given into the defaults and what else
\* Source::set_params left in _params: a null takes a key away.
Merged(given, base) ==
  [k \in Keys |->
     CASE given[k] = NullValue -> Absent
       [] given[k] \notin {NullValue, Absent} -> given[k]
       [] given[k] = Absent /\ Defaults(k) # Absent -> Defaults(k)
       [] OTHER -> base[k]]

\* The first of the keys that p has, or Absent.
FirstOf(p, keys) ==
  LET there == {i \in DOMAIN keys : p[keys[i]] # Absent}
  IN  IF there = {} THEN Absent ELSE p[keys[Min(there)]]
----------------------------------------------------------------------------
(* What _params says, and what each check finds wrong: the names of the    *)
(* parameters complained of, in the order of the complaints.               *)

\* "" for a mode that is none.
ModeGiven(p) ==
  CASE p.mode \in {Absent, Text("call"), Text("poll")} -> "call"
    [] p.mode \in {Text("notify"), Text("receive")} -> "notify"
    [] OTHER -> Blank

ModeErrors(p) == IF ModeGiven(p) = Blank THEN <<"mode">> ELSE <<>>

Called(p) == FirstOf(p, <<"rpc_call", "rpc_func">>)

\* setup_call_params.
CallErrors(p) ==
  CASE Called(p) = Absent -> <<"rpc_call">>
    [] Called(p) # Absent /\ p.rpc_args.type \notin {"absent", "list"} -> <<"rpc_args">>
    [] OTHER -> <<>>

Provided(p) == FirstOf(p, <<"provided_rpc", "rpc_call", "rpc_func">>)

\* parse_provided_methods throws, or setup_notify_params finds nothing to parse.
ParseFails(p) ==
  \/ Provided(p).type \notin {"string", "list"}
  \/ \E i \in DOMAIN Provided(p).items : Provided(p).items[i].type # "string"

\* The names read; of an array, those in front of the item that is no string.
Parsed(p) ==
  LET items == Provided(p).items
      read == {n \in 0 .. Len(items) : \A i \in 1 .. n : items[i].type = "string"}
  IN  IF Provided(p).type = "string" THEN <<Provided(p).text>>
      ELSE [i \in 1 .. Max(read) |-> items[i].text]

EmptyName(p) == IF Contains(Parsed(p), Blank) THEN <<"provided_rpc">> ELSE <<>>

\* get<size_t>() takes any number: a negative integer wraps.
IsNumber(j) == j.type \in {"int", "float"}

MaxQueueGiven(p) ==
  IF p.max_queue.type = "float" THEN FloatSizeT(p.max_queue.num) ELSE p.max_queue.num % SizeT

QueueErrors(p) ==
  IF ~IsNumber(p.max_queue) \/ MaxQueueGiven(p) = 0 THEN <<"max_queue">> ELSE <<>>

OverflowErrors(p) ==
  IF p.overflow \in {Absent, Text("drop_oldest"), Text("drop_newest")}
  THEN <<>> ELSE <<"overflow">>

\* setup_notify_params returns at what it finds wrong, but for an empty name.
NotifyErrors(p) ==
  CASE ParseFails(p) -> <<"provided_rpc">>
    [] ~ParseFails(p) /\ QueueErrors(p) # <<>> -> EmptyName(p) \o QueueErrors(p)
    [] OTHER -> EmptyName(p) \o OverflowErrors(p)
----------------------------------------------------------------------------
\* Mutant: the methods of an earlier call are kept.
NoMethodsKept == methods

\* _provided_methods.clear().
NoMethods == <<>>

\* Mutant: a mode that is none does not stop the setup.
ErrorsButMode(p) == IF mode' = "call" THEN CallErrors(p) ELSE NotifyErrors(p)

\* After a mode that is none, that of an earlier call is set up.
Errors(p) ==
  ModeErrors(p) \o (IF mode' = "call" THEN CallErrors(p) ELSE NotifyErrors(p))

\* setup_notify_params comes to the overflow policy.
OverflowRead(p) == mode' = "notify" /\ ~ParseFails(p) /\ QueueErrors(p) = <<>>

\* Members are set where the code that sets them is reached; the others stay.
SetMembers(p) ==
  /\ mode' = IF ModeGiven(p) = Blank THEN mode ELSE ModeGiven(p)
  /\ rpc_call' = IF mode' = "notify" \/ Called(p) = Absent THEN <<>>
                 ELSE <<Called(p), IF p.rpc_args = Absent THEN List(<<>>) ELSE p.rpc_args>>
  /\ methods' = NoMethods \o (IF mode' = "notify" THEN Parsed(p) ELSE <<>>)
  /\ max_queue' = IF mode' = "notify" /\ ~ParseFails(p) /\ IsNumber(p.max_queue)
                  THEN MaxQueueGiven(p) ELSE max_queue
  /\ overflow' = CASE OverflowRead(p) /\ p.overflow = Absent -> "drop_oldest"
                   [] OverflowRead(p) /\ p.overflow.type = "string" -> p.overflow.text
                   [] OTHER -> overflow

\* Mutant: an error of an earlier call is kept.
NoErrorKept == error

\* _error.clear().
NoError == Blank

\* The client is connected, or the receiver started; either may fail.
Start(p) ==
  \E works \in BOOLEAN :
    /\ setup_ok' = (Errors(p) = <<>> /\ works)
    /\ error' = CASE Errors(p) # <<>> -> Last(Errors(p))
                  [] Errors(p) = <<>> /\ works -> NoError
                  [] OTHER -> "connect"
    /\ receiving' = (setup_ok' /\ mode' = "notify")
    /\ connected' = IF Errors(p) = <<>> /\ mode' = "call" THEN works ELSE connected

\* set_params, stop_receiver included.  What Source::set_params, which is not
\* in this repository, makes of _params: those given, or what was there.
SetSourceParams(given) ==
  /\ sets' = sets + 1
  /\ \E base \in {given, params} : params' = Merged(given, base)
  /\ SetMembers(params')
  /\ Start(params')

ParamsNext ==
  /\ sets < MaxSets
  /\ \E given \in Params : SetSourceParams(given)

ParamsSpec == ParamsInit /\ [][ParamsNext]_paramsVars
----------------------------------------------------------------------------
(* Properties.                                                             *)

\* The names a parameter lists, in order.
NamesIn(j) == IF j.type = "string" THEN <<j.text>> ELSE [i \in DOMAIN j.items |-> j.items[i].text]

\* n is what j says, but for a negative number, which wraps, and a float that is
\* no size_t.
QueueOf(j, n) ==
  \/ j.type = "int" /\ j.num \in {n, n - SizeT}
  \/ j.type = "float" /\ (j.num \in {2 * n, 2 * n + 1} \/ j.num \notin Fitting)

\* A source set up for notifications is one UnoqSource takes for granted, and
\* all of it is of the parameters in force: no member is left from an earlier,
\* perhaps refused, configuration.
NotifyAsConfigured ==
  setup_ok /\ mode = "notify" /\ sets > 0 =>
    /\ receiving
    /\ params.mode \in {Text("notify"), Text("receive")}
    /\ methods = NamesIn(IF params.provided_rpc # Absent THEN params.provided_rpc
                         ELSE IF params.rpc_call # Absent THEN params.rpc_call
                         ELSE params.rpc_func)
    /\ \A i \in DOMAIN methods : methods[i] # Blank
    /\ max_queue > 0 /\ QueueOf(params.max_queue, max_queue)
    /\ overflow \in {"drop_oldest", "drop_newest"}
    /\ params.overflow \in {Text(overflow), Absent}

\* A source set up for calls has a socket, a function and an array of
\* arguments, and no receiver is left from before.
CallAsConfigured ==
  setup_ok /\ mode = "call" /\ sets > 0 =>
    /\ connected /\ ~receiving
    /\ params.mode \in {Absent, Text("call"), Text("poll")}
    /\ rpc_call # <<>> /\ rpc_call[2].type = "list"
    /\ rpc_call[1] \in {params.rpc_call, params.rpc_func} \ {Absent}

\* Whatever was configured before, well or badly.
SetUpAsConfigured == NotifyAsConfigured /\ CallAsConfigured

\* A source that refuses to work has something to say why, and one that works
\* has no complaint left from before: get_output publishes _error.
RefusalExplained ==
  /\ setup_ok <=> error = Blank
  /\ ~setup_ok => ~receiving

\* "Invalid max_queue parameter: must be greater than zero".
QueuePositive == receiving => params.max_queue.num > 0
=============================================================================
