----------------------------- MODULE Throughput -----------------------------
(***************************************************************************)
(* qrpc_throughput (src/rpc_throughput.cpp) over RPCClient::Client: the    *)
(* description of the tests is read, then, on one connection, run_test     *)
(* makes for each test in turn the warm-up calls and the timed ones.       *)
(* Latencies are in LatencyStats.                                          *)
(***************************************************************************)
EXTENDS RpcClient, FiniteSets, Functions

CONSTANTS
  Descriptions,       \* the inputs the program may be given
  DefaultIterations   \* default_iterations, 1000 in the code

\* A member of an object that should be a number: a float is what is left of it
\* without its fraction.
Numbers == [type : {"absent", "int", "float", "other"}, num : Int]

\* A test: rpc_func, which may be an empty string, or "bad" if that or the label
\* is no string; and whether rpc_args, if there, is an array of what
\* json_to_value takes.
TestSpec == [func : {"bad", "empty", "name"}, args : BOOLEAN, iterations : Numbers]

VARIABLES
  description,     \* the input; one without an array of tests has none
  main,            \* "start", "loaded", "run", or the exit: "failed", "done"
  warmup,          \* warm-up calls before each test
  plan,            \* iterations of each test to run
  test,            \* the test being run
  i,               \* calls of it made, those of the warm-up included
  began,           \* calls made before each test (history)
  ok,              \* latencies.size() of each test
  errors           \* of each test

run == <<description, main, warmup, plan, test, i, began, ok, errors>>
runVars == <<vars, run>>

RunInit ==
  /\ Init
  /\ description \in Descriptions
  /\ main = "start"
  /\ warmup = 0
  /\ plan = <<>>
  /\ test = 1
  /\ i = 0
  /\ began = <<>>
  /\ ok = <<>>
  /\ errors = <<>>
----------------------------------------------------------------------------
(* The description.                                                        *)

\* A member that is no integer is not looked at.
WarmupOf(d) == IF d.warmup.type = "int" /\ d.warmup.num > 0 THEN d.warmup.num ELSE 0

GlobalIterations(d) ==
  IF d.iterations.type = "int" THEN d.iterations.num ELSE DefaultIterations

\* entry.value("iterations", global_iterations).
IterationsOf(d, e) ==
  IF e.iterations.type = "absent" THEN GlobalIterations(d) ELSE e.iterations.num

Refused(d, e) ==
  \/ e.func = "bad"
  \/ e.iterations.type = "other"
  \/ IterationsOf(d, e) <= 0
  \/ ~e.args

\* Mutant: a test that is refused is passed over.
TestsPassedOver(d) == SelectSeq(d.tests, LAMBDA e : ~Refused(d, e))

\* The tests to run: none if one of them is refused.
TestsOf(d) ==
  IF \E t \in DOMAIN d.tests : Refused(d, d.tests[t]) THEN <<>> ELSE d.tests

\* The calls of a description that take an id: those of an empty name do not.
CallsOf(d) ==
  FoldFunction(+, 0,
    [t \in {u \in DOMAIN d.tests : d.tests[u].func = "name"} |->
       WarmupOf(d) + IterationsOf(d, d.tests[t])])

ASSUME RunAssumption ==
  /\ DefaultIterations \in Nat \ {0}
  /\ \A d \in Descriptions :
       /\ d.warmup \in Numbers /\ d.iterations \in Numbers
       /\ d.tests \in Seq(TestSpec)
       /\ CallsOf([d EXCEPT !.tests = TestsOf(d)]) <= MaxCalls
  /\ MaxConnects = 1
  /\ MaxCalls <= IdSpace   \* no two calls share an id

\* Up to tests.empty().
Load ==
  /\ main = "start"
  /\ LET tests == TestsOf(description)
     IN  /\ plan' = [t \in DOMAIN tests |-> IterationsOf(description, tests[t])]
         /\ main' = IF tests = <<>> THEN "failed" ELSE "loaded"
  /\ warmup' = WarmupOf(description)
  /\ began' = [t \in DOMAIN plan' |-> 0]
  /\ ok' = [t \in DOMAIN plan' |-> 0]
  /\ errors' = [t \in DOMAIN plan' |-> 0]
  /\ UNCHANGED <<vars, description, test, i>>
----------------------------------------------------------------------------
\* connect(); if it throws, the program exits with 1.
Begin ==
  /\ main = "loaded"
  /\ Connect
  /\ main' = IF open' THEN "run" ELSE "failed"
  /\ UNCHANGED <<description, warmup, plan, test, i, began, ok, errors>>

\* Mutant: the warm-up calls are counted with the others.
TimedAll == TRUE

\* Whether the call being made is in the timed loop.
Timed == i >= warmup

\* push_back, or ++errors; nothing is kept of a warm-up call.
Count(succeeded) ==
  IF Timed
  THEN /\ ok' = [ok EXCEPT ![test] = IF succeeded THEN @ + 1 ELSE @]
       /\ errors' = [errors EXCEPT ![test] = IF succeeded THEN @ ELSE @ + 1]
  ELSE UNCHANGED <<ok, errors>>

\* To the next call, the next test, or the report.
Advance ==
  IF i < warmup + plan[test] - 1
  THEN i' = i + 1 /\ UNCHANGED <<main, test, began>>
  ELSE /\ i' = 0
       /\ test' = test + 1
       /\ began' = [began EXCEPT ![test + 1] = calls']
       /\ main' = IF test < Len(plan) THEN main ELSE "done"

Returned(succeeded) ==
  Count(succeeded) /\ Advance /\ UNCHANGED <<description, warmup, plan>>

\* An empty name is a string, and the loops run; call() throws of it, before it
\* has taken an id.
Named(t) == description.tests[t].func = "name"

Call ==
  /\ main = "run"
  /\ \/ Named(test) /\ CallSent /\ UNCHANGED run
     \/ Named(test) /\ CallSendFails /\ Returned(FALSE)
     \/ ~Named(test) /\ pc = "idle" /\ UNCHANGED vars /\ Returned(FALSE)

InCall ==
  /\ main = "run"
  /\ Receive
  /\ IF pc' = "idle" THEN Returned(outcome'[calls] = "ok") ELSE UNCHANGED run

Environment ==
  /\ RouterAnswer \/ Deliver \/ PeerClose
  /\ UNCHANGED run

RunNext == Load \/ Begin \/ Call \/ InCall \/ Environment

RunSpec == RunInit /\ [][RunNext]_runVars

\* The program runs, and the kernel ends a recv() or a send() that waits too
\* long; nothing is asked of the router.
RunFairness == WF_runVars(Load \/ Begin \/ Call \/ InCall)
----------------------------------------------------------------------------
(* Properties.                                                             *)

\* The timed calls of a test, by their numbers on the connection; those of an
\* empty name have none.
TimedCalls(t) ==
  LET first == began[t] + warmup + 1
  IN  IF Named(t) THEN first .. first + plan[t] - 1 ELSE {}

\* The report of a test counts as many calls as the description asks for, each
\* once, as what it was: successful calls are calls of that very test the
\* router served, never a warm-up call, nor a call of another test whose answer
\* came late.
HonestReport ==
  \A t \in DOMAIN plan :
    /\ ok[t] <= Cardinality(TimedCalls(t) \cap served)
    /\ t < test =>
         ok[t] + errors[t] = IterationsOf(description, description.tests[t])

\* "Build the list of tests up front so input errors are reported before any
\* RPC traffic is generated": with one test in error there is no connection,
\* and a run that connects runs them all.
ErrorsBeforeTraffic ==
  conn > 0 =>
    /\ Len(plan) = Len(description.tests)
    /\ \A t \in DOMAIN plan : ~Refused(description, description.tests[t])

\* A run ends though no call is answered, or answered late or by a failure.  (A
\* router that sends its answers byte by byte, for ever, is not among those.)
RunEnds == main = "run" ~> main = "done"
=============================================================================
