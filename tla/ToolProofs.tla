---------------------------- MODULE ToolProofs -----------------------------
(***************************************************************************)
(* The command-line tools, for every size of the buffers, of the history   *)
(* and of the input: the exit code of qrpc_call is the truth; in           *)
(* qrpc_throughput no call is made for a description in error, and the     *)
(* report counts what was served.                                          *)
(***************************************************************************)
EXTENDS Throughput, QrpcCall, RpcClientProofs, FiniteSetTheorems
----------------------------------------------------------------------------
(* The exit code of qrpc_call.                                             *)

\* The program makes one call at most, is in it only when it says so, and its
\* exit code is how that call ended.
ProgInv ==
  /\ calls <= 1
  /\ prog \in {"start", "connected"} => calls = 0
  /\ prog # "calling" => pc = "idle"
  /\ prog = "exit0" => calls = 1 /\ outcome[1] = "ok"
  /\ prog = "exit1" => calls = 0 \/ outcome[1] # "ok"

LEMMA ProgStep == [ProgNext]_progVars => [Next]_vars
BY DEF progVars, ProgNext, Construct, Submit, Wait, Leave, Outside, Next, Receive, vars

LEMMA NextProgInv ==
  ASSUME RInv, RInv', ProgInv, [ProgNext]_progVars
  PROVE  ProgInv'
<1> USE DEF ProgInv
<1>0. calls \in Nat
  <2>1. calls \in 0 .. MaxCalls
    BY DEF RInv, AInv, IInv, TypeOK
  <2> QED BY <2>1, ConstAssumption
<1>1. CASE Construct
  BY <1>1 DEF Construct, Connect
<1>2. CASE Submit
  <2>1. CASE CallSent
    <3>1. prog = "connected" /\ prog' = "calling" /\ calls' = calls + 1
      BY <1>2, <2>1 DEF Submit, CallSent, CallSendFails, StartCall, vars
    <3> QED BY <1>0, <3>1
  <2>2. CASE CallSendFails
    <3>1. prog = "connected" /\ prog' = "leaving" /\ calls' = calls + 1 /\ pc' = "idle"
      BY <1>2, <2>2 DEF Submit, CallSent, CallSendFails, StartCall, vars
    <3> QED BY <1>0, <3>1
  <2>3. CASE UNCHANGED vars
    <3>1. prog = "connected" /\ prog' = "leaving" /\ UNCHANGED <<calls, pc>>
      BY <1>2, <2>3 DEF Submit, CallSent, CallSendFails, StartCall, vars
    <3> QED BY <3>1
  <2> QED BY <1>2, <2>1, <2>2, <2>3 DEF Submit
<1>3. CASE Wait
  <2>1. /\ prog = "calling" /\ UNCHANGED calls
        /\ prog' = IF pc' = "idle" THEN "leaving" ELSE prog
    BY <1>3 DEF Wait, Receive, Recv, RecvTimeout, RecvEof
  <2> QED BY <2>1
<1>4. CASE Leave
  <2>1. prog = "leaving" /\ prog' = Code /\ UNCHANGED <<calls, pc, outcome>>
    BY <1>4 DEF Leave, Close
  <2>2. calls = 0 \/ calls = 1
    BY <1>0
  <2> QED BY <2>1, <2>2 DEF Code
<1>5. CASE Outside \/ UNCHANGED progVars
  <2>1. UNCHANGED <<prog, calls, pc, outcome>>
    BY <1>5 DEF Outside, RouterAnswer, Deliver, PeerClose, client, progVars, vars
  <2> QED BY <2>1
<1> QED BY <1>1, <1>2, <1>3, <1>4, <1>5 DEF ProgNext

LEMMA ExitTellsHolds ==
  ASSUME RInv, ProgInv
  PROVE  ExitTells
<1>1. /\ TypeOK /\ AnswerInv /\ ServedInv /\ OrderInv /\ MismatchNeedsAbandoned
      /\ calls \in 0 .. MaxCalls /\ calls \in Nat
  <2>1. calls \in 0 .. MaxCalls
    BY DEF RInv, AInv, IInv, TypeOK
  <2> QED BY <2>1, ConstAssumption DEF RInv, AInv, IInv
<1>2. CASE prog = "exit0"
  <2>1. calls = 1 /\ outcome[1] = "ok"
    BY <1>2 DEF ProgInv
  <2>2. 1 \in Calls
    BY <1>1, <2>1, ConstAssumption DEF Calls
  <2>3. answer[1] \in 1 .. 1 /\ answer[1] \in served
    BY <1>1, <2>1, <2>2 DEF AnswerInv, ServedInv
  <2> QED BY <1>2, <2>3 DEF ExitTells
<1>3. CASE prog = "exit1" /\ calls # 0
  <2>1. calls = 1 /\ outcome[1] # "ok" /\ pc = "idle"
    BY <1>1, <1>3 DEF ProgInv
  <2>2. 1 \in Calls /\ ~(1 > calls)
    BY <1>1, <2>1, ConstAssumption DEF Calls
  <2>3. outcome[1] # "unused"
    BY <1>1, <2>2 DEF OrderInv
  <2>4. outcome[1] # "pending"
    BY <1>1, <2>1, <2>2 DEF OrderInv
  <2>5. outcome[1] \notin {"mismatch", "format"}
    BY <1>1, <2>2 DEF MismatchNeedsAbandoned
  <2>6. outcome[1] \in Outcomes
    BY <1>1, <2>2 DEF TypeOK
  <2> QED BY <1>3, <2>1, <2>3, <2>4, <2>5, <2>6 DEF ExitTells, Outcomes, Failures
<1> QED BY <1>2, <1>3 DEF ExitTells

\* Whatever the router and the socket do: a script that sees 0 from qrpc_call
\* knows that the function ran and that the result is its own, and one that
\* sees 1 is never told of another call's failure.
THEOREM ExitAlwaysTells == ProgSpec => []ExitTells
<1>1. ProgInit => RInv /\ ProgInv
  BY InitRInv DEF ProgInit, ProgInv, Init
<1>2. RInv /\ ProgInv /\ [ProgNext]_progVars => (RInv /\ ProgInv)'
  BY ProgStep, NextRInv, NextProgInv
<1>3. RInv /\ ProgInv => ExitTells
  BY ExitTellsHolds
<1> QED BY <1>1, <1>2, <1>3, PTL DEF ProgSpec
----------------------------------------------------------------------------
(* The loops of qrpc_throughput.                                           *)

\* The calls of a test that are timed and returned a value.
GoodCalls(t) == {n \in TimedCalls(t) : n \in Calls /\ outcome[n] = "ok"}

RunTypeInv ==
  /\ description \in Descriptions
  /\ main \in {"start", "loaded", "run", "failed", "done"}
  /\ warmup \in Nat /\ i \in Nat /\ test \in Nat \ {0}
  /\ plan \in Seq(Nat \ {0})
  /\ ok \in [DOMAIN plan -> Nat] /\ errors \in [DOMAIN plan -> Nat]
  /\ began \in [DOMAIN plan -> Nat]

\* What is run is what the description asks for, all of it or nothing, and
\* nothing is connected for nothing.
PlanInv ==
  /\ \/ plan = <<>>
     \/ /\ DOMAIN plan = DOMAIN description.tests
        /\ \A t \in DOMAIN plan :
             /\ ~Refused(description, description.tests[t])
             /\ plan[t] = IterationsOf(description, description.tests[t])
  /\ main = "start" => plan = <<>>
  /\ main \in {"loaded", "run"} => plan # <<>>
  /\ plan = <<>> => conn = 0

\* Where the loops are, by the calls made.
LoopInv ==
  /\ main # "run" => pc = "idle"
  /\ main \in {"start", "loaded"} => test = 1 /\ i = 0 /\ calls = 0
  /\ main = "loaded" => began[1] = 0
  /\ main = "run" =>
       /\ test \in DOMAIN plan
       /\ i < warmup + plan[test]
       /\ calls = began[test] + (IF Named(test) THEN i ELSE 0)
                   + (IF pc = "receive" THEN 1 ELSE 0)
       /\ pc = "receive" => Named(test)

\* The tests done are counted in full, the one being run as far as it is, those
\* to come not at all; and no call is counted as good that was not.
CountInv ==
  \A t \in DOMAIN plan :
    /\ t < test => ok[t] + errors[t] = plan[t]
    /\ t = test => ok[t] + errors[t] = IF i > warmup THEN i - warmup ELSE 0
    /\ t > test => ok[t] = 0 /\ errors[t] = 0
    /\ ok[t] <= Cardinality(GoodCalls(t))

RunInv == RunTypeInv /\ PlanInv /\ LoopInv /\ CountInv

LEMMA RunStep == [RunNext]_runVars => [Next]_vars
BY DEF runVars, RunNext, Load, Begin, Call, InCall, Environment, Next, Receive, vars

\* The numbers of a description are numbers.
LEMMA DescriptionFacts ==
  ASSUME NEW d \in Descriptions
  PROVE  /\ WarmupOf(d) \in Nat
         /\ d.tests \in Seq(TestSpec)
         /\ \A t \in DOMAIN d.tests : IterationsOf(d, d.tests[t]) \in Int
<1>1. d.warmup \in Numbers /\ d.iterations \in Numbers /\ d.tests \in Seq(TestSpec)
  BY RunAssumption
<1>2. WarmupOf(d) \in Nat
  BY <1>1 DEF WarmupOf, Numbers
<1>3. ASSUME NEW t \in DOMAIN d.tests PROVE IterationsOf(d, d.tests[t]) \in Int
  <2>1. d.tests[t] \in TestSpec
    BY <1>1
  <2>2. GlobalIterations(d) \in Int /\ d.tests[t].iterations.num \in Int
    BY <1>1, <2>1, RunAssumption DEF GlobalIterations, Numbers, TestSpec
  <2> QED BY <2>2 DEF IterationsOf
<1> QED BY <1>1, <1>2, <1>3

\* The numbers of the timed calls of a test.
LEMMA IntervalFinite ==
  ASSUME NEW b \in Nat, NEW w \in Nat, NEW p \in Nat
  PROVE  IsFiniteSet((b + w + 1) .. (b + w + 1 + p - 1))
<1>1. b + w + 1 \in Int /\ b + w + 1 + p - 1 \in Int
  OBVIOUS
<1> QED BY <1>1, FS_Interval

LEMMA TimedFinite ==
  ASSUME RunTypeInv, NEW t \in DOMAIN plan
  PROVE  IsFiniteSet(TimedCalls(t))
<1>1. began[t] \in Nat /\ plan[t] \in Nat /\ warmup \in Nat
  BY DEF RunTypeInv
<1>2. IsFiniteSet((began[t] + warmup + 1) .. (began[t] + warmup + 1 + plan[t] - 1))
  BY <1>1, IntervalFinite
<1> QED BY <1>2, FS_EmptySet DEF TimedCalls

LEMMA InitRunInv == RunInit => RunInv
<1> SUFFICES ASSUME RunInit PROVE RunInv
  OBVIOUS
<1>1. RunTypeInv
  BY DEF RunInit, RunTypeInv
<1>2. PlanInv /\ LoopInv /\ CountInv
  BY DEF RunInit, Init, PlanInv, LoopInv, CountInv
<1> QED BY <1>1, <1>2 DEF RunInv

LEMMA LoadRunInv ==
  ASSUME RunInv, Load
  PROVE  RunInv'
<1> USE DEF RunInv
<1> DEFINE tests == TestsOf(description)
<1>1. /\ main = "start" /\ description \in Descriptions
      /\ UNCHANGED <<description, test, i, calls, conn, pc, outcome>>
      /\ test = 1 /\ i = 0 /\ calls = 0 /\ pc = "idle"
      /\ plan' = [t \in DOMAIN tests |-> IterationsOf(description, tests[t])]
      /\ main' = IF tests = <<>> THEN "failed" ELSE "loaded"
      /\ warmup' = WarmupOf(description)
      /\ began' = [t \in DOMAIN plan' |-> 0]
      /\ ok' = [t \in DOMAIN plan' |-> 0] /\ errors' = [t \in DOMAIN plan' |-> 0]
  BY DEF Load, vars, RunTypeInv, LoopInv
<1>2. warmup' \in Nat /\ description.tests \in Seq(TestSpec)
  BY <1>1, DescriptionFacts
<1>3. conn = 0 /\ conn' = 0
  BY <1>1 DEF PlanInv
<1>4. \/ tests = <<>>
      \/ /\ tests = description.tests
         /\ \A t \in DOMAIN tests : ~Refused(description, tests[t])
  BY DEF TestsOf
<1>5. /\ tests \in Seq(TestSpec)
      /\ \A t \in DOMAIN tests :
           IterationsOf(description, tests[t]) \in Nat \ {0}
  <2>1. CASE tests = <<>>
    BY <2>1
  <2>2. CASE tests # <<>>
    <3>1. ASSUME NEW t \in DOMAIN tests
          PROVE  IterationsOf(description, tests[t]) \in Nat \ {0}
      <4>1. ~(IterationsOf(description, tests[t]) <= 0)
        BY <1>4, <2>2 DEF Refused
      <4>2. IterationsOf(description, tests[t]) \in Int
        BY <1>1, <1>4, <2>2, DescriptionFacts
      <4> QED BY <4>1, <4>2
    <3> QED BY <1>2, <1>4, <2>2, <3>1
  <2> QED BY <2>1, <2>2
<1> HIDE DEF tests
<1>6. plan' \in Seq(Nat \ {0}) /\ DOMAIN plan' = DOMAIN tests
      /\ (tests = <<>> => plan' = <<>>) /\ (tests # <<>> => plan' # <<>>)
  <2>1. DOMAIN tests = 1 .. Len(tests) /\ Len(tests) \in Nat
    BY <1>5
  <2>2. plan' \in [1 .. Len(tests) -> Nat \ {0}]
    BY <1>1, <1>5, <2>1
  <2>3. plan' \in Seq(Nat \ {0}) /\ Len(plan') = Len(tests)
    BY <2>1, <2>2
  <2> QED BY <1>5, <2>1, <2>2, <2>3
<1>7. RunTypeInv'
  BY <1>1, <1>2, <1>6 DEF RunTypeInv
<1>8. PlanInv'
  <2>1. CASE tests = <<>>
    BY <1>1, <1>3, <1>6, <2>1 DEF PlanInv
  <2>2. CASE tests # <<>>
    BY <1>1, <1>3, <1>4, <1>6, <2>2 DEF PlanInv
  <2> QED BY <2>1, <2>2
<1>9. LoopInv'
  <2>1. plan' # <<>> => 1 \in DOMAIN plan'
    BY <1>6
  <2> QED BY <1>1, <1>6, <2>1 DEF LoopInv
<1>10. CountInv'
  <2>1. ASSUME NEW t \in DOMAIN plan' PROVE Cardinality(GoodCalls(t)') \in Nat
    <3>1. began'[t] \in Nat /\ plan'[t] \in Nat
      BY <1>1, <1>6, <2>1
    <3>2. IsFiniteSet((began'[t] + warmup' + 1) .. (began'[t] + warmup' + 1 + plan'[t] - 1))
      BY <1>2, <3>1, IntervalFinite
    <3>3. IsFiniteSet(TimedCalls(t)')
      BY <3>2, FS_EmptySet DEF TimedCalls
    <3> QED BY <3>3, FS_Subset, FS_CardinalityType DEF GoodCalls
  <2>2. \A t \in DOMAIN plan' : t \in Nat \ {0}
    BY <1>6
  <2> QED BY <1>1, <1>2, <2>1, <2>2 DEF CountInv
<1> QED BY <1>7, <1>8, <1>9, <1>10

\* Steps that end no call, and leave the counts alone.
LEMMA QuietRunInv ==
  ASSUME RunInv, LoopInv', main' \in {main, "run", "failed"},
         main' = "run" => main \in {"loaded", "run"},
         UNCHANGED <<description, warmup, plan, test, i, began, ok, errors>>,
         conn' = conn \/ plan # <<>>,
         \A n \in Calls : outcome[n] = "ok" => outcome'[n] = "ok"
  PROVE  RunInv'
<1>1. RunTypeInv'
  BY DEF RunInv, RunTypeInv
<1>2. PlanInv'
  BY DEF RunInv, PlanInv
<1>3. CountInv'
  <2> SUFFICES ASSUME NEW t \in DOMAIN plan
               PROVE  /\ Cardinality(GoodCalls(t)) <= Cardinality(GoodCalls(t)')
                      /\ Cardinality(GoodCalls(t)) \in Nat
                      /\ Cardinality(GoodCalls(t)') \in Nat
    BY DEF RunInv, CountInv, RunTypeInv
  <2>1. GoodCalls(t) \subseteq GoodCalls(t)' /\ GoodCalls(t)' \subseteq TimedCalls(t)
    BY DEF GoodCalls, TimedCalls, Named
  <2>2. IsFiniteSet(TimedCalls(t))
    BY TimedFinite DEF RunInv
  <2> QED BY <2>1, <2>2, FS_Subset, FS_CardinalityType
<1> QED BY <1>1, <1>2, <1>3 DEF RunInv

LEMMA BeginRunInv ==
  ASSUME RunInv, TypeOK, Begin
  PROVE  RunInv'
<1> USE DEF RunInv
<1>1. /\ main = "loaded" /\ main' = IF open' THEN "run" ELSE "failed"
      /\ UNCHANGED <<pc, calls, outcome>>
      /\ UNCHANGED <<description, warmup, plan, test, i, began, ok, errors>>
  BY DEF Begin, Connect
<1>2. plan # <<>> /\ test = 1 /\ i = 0 /\ calls = 0 /\ pc = "idle" /\ began[1] = 0
  BY <1>1 DEF PlanInv, LoopInv
<1>3. plan \in Seq(Nat \ {0}) /\ warmup \in Nat
  BY DEF RunTypeInv
<1>4. 1 \in DOMAIN plan /\ 0 < warmup + plan[1]
  <2>1. Len(plan) \in Nat \ {0} /\ DOMAIN plan = 1 .. Len(plan)
    BY <1>2, <1>3
  <2>2. plan[1] \in Nat \ {0}
    BY <1>3, <2>1
  <2> QED BY <1>3, <2>1, <2>2
<1>5. LoopInv'
  BY <1>1, <1>2, <1>4 DEF LoopInv
<1> QED BY <1>1, <1>2, <1>5, QuietRunInv

\* A call has ended: the loops go on to the next, and it was counted, if it is
\* a timed one, as what it was.
LEMMA ReturnedRunInv ==
  ASSUME RunInv, main = "run",
         calls' = began[test] + (IF Named(test) THEN i + 1 ELSE 0),
         pc' = "idle", conn' = conn, outcome \in [Calls -> Outcomes],
         NEW b \in BOOLEAN, Returned(b),
         \A n \in Calls : outcome[n] = "ok" => outcome'[n] = "ok",
         b => /\ Named(test) /\ calls' \in Calls
              /\ outcome[calls'] # "ok" /\ outcome'[calls'] = "ok"
  PROVE  RunInv'
<1> USE DEF RunInv
<1>0. /\ test \in DOMAIN plan /\ plan # <<>>
      /\ plan \in Seq(Nat \ {0})
      /\ ok \in [DOMAIN plan -> Nat] /\ errors \in [DOMAIN plan -> Nat]
      /\ began \in [DOMAIN plan -> Nat]
      /\ DOMAIN plan = 1 .. Len(plan) /\ Len(plan) \in Nat
  <2>1. /\ plan \in Seq(Nat \ {0})
        /\ ok \in [DOMAIN plan -> Nat] /\ errors \in [DOMAIN plan -> Nat]
        /\ began \in [DOMAIN plan -> Nat]
    BY DEF RunTypeInv
  <2>2. test \in DOMAIN plan
    BY DEF LoopInv
  <2>3. DOMAIN plan = 1 .. Len(plan) /\ Len(plan) \in Nat
    BY <2>1
  <2>4. plan # <<>>
    BY <2>2
  <2> QED BY <2>1, <2>2, <2>3, <2>4
<1>1. /\ warmup \in Nat /\ i \in Nat /\ test \in Nat \ {0}
      /\ plan[test] \in Nat \ {0} /\ began[test] \in Nat
      /\ i < warmup + plan[test]
  <2>1. warmup \in Nat /\ i \in Nat /\ test \in Nat \ {0}
    BY DEF RunTypeInv
  <2>2. i < warmup + plan[test]
    BY DEF LoopInv
  <2> QED BY <1>0, <2>1, <2>2
<1>2. UNCHANGED <<description, warmup, plan>> /\ Count(b) /\ Advance
  BY DEF Returned
<1>3. calls' \in Nat
  BY <1>1
<1>4. \/ /\ i < warmup + plan[test] - 1
         /\ i' = i + 1 /\ UNCHANGED <<main, test, began>>
      \/ /\ i = warmup + plan[test] - 1
         /\ i' = 0 /\ test' = test + 1
         /\ began' = [began EXCEPT ![test + 1] = calls']
         /\ main' = IF test < Len(plan) THEN main ELSE "done"
  <2>1. i < warmup + plan[test] - 1 \/ i = warmup + plan[test] - 1
    BY <1>1
  <2> QED BY <1>1, <1>2, <2>1 DEF Advance
<1>5. /\ ok' \in [DOMAIN plan -> Nat] /\ errors' \in [DOMAIN plan -> Nat]
      /\ \A t \in DOMAIN plan : t # test => ok'[t] = ok[t] /\ errors'[t] = errors[t]
      /\ ok'[test] = IF i >= warmup /\ b THEN ok[test] + 1 ELSE ok[test]
      /\ errors'[test] = IF i >= warmup /\ ~b THEN errors[test] + 1 ELSE errors[test]
  <2>1. CASE i >= warmup
    <3>1. /\ ok' = [ok EXCEPT ![test] = IF b THEN @ + 1 ELSE @]
          /\ errors' = [errors EXCEPT ![test] = IF b THEN @ ELSE @ + 1]
      BY <1>2, <2>1 DEF Count, Timed
    <3>2. CASE b
      <4>1. ok' = [ok EXCEPT ![test] = @ + 1] /\ errors' = [errors EXCEPT ![test] = @]
        BY <3>1, <3>2
      <4> QED BY <1>0, <2>1, <3>2, <4>1
    <3>3. CASE ~b
      <4>1. ok' = [ok EXCEPT ![test] = @] /\ errors' = [errors EXCEPT ![test] = @ + 1]
        BY <3>1, <3>3
      <4> QED BY <1>0, <2>1, <3>3, <4>1
    <3> QED BY <3>2, <3>3
  <2>2. CASE ~(i >= warmup)
    <3>1. UNCHANGED <<ok, errors>>
      BY <1>2, <2>2 DEF Count, Timed
    <3> QED BY <1>0, <2>2, <3>1
  <2> QED BY <2>1, <2>2
<1>6. /\ began' \in [DOMAIN plan -> Nat]
      /\ \A t \in DOMAIN plan : t # test + 1 => began'[t] = began[t]
  <2>1. began' = began \/ began' = [began EXCEPT ![test + 1] = calls']
    BY <1>4
  <2>2. began \in [DOMAIN plan -> Nat]
    BY <1>0
  <2>3. CASE began' = began
    BY <2>2, <2>3
  <2>4. CASE began' = [began EXCEPT ![test + 1] = calls']
    BY <1>3, <2>2, <2>4
  <2> QED BY <2>1, <2>3, <2>4
<1>7. RunTypeInv'
  <2>1. i' \in Nat /\ test' \in Nat \ {0} /\ main' \in {"run", "done"}
    <3>1. CASE i' = i + 1 /\ UNCHANGED <<main, test>>
      BY <1>1, <3>1
    <3>2. CASE i' = 0 /\ test' = test + 1 /\ main' \in {main, "done"}
      BY <1>1, <3>2
    <3> QED BY <1>4, <3>1, <3>2
  <2>2. description' \in Descriptions /\ warmup' \in Nat /\ plan' = plan
    BY <1>1, <1>2 DEF RunTypeInv
  <2>3. plan' \in Seq(Nat \ {0})
    BY <1>0, <2>2
  <2>4. /\ ok' \in [DOMAIN plan' -> Nat] /\ errors' \in [DOMAIN plan' -> Nat]
        /\ began' \in [DOMAIN plan' -> Nat]
    BY <1>5, <1>6, <2>2
  <2> QED BY <2>1, <2>2, <2>3, <2>4 DEF RunTypeInv
<1>8. PlanInv'
  BY <1>2, <1>4 DEF PlanInv
<1>9. LoopInv'
  <2>1. CASE i < warmup + plan[test] - 1
    <3>1. i' = i + 1 /\ UNCHANGED <<main, test, began, plan, warmup>>
      BY <1>1, <1>2, <1>4, <2>1
    <3>2. calls' = began'[test'] + (IF Named(test)' THEN i' ELSE 0)
                   + (IF pc' = "receive" THEN 1 ELSE 0)
      <4>1. Named(test)' = Named(test)
        BY <1>2, <3>1 DEF Named
      <4> QED BY <1>1, <3>1, <4>1
    <3>3. test' \in DOMAIN plan' /\ i' < warmup' + plan'[test']
      BY <1>0, <1>1, <2>1, <3>1
    <3>4. main' = "run" /\ pc' = "idle"
      BY <3>1
    <3> QED BY <3>2, <3>3, <3>4 DEF LoopInv
  <2>2. CASE i = warmup + plan[test] - 1 /\ test < Len(plan)
    <3>1. /\ i' = 0 /\ test' = test + 1 /\ main' = "run" /\ UNCHANGED <<plan, warmup>>
          /\ began' = [began EXCEPT ![test + 1] = calls']
      BY <1>1, <1>2, <1>4, <2>2
    <3>2. test + 1 \in DOMAIN plan
      <4>1. Len(plan) \in Nat
        BY <1>0
      <4>2. test + 1 \in 1 .. Len(plan)
        BY <1>1, <2>2, <4>1
      <4> QED BY <1>0, <4>2
    <3>3. plan[test + 1] \in Nat \ {0} /\ began'[test + 1] = calls'
      <4>1. plan[test + 1] \in Nat \ {0}
        BY <1>0, <3>2
      <4>2. began'[test + 1] = calls'
        BY <1>0, <3>1, <3>2
      <4> QED BY <4>1, <4>2
    <3>4. calls' = began'[test'] + (IF Named(test)' THEN i' ELSE 0)
                   + (IF pc' = "receive" THEN 1 ELSE 0)
      BY <1>3, <3>1, <3>3
    <3>5. test' \in DOMAIN plan' /\ i' < warmup' + plan'[test']
      BY <1>1, <3>1, <3>2, <3>3
    <3>6. main' = "run" /\ pc' = "idle"
      BY <3>1
    <3> QED BY <3>4, <3>5, <3>6 DEF LoopInv
  <2>3. CASE i = warmup + plan[test] - 1 /\ ~(test < Len(plan))
    <3>1. main' = "done"
      BY <1>1, <1>4, <2>3
    <3> QED BY <3>1 DEF LoopInv
  <2> QED BY <1>1, <1>4, <2>1, <2>2, <2>3
<1>10. CountInv'
  <2> SUFFICES ASSUME NEW t \in DOMAIN plan
               PROVE  /\ t < test' => ok'[t] + errors'[t] = plan[t]
                      /\ t = test' => ok'[t] + errors'[t]
                                       = IF i' > warmup THEN i' - warmup ELSE 0
                      /\ t > test' => ok'[t] = 0 /\ errors'[t] = 0
                      /\ ok'[t] <= Cardinality(GoodCalls(t)')
    BY <1>2 DEF CountInv
  <2>0. t \in Nat \ {0} /\ ok[t] \in Nat /\ errors[t] \in Nat /\ plan[t] \in Nat \ {0}
    BY <1>0
  <2>1. /\ t < test => ok[t] + errors[t] = plan[t]
        /\ t = test => ok[t] + errors[t] = IF i > warmup THEN i - warmup ELSE 0
        /\ t > test => ok[t] = 0 /\ errors[t] = 0
        /\ ok[t] <= Cardinality(GoodCalls(t))
    BY DEF CountInv
  <2>2. t = test => ok'[t] + errors'[t] = IF i >= warmup THEN i - warmup + 1 ELSE 0
    BY <1>1, <1>5, <2>0, <2>1
  <2>3. t # test => ok'[t] = ok[t] /\ errors'[t] = errors[t]
    BY <1>5
  <2>4. /\ t < test' => ok'[t] + errors'[t] = plan[t]
        /\ t = test' => ok'[t] + errors'[t] = IF i' > warmup THEN i' - warmup ELSE 0
        /\ t > test' => ok'[t] = 0 /\ errors'[t] = 0
    <3>1. CASE i < warmup + plan[test] - 1
      <4>1. i' = i + 1 /\ test' = test
        BY <1>1, <1>4, <3>1
      <4>2. CASE t = test
        <5>1. ok'[t] + errors'[t] = IF i >= warmup THEN i - warmup + 1 ELSE 0
          BY <2>2, <4>2
        <5> QED BY <1>1, <4>1, <4>2, <5>1
      <4>3. CASE t # test
        BY <1>1, <2>0, <2>1, <2>3, <4>1, <4>3
      <4> QED BY <4>2, <4>3
    <3>2. CASE i = warmup + plan[test] - 1
      <4>1. i' = 0 /\ test' = test + 1
        BY <1>1, <1>4, <3>2
      <4>2. CASE t = test
        <5>1. i >= warmup /\ i - warmup + 1 = plan[t]
          BY <1>1, <3>2, <4>2
        <5>2. ok'[t] + errors'[t] = plan[t]
          BY <2>2, <4>2, <5>1
        <5> QED BY <1>1, <4>1, <4>2, <5>2
      <4>3. CASE t # test
        <5>1. ok'[t] = ok[t] /\ errors'[t] = errors[t]
          BY <2>3, <4>3
        <5>2. t > test => ok'[t] + errors'[t] = 0
          BY <2>1, <5>1
        <5> QED BY <1>1, <2>0, <2>1, <4>1, <4>3, <5>1, <5>2
      <4> QED BY <4>2, <4>3
    <3> QED BY <1>1, <1>4, <3>1, <3>2
  <2>5. IsFiniteSet(GoodCalls(t)') /\ Cardinality(GoodCalls(t)') \in Nat
    <3>1. began'[t] \in Nat
      BY <1>6
    <3>2. IsFiniteSet((began'[t] + warmup + 1) .. (began'[t] + warmup + 1 + plan[t] - 1))
      BY <1>1, <2>0, <3>1, IntervalFinite
    <3>3. IsFiniteSet(TimedCalls(t)')
      BY <1>2, <3>2, FS_EmptySet DEF TimedCalls
    <3> QED BY <3>3, FS_Subset, FS_CardinalityType DEF GoodCalls
  <2>6. ok'[t] <= Cardinality(GoodCalls(t)')
    <3>1. CASE t = test + 1
      <4>1. ok'[t] = 0
        BY <1>1, <2>1, <2>3, <3>1
      <4> QED BY <2>5, <4>1
    <3>2. CASE t # test + 1
      <4>1. TimedCalls(t)' = TimedCalls(t)
        BY <1>2, <1>6, <3>2 DEF TimedCalls, Named
      <4>2. IsFiniteSet(GoodCalls(t)) /\ Cardinality(GoodCalls(t)) \in Nat
        BY TimedFinite, FS_Subset, FS_CardinalityType DEF GoodCalls
      <4>3. GoodCalls(t) \subseteq GoodCalls(t)'
        BY <4>1 DEF GoodCalls
      <4>4. Cardinality(GoodCalls(t)) <= Cardinality(GoodCalls(t)')
        BY <2>5, <4>3, FS_Subset
      <4>5. CASE ok'[t] = ok[t]
        BY <2>0, <2>1, <2>5, <4>2, <4>4, <4>5
      <4>6. CASE ok'[t] # ok[t]
        <5>1. t = test /\ i >= warmup /\ b /\ ok'[t] = ok[t] + 1
          BY <1>5, <2>3, <4>6
        <5>2. calls' \in TimedCalls(t)
          BY <1>1, <1>3, <5>1 DEF TimedCalls
        <5>3. calls' \in GoodCalls(t)' /\ calls' \notin GoodCalls(t)
          BY <4>1, <5>1, <5>2 DEF GoodCalls
        <5>4. GoodCalls(t) \cup {calls'} \subseteq GoodCalls(t)'
          BY <4>3, <5>3
        <5>5. Cardinality(GoodCalls(t) \cup {calls'}) = Cardinality(GoodCalls(t)) + 1
          BY <4>2, <5>3, FS_AddElement
        <5>6. Cardinality(GoodCalls(t) \cup {calls'}) <= Cardinality(GoodCalls(t)')
          BY <2>5, <5>4, FS_Subset
        <5> QED BY <2>0, <2>1, <2>5, <4>2, <5>1, <5>5, <5>6
      <4> QED BY <4>5, <4>6
    <3> QED BY <3>1, <3>2
  <2> QED BY <2>4, <2>6
<1> QED BY <1>7, <1>8, <1>9, <1>10

LEMMA CallRunInv ==
  ASSUME RunInv, RInv, Call
  PROVE  RunInv'
<1> USE DEF RunInv, RInv, AInv, IInv
<1>1. /\ main = "run" /\ pc = "idle" /\ calls \in Nat
      /\ calls = began[test] + (IF Named(test) THEN i ELSE 0)
      /\ began[test] \in Nat /\ i \in Nat
      /\ outcome \in [Calls -> Outcomes]
  <2>1. main = "run" /\ pc = "idle"
    BY DEF Call, CallSent, CallSendFails, StartCall
  <2>2. calls \in 0 .. MaxCalls /\ outcome \in [Calls -> Outcomes]
    BY DEF TypeOK
  <2>3. began[test] \in Nat /\ i \in Nat
        /\ calls = began[test] + (IF Named(test) THEN i ELSE 0) + 0
    BY <2>1 DEF LoopInv, RunTypeInv
  <2> QED BY <2>1, <2>2, <2>3, ConstAssumption
<1>2. CASE Named(test) /\ (CallSent \/ CallSendFails)
  <2>1. conn' = conn /\ calls' = calls + 1 /\ calls' \in Calls
    <3>1. conn' = conn /\ calls' = calls + 1 /\ calls < MaxCalls
      BY <1>2 DEF CallSent, CallSendFails, StartCall
    <3> QED BY <1>1, <3>1, ConstAssumption DEF Calls
  <2>2. outcome[calls'] = "unused"
    BY <1>1, <2>1 DEF OrderInv
  <2>3. CASE CallSent /\ UNCHANGED run
    <3>1. /\ UNCHANGED <<description, main, warmup, plan, test, i, began, ok, errors>>
          /\ pc' = "receive" /\ outcome' = [outcome EXCEPT ![calls + 1] = "pending"]
      BY <2>3 DEF run, CallSent
    <3>2. LoopInv'
      <4>1. Named(test)' = Named(test)
        BY <3>1 DEF Named
      <4>2. test \in DOMAIN plan /\ i < warmup + plan[test]
        BY <1>1 DEF LoopInv
      <4>3. calls' = began[test] + i + 1
        BY <1>1, <1>2, <2>1
      <4> QED BY <1>1, <1>2, <3>1, <4>1, <4>2, <4>3 DEF LoopInv
    <3>3. \A n \in Calls : outcome[n] = "ok" => outcome'[n] = "ok"
      BY <1>1, <2>1, <2>2, <3>1
    <3> QED BY <1>1, <2>1, <3>1, <3>2, <3>3, QuietRunInv
  <2>4. CASE CallSendFails /\ Returned(FALSE)
    <3>1. pc' = "idle" /\ outcome' = [outcome EXCEPT ![calls'] = "send"]
      BY <1>1, <2>1, <2>4 DEF CallSendFails
    <3>2. calls' = began[test] + (IF Named(test) THEN i + 1 ELSE 0)
      BY <1>1, <1>2, <2>1
    <3>3. \A n \in Calls : outcome[n] = "ok" => outcome'[n] = "ok"
      BY <1>1, <2>1, <2>2, <3>1
    <3> QED BY <1>1, <2>1, <2>4, <3>1, <3>2, <3>3, ReturnedRunInv
  <2>5. (CallSent /\ UNCHANGED run) \/ (CallSendFails /\ Returned(FALSE))
    BY <1>2, Zenon DEF Call
  <2> QED BY <2>3, <2>4, <2>5, Zenon
<1>3. CASE ~Named(test) /\ UNCHANGED vars /\ Returned(FALSE)
  <2>1. UNCHANGED <<conn, calls, pc, outcome>>
    BY <1>3 DEF vars
  <2>2. calls' = began[test] + (IF Named(test) THEN i + 1 ELSE 0)
    BY <1>1, <1>3, <2>1
  <2> QED BY <1>1, <1>3, <2>1, <2>2, ReturnedRunInv
<1>4. \/ Named(test) /\ (CallSent \/ CallSendFails)
      \/ ~Named(test) /\ UNCHANGED vars /\ Returned(FALSE)
  BY Zenon DEF Call
<1> QED BY <1>2, <1>3, <1>4, Zenon

LEMMA InCallRunInv ==
  ASSUME RunInv, RInv, InCall
  PROVE  RunInv'
<1> USE DEF RunInv, RInv, AInv, IInv
<1>1. /\ main = "run" /\ Receive /\ pc = "receive"
      /\ UNCHANGED <<conn, calls>>
  BY DEF InCall, Receive, Recv, RecvTimeout, RecvEof
<1>2. calls \in Calls /\ outcome[calls] = "pending" /\ outcome \in [Calls -> Outcomes]
  <2>1. calls \in 0 .. MaxCalls /\ calls > 0
    BY <1>1 DEF TypeOK, CounterInv
  <2> QED BY <1>1, <2>1, ConstAssumption DEF Calls, ConnInv, TypeOK
<1>3. calls = began[test] + (IF Named(test) THEN i + 1 ELSE 0) /\ Named(test)
  <2>1. began[test] \in Nat /\ i \in Nat
    BY <1>1 DEF LoopInv, RunTypeInv
  <2>2. calls = began[test] + i + 1 /\ Named(test)
    BY <1>1 DEF LoopInv
  <2> QED BY <2>1, <2>2
<1>4. \/ pc' = "receive" /\ UNCHANGED outcome
      \/ pc' = "idle" /\ \E o : outcome' = [outcome EXCEPT ![calls] = o]
  BY <1>1, Zenon DEF Receive, Recv, RecvTimeout, RecvEof, EndCall
<1>5. CASE pc' = "receive" /\ UNCHANGED outcome
  <2>1. UNCHANGED <<description, main, warmup, plan, test, i, began, ok, errors>>
    BY <1>5 DEF InCall, run
  <2>2. LoopInv'
    BY <1>1, <1>5, <2>1 DEF LoopInv, Named
  <2> QED BY <1>1, <1>5, <2>1, <2>2, QuietRunInv
<1>6. CASE pc' = "idle" /\ \E o : outcome' = [outcome EXCEPT ![calls] = o]
  <2>1. PICK o : outcome' = [outcome EXCEPT ![calls] = o]
    BY <1>6
  <2>2. Returned(outcome'[calls] = "ok") /\ outcome'[calls] = o
    BY <1>1, <1>2, <1>6, <2>1 DEF InCall
  <2> DEFINE b == outcome'[calls] = "ok"
  <2>3. Returned(b) /\ b \in BOOLEAN
    BY <2>2
  <2>4. \A n \in Calls : outcome[n] = "ok" => outcome'[n] = "ok"
    BY <1>2, <2>1
  <2>5. calls' \in Calls /\ outcome[calls'] # "ok" /\ conn' = conn
        /\ calls' = began[test] + (IF Named(test) THEN i + 1 ELSE 0)
    BY <1>1, <1>2, <1>3
  <2>6. b => outcome'[calls'] = "ok"
    BY <1>1
  <2> HIDE DEF b
  <2> QED BY <1>1, <1>2, <1>3, <1>6, <2>3, <2>4, <2>5, <2>6, ReturnedRunInv
<1> QED BY <1>4, <1>5, <1>6

LEMMA NextRunInv ==
  ASSUME RunInv, RInv, [RunNext]_runVars
  PROVE  RunInv'
<1>1. CASE Environment \/ UNCHANGED runVars
  <2>1. /\ UNCHANGED <<description, main, warmup, plan, test, i, began, ok, errors>>
        /\ UNCHANGED <<pc, calls, conn, outcome>>
    BY <1>1 DEF Environment, run, runVars, vars, RouterAnswer, Deliver, PeerClose, client
  <2>2. LoopInv'
    BY <2>1 DEF RunInv, LoopInv, Named
  <2> QED BY <2>1, <2>2, QuietRunInv
<1>2. CASE Begin
  BY <1>2, BeginRunInv DEF RInv, AInv, IInv
<1> QED BY <1>1, <1>2, LoadRunInv, CallRunInv, InCallRunInv DEF RunNext

LEMMA InvariantRunInv == RunSpec => [](RunInv /\ RInv)
<1>1. RunInit => RunInv /\ RInv
  BY InitRunInv, InitRInv DEF RunInit
<1>2. RunInv /\ RInv /\ [RunNext]_runVars => (RunInv /\ RInv)'
  BY RunStep, NextRunInv, NextRInv
<1> QED BY <1>1, <1>2, PTL DEF RunSpec

\* A call that returned a value was served: there are ids enough for its answer
\* to be its own.
LEMMA GoodServed ==
  ASSUME RInv, NEW n \in Calls, outcome[n] = "ok"
  PROVE  n \in served
<1>1. OwnAnswer /\ answer[n] \in 1 .. n /\ answer[n] \in served
  BY OwnAnswerFromIInv DEF RInv, AInv, IInv, AnswerInv, ServedInv
<1>2. n \in Nat /\ n <= MaxCalls /\ MaxCalls <= IdSpace /\ MaxCalls \in Nat /\ IdSpace \in Nat
  BY ConstAssumption, RunAssumption DEF Calls
<1>3. n - answer[n] < IdSpace
  BY <1>1, <1>2
<1> QED BY <1>1, <1>3 DEF OwnAnswer

LEMMA HonestHolds ==
  ASSUME RunInv, RInv
  PROVE  HonestReport
<1> USE DEF RunInv
<1> SUFFICES ASSUME NEW t \in DOMAIN plan
             PROVE  /\ ok[t] <= Cardinality(TimedCalls(t) \cap served)
                    /\ t < test => ok[t] + errors[t]
                                     = IterationsOf(description, description.tests[t])
  BY DEF HonestReport
<1>1. GoodCalls(t) \subseteq TimedCalls(t) \cap served
  BY GoodServed DEF GoodCalls
<1>2. IsFiniteSet(TimedCalls(t) \cap served) /\ IsFiniteSet(GoodCalls(t))
  BY TimedFinite, FS_Subset DEF GoodCalls
<1>3. /\ Cardinality(GoodCalls(t)) <= Cardinality(TimedCalls(t) \cap served)
      /\ Cardinality(GoodCalls(t)) \in Nat
      /\ Cardinality(TimedCalls(t) \cap served) \in Nat
  BY <1>1, <1>2, FS_Subset, FS_CardinalityType
<1>4. ok[t] \in Nat /\ ok[t] <= Cardinality(GoodCalls(t))
  BY DEF RunTypeInv, CountInv
<1>5. plan # <<>>
  BY DEF RunTypeInv
<1>6. t < test => ok[t] + errors[t] = IterationsOf(description, description.tests[t])
  BY <1>5 DEF CountInv, PlanInv
<1> QED BY <1>3, <1>4, <1>6

\* Whatever the router delays, drops, refuses or answers late, whatever the
\* tests and however many: what the report counts as successful calls of a test
\* are timed calls of it that were served, and no call is missing.
THEOREM ReportAlwaysHonest == RunSpec => []HonestReport
<1>1. RunInv /\ RInv => HonestReport
  BY HonestHolds
<1> QED BY <1>1, InvariantRunInv, PTL

\* Of any description: there is no connection unless every test in it is right,
\* and then all are run.
THEOREM ErrorsAlwaysBeforeTraffic == RunSpec => []ErrorsBeforeTraffic
<1>1. RunInv => ErrorsBeforeTraffic
  <2> SUFFICES ASSUME RunInv, conn > 0
               PROVE  /\ Len(plan) = Len(description.tests)
                      /\ \A t \in DOMAIN plan :
                           ~Refused(description, description.tests[t])
    BY DEF ErrorsBeforeTraffic
  <2>1. plan # <<>> /\ plan \in Seq(Nat \ {0}) /\ description.tests \in Seq(TestSpec)
    BY DescriptionFacts DEF RunInv, PlanInv, RunTypeInv
  <2>2. DOMAIN plan = DOMAIN description.tests
        /\ \A t \in DOMAIN plan : ~Refused(description, description.tests[t])
    BY <2>1 DEF RunInv, PlanInv
  <2> QED BY <2>1, <2>2
<1> QED BY <1>1, InvariantRunInv, PTL
=============================================================================
