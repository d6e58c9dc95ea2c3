------------------------------ MODULE MCInputs ------------------------------
(***************************************************************************)
(* An instance of each model of what a user may give: the parameters of    *)
(* unoq_source and an argument of a call.  They share no state: part says  *)
(* which runs, and the other stays as it begins.                           *)
(***************************************************************************)
EXTENDS ValueCodec, SourceParams

VARIABLE part

mcVars == <<vars, paramsVars, part>>

\* Four-bit integers, doubles of two significant bits; 0.5, 3.0 and a float above
\* int64_t, and decimals that are no doubles, of which 7.5 is rounded to above
\* int64_t; arrays of up to two items, nested.
MCMaxInt == 7
MCDoubles == {s * m * 2 ^ k : s \in {-1, 1}, m \in 0 .. 3, k \in 0 .. 5}
MCFloats == {1, 6, 24}
MCDecimals == MCFloats \cup {-5, 11, 15}
MCMaxItems == 2

\* Of two that are as near, the one with an even significand.
MCNearest(n) ==
  CHOOSE d \in MCDoubles : \A e \in MCDoubles \ {d} :
    \/ Distance(d, n) < Distance(e, n)
    \/ Distance(d, n) = Distance(e, n) /\ d % (2 * Distance(d, e)) = 0

Scalar(type, values) == {At(type, v) : v \in values}

MCScalars ==
  Scalar("nil", {0}) \cup Scalar("bool", {0, 1}) \cup Scalar("string", {0})
    \cup Scalar("float", MCFloats) \cup Scalar("int", Int64)
    \cup Scalar("unsigned", 0 .. UintMax) \cup Scalar("object", {0})

Alone(S) == {[p \in {<<>>} |-> n] : n \in S}

\* The array of the values of a sequence.
ArrayOf(vs) ==
  [p \in {<<>>} \cup UNION {{<<k>> \o q : q \in DOMAIN vs[k]} : k \in DOMAIN vs} |->
     IF p = <<>> THEN At("array", Len(vs)) ELSE vs[Head(p)][Tail(p)]]

ArraysOf(S) == {ArrayOf(vs) : vs \in BoundedSeq(S, MCMaxItems)}

\* Some scalars nest, in an array among the scalars of an array.
MCArgs ==
  Alone(MCScalars)
    \cup ArraysOf(Alone(MCScalars) \cup ArraysOf(Alone(Scalar("unsigned", {0, MCMaxInt + 1}))))

MCTexts ==
  Scalar("digits", -UintMax - 1 .. UintMax + 1) \cup Scalar("decimal", MCDecimals)
    \cup Scalar("nonfinite", {0, 1}) \cup Scalar("huge", {0}) \cup Scalar("flag", {0, 1}) \cup Scalar("word", {0})

\* As the board's processor converts: what is too small or too large becomes
\* the nearest size_t.
MCFloatSizeT(n) == IF n < 0 THEN 0 ELSE Min({n \div 2, SizeT - 1})

\* What a parameter may be, right and wrong.
MCValues(k) ==
  CASE k = "mode" -> {Absent, NullValue, Text("call"), Text("notify"), Text("other"), Number(1)}
    [] k = "provided_rpc" ->
         {Absent, Text("m"), Text(""), List(<<Text("m"), Text("n")>>),
          List(<<Text("m"), Number(1)>>), Number(1)}
    [] k = "rpc_call" -> {Absent, Text("f")}
    [] k = "rpc_func" -> {Absent, Text("g")}
    [] k = "rpc_args" -> {Absent, List(<<>>), Number(1)}
    [] k = "max_queue" ->
         {Absent, NullValue, Number(0), Number(-1), Number(2), Half(1), Half(5), Half(-4)}
    [] k = "overflow" -> {Absent, Text("drop_newest"), Text("other"), Number(1)}

MCSettings == UNION {{k} \X MCValues(k) : k \in Keys \ {"mode"}}

\* A mode and two more parameters.
MCParams ==
  {[k \in Keys |-> CASE k = "mode" -> m
                     [] k = x[1] -> x[2]
                     [] k = y[1] /\ k # x[1] -> y[2]
                     [] OTHER -> Absent] :
     m \in MCValues("mode"), x, y \in MCSettings}

MCInit ==
  /\ part \in {"codec", "params"}
  /\ ParamsInit
  /\ IF part = "codec" THEN Init ELSE arg = <<>> /\ form = "" /\ now = <<>>

MCNext ==
  \/ part = "codec" /\ Next /\ UNCHANGED <<paramsVars, part>>
  \/ part = "params" /\ ParamsNext /\ UNCHANGED <<vars, part>>

MCSpec == MCInit /\ [][MCNext]_mcVars
=============================================================================
