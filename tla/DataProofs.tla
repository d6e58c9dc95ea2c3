---------------------------- MODULE DataProofs -----------------------------
(***************************************************************************)
(* What the programs compute, for any data: of any parameters and after    *)
(* any number of calls, set_params sets up what is configured, and         *)
(* explains what it refuses; of any number of latencies, the percentiles   *)
(* and the other columns of the report are in bounds, in order, and mean   *)
(* what they say; any argument comes back from an echo as it was sent, or, *)
(* typed as a number no int64_t holds, as the double nearest to it.        *)
(***************************************************************************)
EXTENDS SourceParams, ValueCodec, LatencyStats, WrapArithmetic, FiniteSetTheorems
----------------------------------------------------------------------------
(* _params.                                                                *)

\* _params holds values as the parser gives them.
ParsedInv == \A k \in Keys : Parses(params[k])

ParamsInv == ParsedInv /\ SetUpAsConfigured /\ RefusalExplained
----------------------------------------------------------------------------
(* The helpers of set_params.                                              *)

LEMMA EmptyConcat ==
  ASSUME NEW S, NEW s \in Seq(S), NEW t \in Seq(S), s \o t = <<>>
  PROVE  s = <<>> /\ t = <<>>
<1>1. Len(s) \in Nat /\ Len(t) \in Nat /\ Len(s \o t) = Len(s) + Len(t)
  OBVIOUS
<1>2. Len(s) = 0 /\ Len(t) = 0
  BY <1>1
<1> QED BY <1>2

LEMMA LastIn ==
  ASSUME NEW S, NEW s \in Seq(S), s # <<>>
  PROVE  Last(s) \in S
BY DEF Last

LEMMA BlankIsNoKey == Blank \notin Keys /\ Blank \notin {"connect", "call", "notify"}
BY Zenon DEF Blank, Keys

LEMMA JsonFields ==
  ASSUME NEW type, NEW text, NEW num, NEW items
  PROVE  /\ Json(type, text, num, items).type = type
         /\ Json(type, text, num, items).text = text
         /\ Json(type, text, num, items).num = num
         /\ Json(type, text, num, items).items = items
BY DEF Json

LEMMA TextFields ==
  ASSUME NEW s
  PROVE  Text(s).type = "string" /\ Text(s).text = s /\ Text(s) # Absent
<1>1. Absent.type = "absent"
  BY JsonFields DEF Absent
<1>2. Text(s).type = "string" /\ Text(s).text = s
  BY JsonFields DEF Text
<1>3. Text(s) # Absent
  BY <1>1, <1>2
<1> QED BY <1>2, <1>3

\* The least of one, two or three indices.
LEMMA MinIs ==
  ASSUME NEW S, S \subseteq Nat, NEW m \in S, \A i \in S : m <= i
  PROVE  Min(S) = m
<1>1. \A i \in S : m =< i
  OBVIOUS
<1>2. Min(S) \in S /\ \A i \in S : Min(S) =< i
  BY <1>1 DEF Min
<1>3. Min(S) =< m /\ m =< Min(S) /\ Min(S) \in Nat /\ m \in Nat
  BY <1>1, <1>2
<1> QED BY <1>3

LEMMA MaxIs ==
  ASSUME NEW n \in Nat
  PROVE  Max(0 .. n) = n
<1>1. n \in 0 .. n /\ \A i \in 0 .. n : n >= i
  OBVIOUS
<1>2. Max(0 .. n) \in 0 .. n /\ \A i \in 0 .. n : Max(0 .. n) >= i
  BY <1>1 DEF Max
<1>3. Max(0 .. n) >= n /\ Max(0 .. n) \in 0 .. n
  BY <1>1, <1>2
<1> QED BY <1>3

\* The first of the keys that is there, spelt out.
LEMMA CalledIs ==
  ASSUME NEW p
  PROVE  Called(p) = IF p["rpc_call"] # Absent THEN p["rpc_call"] ELSE p["rpc_func"]
<1> DEFINE keys == <<"rpc_call", "rpc_func">>
<1> DEFINE there == {i \in DOMAIN keys : p[keys[i]] # Absent}
<1>1. DOMAIN keys = {1, 2} /\ keys[1] = "rpc_call" /\ keys[2] = "rpc_func"
  OBVIOUS
<1>2. Called(p) = IF there = {} THEN Absent ELSE p[keys[Min(there)]]
  BY DEF Called, FirstOf
<1> HIDE DEF keys
<1>3. there \subseteq Nat /\ there \subseteq {1, 2}
  BY <1>1
<1>4. /\ 1 \in there <=> p["rpc_call"] # Absent
      /\ 2 \in there <=> p["rpc_func"] # Absent
  BY <1>1
<1> HIDE DEF there
<1>5. CASE 1 \in there
  <2>1. 1 \in there /\ \A i \in there : 1 <= i
    BY <1>3, <1>5
  <2>2. Min(there) = 1
    BY <1>3, <2>1, MinIs
  <2> QED BY <1>1, <1>2, <1>4, <1>5, <2>2
<1>6. CASE 1 \notin there /\ 2 \in there
  <2>1. 2 \in there /\ \A i \in there : 2 <= i
    BY <1>3, <1>6
  <2>2. Min(there) = 2
    BY <1>3, <2>1, MinIs
  <2> QED BY <1>1, <1>2, <1>4, <1>6, <2>2
<1>7. CASE 1 \notin there /\ 2 \notin there
  BY <1>2, <1>3, <1>4, <1>7
<1> QED BY <1>5, <1>6, <1>7

LEMMA ProvidedIs ==
  ASSUME NEW p
  PROVE  Provided(p) = IF p["provided_rpc"] # Absent THEN p["provided_rpc"]
                       ELSE IF p["rpc_call"] # Absent THEN p["rpc_call"] ELSE p["rpc_func"]
<1> DEFINE keys == <<"provided_rpc", "rpc_call", "rpc_func">>
<1> DEFINE there == {i \in DOMAIN keys : p[keys[i]] # Absent}
<1>1. /\ DOMAIN keys = {1, 2, 3}
      /\ keys[1] = "provided_rpc" /\ keys[2] = "rpc_call" /\ keys[3] = "rpc_func"
  OBVIOUS
<1>2. Provided(p) = IF there = {} THEN Absent ELSE p[keys[Min(there)]]
  BY DEF Provided, FirstOf
<1> HIDE DEF keys
<1>3. there \subseteq Nat /\ there \subseteq {1, 2, 3}
  BY <1>1
<1>4. /\ 1 \in there <=> p["provided_rpc"] # Absent
      /\ 2 \in there <=> p["rpc_call"] # Absent
      /\ 3 \in there <=> p["rpc_func"] # Absent
  BY <1>1
<1> HIDE DEF there
<1>5. CASE 1 \in there
  <2>1. 1 \in there /\ \A i \in there : 1 <= i
    BY <1>3, <1>5
  <2>2. Min(there) = 1
    BY <1>3, <2>1, MinIs
  <2> QED BY <1>1, <1>2, <1>4, <1>5, <2>2
<1>6. CASE 1 \notin there /\ 2 \in there
  <2>1. 2 \in there /\ \A i \in there : 2 <= i
    BY <1>3, <1>6
  <2>2. Min(there) = 2
    BY <1>3, <2>1, MinIs
  <2> QED BY <1>1, <1>2, <1>4, <1>6, <2>2
<1>7. CASE 1 \notin there /\ 2 \notin there /\ 3 \in there
  <2>1. 3 \in there /\ \A i \in there : 3 <= i
    BY <1>3, <1>7
  <2>2. Min(there) = 3
    BY <1>3, <2>1, MinIs
  <2> QED BY <1>1, <1>2, <1>4, <1>7, <2>2
<1>8. CASE 1 \notin there /\ 2 \notin there /\ 3 \notin there
  BY <1>2, <1>3, <1>4, <1>8
<1> QED BY <1>5, <1>6, <1>7, <1>8
----------------------------------------------------------------------------
(* What it means that nothing is complained of.                            *)

LEMMA ErrorsType ==
  ASSUME NEW p
  PROVE  /\ ModeErrors(p) \in Seq(Keys) /\ CallErrors(p) \in Seq(Keys)
         /\ EmptyName(p) \in Seq(Keys) /\ QueueErrors(p) \in Seq(Keys)
         /\ OverflowErrors(p) \in Seq(Keys) /\ NotifyErrors(p) \in Seq(Keys)
<1>1. /\ <<>> \in Seq(Keys) /\ <<"mode">> \in Seq(Keys) /\ <<"rpc_call">> \in Seq(Keys)
      /\ <<"rpc_args">> \in Seq(Keys) /\ <<"provided_rpc">> \in Seq(Keys)
      /\ <<"max_queue">> \in Seq(Keys) /\ <<"overflow">> \in Seq(Keys)
  BY DEF Keys
<1>2. ModeErrors(p) \in Seq(Keys) /\ CallErrors(p) \in Seq(Keys)
  BY <1>1 DEF ModeErrors, CallErrors
<1>3. /\ EmptyName(p) \in Seq(Keys) /\ QueueErrors(p) \in Seq(Keys)
      /\ OverflowErrors(p) \in Seq(Keys)
  BY <1>1 DEF EmptyName, QueueErrors, OverflowErrors
<1>4. /\ EmptyName(p) \o QueueErrors(p) \in Seq(Keys)
      /\ EmptyName(p) \o OverflowErrors(p) \in Seq(Keys)
  BY <1>3
<1>5. NotifyErrors(p) \in Seq(Keys)
  BY <1>1, <1>4 DEF NotifyErrors
<1> QED BY <1>2, <1>3, <1>5

LEMMA NoNotifyErrors ==
  ASSUME NEW p, NotifyErrors(p) = <<>>
  PROVE  /\ ~ParseFails(p) /\ EmptyName(p) = <<>>
         /\ QueueErrors(p) = <<>> /\ OverflowErrors(p) = <<>>
<1>1. ~ParseFails(p)
  BY DEF NotifyErrors
<1>2. QueueErrors(p) = <<>>
  <2> SUFFICES ASSUME QueueErrors(p) # <<>> PROVE FALSE
    OBVIOUS
  <2>1. EmptyName(p) \o QueueErrors(p) = <<>>
    BY <1>1 DEF NotifyErrors
  <2> QED BY <2>1, ErrorsType, EmptyConcat
<1>3. EmptyName(p) \o OverflowErrors(p) = <<>>
  BY <1>1, <1>2 DEF NotifyErrors
<1>4. EmptyName(p) = <<>> /\ OverflowErrors(p) = <<>>
  BY <1>3, ErrorsType, EmptyConcat
<1> QED BY <1>1, <1>2, <1>4

\* All the names are read when there is nothing wrong with them.
LEMMA ParsedNames ==
  ASSUME NEW p, Parses(Provided(p)), ~ParseFails(p)
  PROVE  /\ Parsed(p) = NamesIn(Provided(p))
         /\ \E S : Parsed(p) \in Seq(S)
<1> DEFINE j == Provided(p)
<1> DEFINE items == j.items
<1> DEFINE read == {n \in 0 .. Len(items) : \A i \in 1 .. n : items[i].type = "string"}
<1>1. /\ j.type \in {"string", "list"} /\ \A i \in DOMAIN items : items[i].type = "string"
      /\ items \in Seq(Range(items))
  BY DEF ParseFails, Parses
<1>2. Parsed(p) = IF j.type = "string" THEN <<j.text>>
                  ELSE [i \in 1 .. Max(read) |-> items[i].text]
  BY DEF Parsed
<1>3. NamesIn(j) = IF j.type = "string" THEN <<j.text>>
                   ELSE [i \in DOMAIN items |-> items[i].text]
  BY DEF NamesIn
<1> HIDE DEF j
<1>4. CASE j.type = "string"
  <2>1. <<j.text>> \in Seq({j.text})
    OBVIOUS
  <2> QED BY <1>2, <1>3, <1>4, <2>1 DEF j
<1>5. CASE j.type # "string"
  <2> DEFINE N == Len(items)
  <2>1. N \in Nat /\ DOMAIN items = 1 .. N
    BY <1>1
  <2> HIDE DEF N
  <2>2. read = 0 .. N
    <3>1. \A n \in 0 .. N : \A i \in 1 .. n : i \in 1 .. N
      BY <2>1
    <3> QED BY <1>1, <2>1, <3>1 DEF N
  <2>3. Max(read) = N
    BY <2>1, <2>2, MaxIs
  <2>4. Parsed(p) = [i \in 1 .. N |-> items[i].text]
    BY <1>2, <1>5, <2>3
  <2> DEFINE S == {items[i].text : i \in 1 .. N}
  <2>5. [i \in 1 .. N |-> items[i].text] \in Seq(S)
    BY <2>1
  <2> QED BY <1>3, <1>5, <2>1, <2>4, <2>5 DEF j
<1> QED BY <1>4, <1>5

\* A size_t that is not zero: the number itself, or the negative one it wraps.
LEMMA Halving ==
  ASSUME NEW n \in Int
  PROVE  n \in {2 * (n \div 2), 2 * (n \div 2) + 1}
OBVIOUS

LEMMA QueueGiven ==
  ASSUME NEW p, Parses(p.max_queue), QueueErrors(p) = <<>>
  PROVE  /\ IsNumber(p.max_queue) /\ MaxQueueGiven(p) \in Nat \ {0}
         /\ QueueOf(p.max_queue, MaxQueueGiven(p))
<1> DEFINE n == p.max_queue.num
<1>1. SizeT \in Nat \ {0}
  BY ParamsAssumption
<1>2. IsNumber(p.max_queue) /\ MaxQueueGiven(p) # 0
  BY DEF QueueErrors
<1>3. CASE p.max_queue.type = "int"
  <2>1. n \in -SizeT .. SizeT - 1 /\ MaxQueueGiven(p) = n % SizeT
    BY <1>3 DEF Parses, MaxQueueGiven
  <2> HIDE DEF n
  <2>2. n % SizeT \in Nat
    BY <1>1, <2>1, DivMod
  <2>3. n >= 0 => n % SizeT = n
    BY <1>1, <2>1, ModSmall
  <2>4. ASSUME n < 0 PROVE n % SizeT = n + SizeT
    <3>1. SizeT * (-1) + (n + SizeT) = n /\ n + SizeT \in 0 .. SizeT - 1
      BY <1>1, <2>1, <2>4
    <3>2. (SizeT * (-1) + (n + SizeT)) % SizeT = n + SizeT
      BY <1>1, <3>1, ModUnique
    <3> QED BY <3>1, <3>2
  <2>5. n = n % SizeT \/ n = (n % SizeT) - SizeT
    BY <1>1, <2>1, <2>3, <2>4
  <2> QED BY <1>2, <1>3, <2>1, <2>2, <2>5 DEF n, QueueOf
<1>4. CASE p.max_queue.type = "float"
  <2>1. /\ n \in Int /\ FloatSizeT(n) \in 0 .. SizeT - 1
        /\ n \in Fitting => FloatSizeT(n) = (IF n < 0 THEN 0 ELSE n \div 2)
        /\ MaxQueueGiven(p) = FloatSizeT(n)
    BY <1>4 DEF Parses, MaxQueueGiven
  <2>2. MaxQueueGiven(p) \in Nat \ {0}
    BY <1>1, <1>2, <2>1
  <2>3. ASSUME n \in Fitting PROVE n \in {2 * MaxQueueGiven(p), 2 * MaxQueueGiven(p) + 1}
    <3>1. MaxQueueGiven(p) = n \div 2
      BY <2>1, <2>2, <2>3
    <3> HIDE DEF n
    <3> QED BY <2>1, <3>1, Halving
  <2> QED BY <1>2, <1>4, <2>2, <2>3 DEF QueueOf
<1> QED BY <1>2, <1>3, <1>4 DEF IsNumber
----------------------------------------------------------------------------
(* set_params.                                                             *)

\* A value that is no array and no float.
LEMMA MadeParses ==
  ASSUME NEW type, type # "float", NEW text, NEW num \in -SizeT .. SizeT - 1,
         type = "absent" => Json(type, text, num, <<>>) = Absent
  PROVE  Parses(Json(type, text, num, <<>>))
<1> DEFINE j == Json(type, text, num, <<>>)
<1>1. j.type = type /\ j.num = num /\ j.items = <<>>
  BY JsonFields
<1>2. <<>> \in Seq(Range(<<>>))
  OBVIOUS
<1> HIDE DEF j
<1>3. Parses(j)
  BY <1>1, <1>2 DEF Parses, j
<1> QED BY <1>3 DEF j

LEMMA ParamsInitInv == ParamsInit => ParamsInv
<1>1. Parses(Absent)
  <2>1. 0 \in -SizeT .. SizeT - 1
    BY ParamsAssumption
  <2> QED BY <2>1, MadeParses DEF Absent
<1> SUFFICES ASSUME ParamsInit PROVE ParamsInv
  OBVIOUS
<1>2. ParsedInv
  BY <1>1 DEF ParamsInit, ParsedInv
<1>3. ~(sets > 0)
  BY DEF ParamsInit
<1>4. SetUpAsConfigured
  BY <1>3 DEF SetUpAsConfigured, NotifyAsConfigured, CallAsConfigured
<1>5. RefusalExplained
  BY DEF ParamsInit, RefusalExplained
<1> QED BY <1>2, <1>4, <1>5 DEF ParamsInv

\* What is merged is as the parser gave it.
LEMMA MergedParses ==
  ASSUME ParsedInv, NEW given \in Params, NEW base \in {given, params}, NEW k \in Keys
  PROVE  Parses(Merged(given, base)[k])
<1>1. Parses(given[k]) /\ Parses(base[k])
  BY ParamsAssumption DEF ParsedInv
<1>2. 0 \in -SizeT .. SizeT - 1 /\ DefaultMaxQueue \in -SizeT .. SizeT - 1
  BY ParamsAssumption
<1>3. /\ Parses(Absent) /\ Parses(Text("call")) /\ Parses(Text("drop_oldest"))
      /\ Parses(Number(DefaultMaxQueue))
  BY <1>2, MadeParses DEF Absent, Text, Number
<1>4. Parses(Defaults(k))
  BY <1>3 DEF Defaults, Keys
<1> QED BY <1>1, <1>3, <1>4 DEF Merged

\* One call of set_params, from whatever state.
LEMMA SetParamsSets ==
  ASSUME ParsedInv, NEW given \in Params, SetSourceParams(given)
  PROVE  /\ ParsedInv'
         /\ setup_ok' => /\ ModeErrors(params') = <<>>
                         /\ mode' = ModeGiven(params')
                         /\ mode' = "call" => CallErrors(params') = <<>> /\ connected'
                         /\ mode' # "call" => NotifyErrors(params') = <<>>
         /\ setup_ok' <=> error' = Blank
         /\ receiving' <=> setup_ok' /\ mode' = "notify"
<1>1. PICK base \in {given, params} : params' = Merged(given, base)
  BY DEF SetSourceParams
<1> DEFINE p == params'
<1> DEFINE errors == IF mode' = "call" THEN CallErrors(p) ELSE NotifyErrors(p)
<1>2. SetMembers(p) /\ Start(p)
  BY DEF SetSourceParams
<1>3. ParsedInv'
  BY <1>1, MergedParses DEF ParsedInv
<1> HIDE DEF p
<1>4. errors \in Seq(Keys) /\ ModeErrors(p) \in Seq(Keys)
  BY ErrorsType
<1>5. Errors(p) = ModeErrors(p) \o errors
  BY DEF Errors
<1> HIDE DEF errors
<1>6. Errors(p) \in Seq(Keys)
  BY <1>4, <1>5
<1>7. Errors(p) = <<>> => ModeErrors(p) = <<>> /\ errors = <<>>
  BY <1>4, <1>5, EmptyConcat
<1>8. PICK works \in BOOLEAN :
        /\ setup_ok' = (Errors(p) = <<>> /\ works)
        /\ error' = CASE Errors(p) # <<>> -> Last(Errors(p))
                      [] Errors(p) = <<>> /\ works -> NoError
                      [] OTHER -> "connect"
        /\ receiving' = (setup_ok' /\ mode' = "notify")
        /\ connected' = IF Errors(p) = <<>> /\ mode' = "call" THEN works ELSE connected
  BY <1>2 DEF Start
<1>9. setup_ok' <=> error' = Blank
  <2>1. CASE Errors(p) # <<>>
    <3>1. error' \in Keys /\ ~setup_ok'
      BY <1>6, <1>8, <2>1, LastIn
    <3> QED BY <3>1, BlankIsNoKey
  <2>2. CASE Errors(p) = <<>>
    BY <1>8, <2>2, BlankIsNoKey DEF NoError
  <2> QED BY <2>1, <2>2
<1>10. ModeErrors(p) = <<>> => mode' = ModeGiven(p)
  BY <1>2 DEF ModeErrors, SetMembers
<1>11. setup_ok' => /\ ModeErrors(p) = <<>> /\ mode' = ModeGiven(p)
                    /\ mode' = "call" => CallErrors(p) = <<>> /\ connected'
                    /\ mode' # "call" => NotifyErrors(p) = <<>>
  BY <1>7, <1>8, <1>10 DEF errors
<1> QED BY <1>3, <1>8, <1>9, <1>11 DEF p

LEMMA SetParamsNotify ==
  ASSUME ParsedInv', NEW given \in Params, SetSourceParams(given), setup_ok', receiving',
         mode' = "notify", ModeGiven(params') = "notify", NotifyErrors(params') = <<>>
  PROVE  NotifyAsConfigured'
<1> DEFINE p == params'
<1>0. \A k \in Keys : Parses(p[k])
  BY DEF ParsedInv
<1>1. SetMembers(p)
  BY DEF SetSourceParams
<1> HIDE DEF p
<1>2. /\ ~ParseFails(p) /\ EmptyName(p) = <<>>
      /\ QueueErrors(p) = <<>> /\ OverflowErrors(p) = <<>>
  BY NoNotifyErrors DEF p
<1>3. p.mode \in {Text("notify"), Text("receive")}
  BY BlankIsNoKey DEF ModeGiven, p
<1>4. Provided(p) = IF p.provided_rpc # Absent THEN p.provided_rpc
                    ELSE IF p.rpc_call # Absent THEN p.rpc_call ELSE p.rpc_func
  BY ProvidedIs
<1>5. Parses(Provided(p))
  BY <1>0, <1>4 DEF Keys
<1>6. methods' = Parsed(p) /\ Parsed(p) = NamesIn(Provided(p))
  <2>1. PICK S : Parsed(p) \in Seq(S)
    BY <1>2, <1>5, ParsedNames
  <2>2. <<>> \o Parsed(p) = Parsed(p)
    BY <2>1
  <2> QED BY <1>1, <1>2, <1>5, <2>2, ParsedNames DEF SetMembers, NoMethods
<1>7. \A i \in DOMAIN methods' : methods'[i] # Blank
  <2>1. ~Contains(Parsed(p), Blank)
    BY <1>2 DEF EmptyName
  <2>2. PICK S : Parsed(p) \in Seq(S)
    BY <1>2, <1>5, ParsedNames
  <2>3. DOMAIN Parsed(p) = 1 .. Len(Parsed(p))
    BY <2>2
  <2> QED BY <1>6, <2>1, <2>3 DEF Contains
<1>8. /\ max_queue' > 0
      /\ QueueOf(p.max_queue, max_queue')
  <2>1. Parses(p.max_queue)
    BY <1>0 DEF Keys
  <2>2. /\ IsNumber(p.max_queue) /\ MaxQueueGiven(p) \in Nat \ {0}
        /\ QueueOf(p.max_queue, MaxQueueGiven(p))
    BY <1>2, <2>1, QueueGiven
  <2>3. max_queue' = MaxQueueGiven(p)
    BY <1>1, <1>2, <2>2 DEF SetMembers
  <2> QED BY <2>2, <2>3
<1>9. /\ overflow' \in {"drop_oldest", "drop_newest"}
      /\ p.overflow \in {Text(overflow'), Absent}
  <2>1. OverflowRead(p)
    BY <1>2 DEF OverflowRead
  <2>2. p.overflow \in {Absent, Text("drop_oldest"), Text("drop_newest")}
    BY <1>2 DEF OverflowErrors
  <2>3. ASSUME p.overflow = Absent PROVE overflow' = "drop_oldest"
    <3>1. p.overflow.type # "string"
      BY <2>3, JsonFields DEF Absent
    <3> QED BY <1>1, <2>1, <2>3, <3>1 DEF SetMembers
  <2>4. ASSUME NEW s \in {"drop_oldest", "drop_newest"}, p.overflow = Text(s)
        PROVE  overflow' = s
    <3>1. p.overflow.type = "string" /\ p.overflow.text = s /\ p.overflow # Absent
      BY <2>4, TextFields
    <3> QED BY <1>1, <2>1, <3>1 DEF SetMembers
  <2> QED BY <2>2, <2>3, <2>4
<1> QED
  BY <1>3, <1>4, <1>6, <1>7, <1>8, <1>9 DEF NotifyAsConfigured, p

LEMMA SetParamsCall ==
  ASSUME ParsedInv', NEW given \in Params, SetSourceParams(given), connected', ~receiving',
         mode' = "call", ModeGiven(params') = "call", CallErrors(params') = <<>>
  PROVE  CallAsConfigured'
<1> DEFINE p == params'
<1>1. SetMembers(p)
  BY DEF SetSourceParams
<1> HIDE DEF p
<1>2. p.mode \in {Absent, Text("call"), Text("poll")}
  BY BlankIsNoKey DEF ModeGiven, p
<1>3. Called(p) # Absent /\ p.rpc_args.type \in {"absent", "list"}
  BY DEF CallErrors, p
<1>4. Called(p) \in {p.rpc_call, p.rpc_func} \ {Absent}
  BY <1>3, CalledIs
<1>5. rpc_call' = <<Called(p), IF p.rpc_args = Absent THEN List(<<>>) ELSE p.rpc_args>>
  BY <1>1, <1>3 DEF SetMembers
<1>6. rpc_call' # <<>> /\ rpc_call'[1] = Called(p) /\ rpc_call'[2].type = "list"
  <2>1. List(<<>>).type = "list"
    BY JsonFields DEF List
  <2>2. \A x, y : <<x, y>> # <<>> /\ <<x, y>>[1] = x /\ <<x, y>>[2] = y
    OBVIOUS
  <2>3. p.rpc_args.type = "absent" \/ p.rpc_args.type = "list"
    BY <1>3
  <2>4. p.rpc_args.type = "absent" => p.rpc_args = Absent
    BY DEF p, ParsedInv, Keys, Parses
  <2> QED BY <1>5, <2>1, <2>2, <2>3, <2>4
<1> QED BY <1>2, <1>4, <1>6 DEF CallAsConfigured, p

LEMMA ParamsNextInv ==
  ASSUME ParamsInv, [ParamsNext]_paramsVars
  PROVE  ParamsInv'
<1>1. CASE UNCHANGED paramsVars
  BY <1>1 DEF paramsVars, ParamsInv, ParsedInv, SetUpAsConfigured, NotifyAsConfigured,
     CallAsConfigured, RefusalExplained
<1>2. CASE ParamsNext
  <2>1. PICK given \in Params : SetSourceParams(given)
    BY <1>2 DEF ParamsNext
  <2>2. /\ ParsedInv'
        /\ setup_ok' => /\ ModeErrors(params') = <<>>
                        /\ mode' = ModeGiven(params')
                        /\ mode' = "call" => CallErrors(params') = <<>> /\ connected'
                        /\ mode' # "call" => NotifyErrors(params') = <<>>
        /\ setup_ok' <=> error' = Blank
        /\ receiving' <=> setup_ok' /\ mode' = "notify"
    BY <2>1, SetParamsSets DEF ParamsInv
  <2>3. NotifyAsConfigured'
    <3>1. CASE setup_ok' /\ mode' = "notify"
      BY <2>1, <2>2, <3>1, SetParamsNotify
    <3>2. CASE ~(setup_ok' /\ mode' = "notify")
      BY <3>2 DEF NotifyAsConfigured
    <3> QED BY <3>1, <3>2
  <2>4. CallAsConfigured'
    <3>1. CASE setup_ok' /\ mode' = "call"
      BY <2>1, <2>2, <3>1, SetParamsCall
    <3>2. CASE ~(setup_ok' /\ mode' = "call")
      BY <3>2 DEF CallAsConfigured
    <3> QED BY <3>1, <3>2
  <2>5. RefusalExplained'
    BY <2>2 DEF RefusalExplained
  <2> QED BY <2>2, <2>3, <2>4, <2>5 DEF ParamsInv, SetUpAsConfigured
<1> QED BY <1>1, <1>2

LEMMA InvariantParamsInv == ParamsSpec => []ParamsInv
BY ParamsInitInv, ParamsNextInv, PTL DEF ParamsSpec

\* Whatever the parameters, and however often and how badly the source was
\* configured before: one that is set up is what its parameters say, with all
\* that its mode takes for granted.
THEOREM SetUpAlwaysAsConfigured == ParamsSpec => []SetUpAsConfigured
<1>1. ParamsInv => SetUpAsConfigured
  BY DEF ParamsInv
<1> QED BY <1>1, InvariantParamsInv, PTL

\* A source that refuses to work says why, does not receive, and one that works
\* has no complaint left from before.
THEOREM RefusalAlwaysExplained == ParamsSpec => []RefusalExplained
<1>1. ParamsInv => RefusalExplained
  BY DEF ParamsInv
<1> QED BY <1>1, InvariantParamsInv, PTL
----------------------------------------------------------------------------
(* percentile().                                                           *)

\* The quotient and the remainder by 100.
LEMMA DivMod100 ==
  ASSUME NEW r \in Nat
  PROVE  /\ r \div 100 \in Nat /\ r % 100 \in 0 .. 99
         /\ r = 100 * (r \div 100) + (r % 100)
OBVIOUS

LEMMA RankBounds ==
  ASSUME NEW s \in Seq(Nat), s # <<>>, NEW p \in 0 .. 100
  PROVE  Rank(s, p) \in 0 .. 100 * (Len(s) - 1)
<1>1. Len(s) - 1 \in Nat
  OBVIOUS
<1>2. PICK n \in Nat : n = Len(s) - 1
  BY <1>1
<1>3. p * n \in Nat /\ p * n <= 100 * n
  OBVIOUS
<1> QED
  BY <1>2, <1>3 DEF Rank

\* What a report is made of: samples, at least one, from the fastest to the
\* slowest.
Sorted == {s \in Seq(Nat) : s # <<>> /\ Ascending(s)}

\* floor and ceil of the rank are indices of the samples, next to each other,
\* or the same if there is nothing between.
THEOREM PercentileInBounds ==
  ASSUME NEW s \in Seq(Nat), s # <<>>, NEW p \in 0 .. 100
  PROVE  /\ Lo(s, p) \in 1 .. Len(s) /\ Hi(s, p) \in 1 .. Len(s)
         /\ Frac(s, p) \in 0 .. 99
         /\ Hi(s, p) = IF Frac(s, p) = 0 THEN Lo(s, p) ELSE Lo(s, p) + 1
         /\ Rank(s, p) = 100 * (Lo(s, p) - 1) + Frac(s, p)
<1> DEFINE r == Rank(s, p)
           q == r \div 100
           f == r % 100
           h == (r + 99) \div 100
           g == (r + 99) % 100
           n == Len(s)
<1>1. n \in Nat \ {0}
  OBVIOUS
<1>2. r \in 0 .. 100 * (n - 1)
  BY RankBounds
<1>3. Lo(s, p) = q + 1 /\ Frac(s, p) = f /\ Hi(s, p) = h + 1
  BY DEF Lo, Hi, Frac
<1> HIDE DEF r, n
<1>4. r \in Nat /\ r + 99 \in Nat
  BY <1>1, <1>2
<1>5. q \in Nat /\ f \in 0 .. 99 /\ r = 100 * q + f
  BY <1>4, DivMod100
<1>6. h \in Nat /\ g \in 0 .. 99 /\ r + 99 = 100 * h + g
  BY <1>4, DivMod100
<1> HIDE DEF q, f, h, g
<1>7. h = IF f = 0 THEN q ELSE q + 1
  BY <1>5, <1>6
<1>8. q + 1 \in 1 .. n /\ h + 1 \in 1 .. n
  BY <1>1, <1>2, <1>5, <1>7
<1>9. Lo(s, p) \in 1 .. n /\ Hi(s, p) \in 1 .. n /\ Frac(s, p) \in 0 .. 99
  BY <1>3, <1>5, <1>8
<1>10. Hi(s, p) = IF Frac(s, p) = 0 THEN Lo(s, p) ELSE Lo(s, p) + 1
  BY <1>3, <1>5, <1>7
<1>11. r = 100 * (Lo(s, p) - 1) + Frac(s, p)
  BY <1>3, <1>5
<1> QED
  BY <1>9, <1>10, <1>11 DEF r, n

\* What a percentile is made of.
LEMMA PercentileParts ==
  ASSUME NEW s \in Sorted, NEW p \in 0 .. 100
  PROVE  /\ s[Lo(s, p)] \in Nat /\ s[Hi(s, p)] \in Nat
         /\ s[Lo(s, p)] <= s[Hi(s, p)]
         /\ Percentile(s, p) =
              100 * s[Lo(s, p)] + (s[Hi(s, p)] - s[Lo(s, p)]) * Frac(s, p)
<1>1. s \in Seq(Nat) /\ s # <<>> /\ Ascending(s)
  BY DEF Sorted
<1>2. /\ Lo(s, p) \in 1 .. Len(s) /\ Hi(s, p) \in 1 .. Len(s)
      /\ Frac(s, p) \in 0 .. 99
      /\ Hi(s, p) = IF Frac(s, p) = 0 THEN Lo(s, p) ELSE Lo(s, p) + 1
  BY <1>1, PercentileInBounds
<1>3. Lo(s, p) <= Hi(s, p)
  BY <1>2
<1>4. s[Lo(s, p)] <= s[Hi(s, p)]
  BY <1>1, <1>2, <1>3 DEF Ascending
<1>5. s[Lo(s, p)] \in Nat /\ s[Hi(s, p)] \in Nat
  BY <1>1, <1>2
<1> QED
  BY <1>4, <1>5 DEF Percentile

\* Interpolation stays between its ends, and rises with the fraction.
LEMMA Interpolation ==
  ASSUME NEW a \in Nat, NEW b \in Nat, a <= b, NEW f \in 0 .. 99
  PROVE  /\ 100 * a + (b - a) * f \in Nat
         /\ 100 * a <= 100 * a + (b - a) * f
         /\ 100 * a + (b - a) * f <= 100 * b
<1>1. PICK d \in Nat : d = b - a
  OBVIOUS
<1>2. d * f \in Nat /\ d * f <= 100 * d
  OBVIOUS
<1> QED
  BY <1>1, <1>2

LEMMA InterpolationRises ==
  ASSUME NEW a \in Nat, NEW b \in Nat, a <= b,
         NEW f \in 0 .. 99, NEW g \in 0 .. 99, f <= g
  PROVE  100 * a + (b - a) * f <= 100 * a + (b - a) * g
<1>1. PICK d \in Nat : d = b - a
  OBVIOUS
<1>2. d * f \in Nat /\ d * g \in Nat /\ d * f <= d * g
  OBVIOUS
<1> QED
  BY <1>1, <1>2

\* A percentile is between the sample below its rank and the one above.
LEMMA PercentileBetween ==
  ASSUME NEW s \in Sorted, NEW p \in 0 .. 100
  PROVE  /\ Percentile(s, p) \in Nat
         /\ 100 * s[Lo(s, p)] <= Percentile(s, p)
         /\ Percentile(s, p) <= 100 * s[Hi(s, p)]
<1>1. Frac(s, p) \in 0 .. 99
  BY PercentileInBounds DEF Sorted
<1>2. /\ s[Lo(s, p)] \in Nat /\ s[Hi(s, p)] \in Nat
      /\ s[Lo(s, p)] <= s[Hi(s, p)]
      /\ Percentile(s, p) =
           100 * s[Lo(s, p)] + (s[Hi(s, p)] - s[Lo(s, p)]) * Frac(s, p)
  BY PercentileParts
<1> DEFINE v == 100 * s[Lo(s, p)] + (s[Hi(s, p)] - s[Lo(s, p)]) * Frac(s, p)
<1>3. v \in Nat /\ 100 * s[Lo(s, p)] <= v /\ v <= 100 * s[Hi(s, p)]
  BY <1>1, <1>2, Interpolation
<1> QED
  BY <1>2, <1>3

\* Wider bounds, in hundredths.
LEMMA Widened ==
  ASSUME NEW a \in Nat, NEW b \in Nat, NEW c \in Nat, NEW d \in Nat, NEW x \in Nat,
         a <= b, 100 * b <= x, x <= 100 * c, c <= d
  PROVE  100 * a <= x /\ x <= 100 * d
OBVIOUS

\* The columns min and max bound every percentile of the report.
THEOREM PercentileWithinSamples ==
  ASSUME NEW s \in Sorted, NEW p \in 0 .. 100
  PROVE  /\ 100 * s[1] <= Percentile(s, p)
         /\ Percentile(s, p) <= 100 * s[Len(s)]
<1>1. s \in Seq(Nat) /\ s # <<>> /\ Ascending(s)
  BY DEF Sorted
<1>2. Lo(s, p) \in 1 .. Len(s) /\ Hi(s, p) \in 1 .. Len(s)
  BY <1>1, PercentileInBounds
<1>3. s[1] <= s[Lo(s, p)] /\ s[Hi(s, p)] <= s[Len(s)]
  BY <1>1, <1>2 DEF Ascending
<1>4. /\ s[1] \in Nat /\ s[Lo(s, p)] \in Nat
      /\ s[Hi(s, p)] \in Nat /\ s[Len(s)] \in Nat
  BY <1>1, <1>2
<1>5. /\ Percentile(s, p) \in Nat
      /\ 100 * s[Lo(s, p)] <= Percentile(s, p)
      /\ Percentile(s, p) <= 100 * s[Hi(s, p)]
  BY PercentileBetween
<1> QED
  BY <1>3, <1>4, <1>5, Widened

\* Samples do not fall from one index to a later one.
LEMMA SamplesRise ==
  ASSUME NEW s \in Sorted, NEW a \in 1 .. Len(s), NEW b \in 1 .. Len(s), a <= b
  PROVE  s[a] \in Nat /\ s[b] \in Nat /\ s[a] <= s[b]
BY DEF Sorted, Ascending

\* Of two ranks, l + f / 100 and m + g / 100, the second no lower: they are
\* between the same two samples, or the first has no sample above it that is
\* not below the second.
LEMMA RanksApart ==
  ASSUME NEW l \in Nat, NEW m \in Nat, NEW f \in 0 .. 99, NEW g \in 0 .. 99,
         100 * (l - 1) + f <= 100 * (m - 1) + g
  PROVE  /\ l = m => f <= g
         /\ l # m => l + 1 <= m
OBVIOUS

\* Median, p90, p95 and p99 are in order, whatever the samples.
THEOREM PercentileMonotone ==
  ASSUME NEW s \in Sorted, NEW p \in 0 .. 100, NEW q \in 0 .. 100, p <= q
  PROVE  Percentile(s, p) <= Percentile(s, q)
<1>1. s \in Seq(Nat) /\ s # <<>> /\ Ascending(s)
  BY DEF Sorted
<1>2. Rank(s, p) <= Rank(s, q)
  <2>1. PICK n \in Nat : n = Len(s) - 1
    BY <1>1
  <2>2. p * n <= q * n
    OBVIOUS
  <2> QED
    BY <2>1, <2>2 DEF Rank
<1>3. /\ Lo(s, p) \in 1 .. Len(s) /\ Hi(s, p) \in 1 .. Len(s)
      /\ Frac(s, p) \in 0 .. 99
      /\ Hi(s, p) = IF Frac(s, p) = 0 THEN Lo(s, p) ELSE Lo(s, p) + 1
      /\ Rank(s, p) = 100 * (Lo(s, p) - 1) + Frac(s, p)
  BY <1>1, PercentileInBounds
<1>4. /\ Lo(s, q) \in 1 .. Len(s) /\ Hi(s, q) \in 1 .. Len(s)
      /\ Frac(s, q) \in 0 .. 99
      /\ Hi(s, q) = IF Frac(s, q) = 0 THEN Lo(s, q) ELSE Lo(s, q) + 1
      /\ Rank(s, q) = 100 * (Lo(s, q) - 1) + Frac(s, q)
  BY <1>1, PercentileInBounds
<1>5. /\ Percentile(s, p) \in Nat /\ Percentile(s, p) <= 100 * s[Hi(s, p)]
      /\ Percentile(s, q) \in Nat /\ 100 * s[Lo(s, q)] <= Percentile(s, q)
  BY PercentileBetween
<1>6. Len(s) \in Nat
  BY <1>1
<1>10. Lo(s, p) \in Nat /\ Lo(s, q) \in Nat
  BY <1>3, <1>4, <1>6
<1>11. 100 * (Lo(s, p) - 1) + Frac(s, p) <= 100 * (Lo(s, q) - 1) + Frac(s, q)
  BY <1>2, <1>3, <1>4
<1>12. /\ Lo(s, p) = Lo(s, q) => Frac(s, p) <= Frac(s, q)
       /\ Lo(s, p) # Lo(s, q) => Lo(s, p) + 1 <= Lo(s, q)
  <2> DEFINE l == Lo(s, p)
             m == Lo(s, q)
             f == Frac(s, p)
             g == Frac(s, q)
  <2>1. l \in Nat /\ m \in Nat /\ f \in 0 .. 99 /\ g \in 0 .. 99
    BY <1>3, <1>4, <1>10
  <2>2. 100 * (l - 1) + f <= 100 * (m - 1) + g
    BY <1>11
  <2> HIDE DEF l, m, f, g
  <2>3. (l = m => f <= g) /\ (l # m => l + 1 <= m)
    BY <2>1, <2>2, RanksApart
  <2> QED
    BY <2>3 DEF l, m, f, g
<1>7. CASE Lo(s, p) = Lo(s, q) /\ Hi(s, p) = Hi(s, q)
  <2>1. Frac(s, p) <= Frac(s, q)
    BY <1>7, <1>12
  <2>2. /\ s[Lo(s, p)] \in Nat /\ s[Hi(s, p)] \in Nat
        /\ s[Lo(s, p)] <= s[Hi(s, p)]
    BY PercentileParts
  <2>3. 100 * s[Lo(s, p)] + (s[Hi(s, p)] - s[Lo(s, p)]) * Frac(s, p)
          <= 100 * s[Lo(s, p)] + (s[Hi(s, p)] - s[Lo(s, p)]) * Frac(s, q)
    BY <1>3, <1>4, <2>1, <2>2, InterpolationRises
  <2> QED
    BY <1>7, <2>3 DEF Percentile
<1>8. CASE ~(Lo(s, p) = Lo(s, q) /\ Hi(s, p) = Hi(s, q))
  <2>1. Hi(s, p) <= Lo(s, q)
    <3>1. CASE Lo(s, p) # Lo(s, q)
      BY <1>3, <1>10, <1>12, <3>1
    <3>2. CASE Lo(s, p) = Lo(s, q)
      <4>1. Frac(s, p) = 0
        <5>1. CASE Frac(s, p) # 0 /\ Frac(s, q) # 0
          BY <1>3, <1>4, <1>8, <3>2, <5>1
        <5>2. Frac(s, p) <= Frac(s, q)
          BY <1>12, <3>2
        <5>3. Frac(s, p) \in 0 .. 99 /\ Frac(s, q) \in 0 .. 99
          BY <1>3, <1>4
        <5> QED
          BY <5>1, <5>2, <5>3
      <4> QED
        BY <1>3, <1>10, <3>2, <4>1
    <3> QED
      BY <3>1, <3>2
  <2>2. s[Hi(s, p)] \in Nat /\ s[Lo(s, q)] \in Nat /\ s[Hi(s, p)] <= s[Lo(s, q)]
    <3>1. Hi(s, p) \in 1 .. Len(s) /\ Lo(s, q) \in 1 .. Len(s)
      BY <1>3, <1>4
    <3> QED
      BY <2>1, <3>1, SamplesRise
  <2> QED
    BY <1>5, <2>2
<1> QED
  BY <1>7, <1>8
----------------------------------------------------------------------------
(* compute_stats().                                                        *)

LatencyInv == latencies \in Seq(Nat)

LEMMA InvariantLatencyInv == StatsSpec => []LatencyInv
<1>1. StatsInit => LatencyInv
  <2>1. <<>> \in Seq(Nat)
    OBVIOUS
  <2> QED BY <2>1 DEF StatsInit, LatencyInv
<1>2. ASSUME LatencyInv, [Collect]_latencies PROVE LatencyInv'
  <2>1. CASE Collect
    <3>1. PICK us \in Micros : latencies' = Append(latencies, us)
      BY <2>1 DEF Collect
    <3>2. us \in Nat
      BY StatsAssumption
    <3> QED BY <1>2, <3>1, <3>2 DEF LatencyInv
  <2> QED BY <1>2, <2>1 DEF LatencyInv
<1> QED BY <1>1, <1>2, PTL DEF StatsSpec

LEMMA FirstFinite ==
  ASSUME NEW n \in Nat
  PROVE  IsFiniteSet(1 .. n) /\ Cardinality(1 .. n) = n
<1>1. IsFiniteSet(1 .. n) /\ Cardinality(1 .. n) = IF 1 > n THEN 0 ELSE n - 1 + 1
  BY FS_Interval
<1>2. (IF 1 > n THEN 0 ELSE n - 1 + 1) = n
  OBVIOUS
<1> QED BY <1>1, <1>2

\* The latencies that stand no later than the i-th.
UpTo(i) ==
  {j \in DOMAIN latencies :
     latencies[j] < latencies[i] \/ (latencies[j] = latencies[i] /\ j <= i)}

LEMMA LatencyFacts ==
  ASSUME LatencyInv
  PROVE  /\ Len(latencies) \in Nat
         /\ DOMAIN latencies = 1 .. Len(latencies)
         /\ \A i \in 1 .. Len(latencies) : latencies[i] \in Nat
BY DEF LatencyInv

\* What stands no later than an earlier one stands no later than a later one.
LEMMA UpToFacts ==
  ASSUME LatencyInv, NEW i \in DOMAIN latencies
  PROVE  /\ IsFiniteSet(UpTo(i)) /\ i \in UpTo(i)
         /\ Place(i) = Cardinality(UpTo(i)) /\ Place(i) \in 1 .. Len(latencies)
         /\ \A j \in DOMAIN latencies : j \in UpTo(i) => UpTo(j) \subseteq UpTo(i)
         /\ \A j \in DOMAIN latencies : j \in UpTo(i) \/ i \in UpTo(j)
         /\ \A j \in DOMAIN latencies : j \in UpTo(i) /\ i \in UpTo(j) => i = j
<1> DEFINE n == Len(latencies)
<1>1. /\ n \in Nat /\ DOMAIN latencies = 1 .. n /\ i \in 1 .. n
      /\ \A j \in 1 .. n : latencies[j] \in Nat
  BY LatencyFacts
<1>2. IsFiniteSet(1 .. n) /\ Cardinality(1 .. n) = n
  BY <1>1, FirstFinite
<1> HIDE DEF n
<1>3. UpTo(i) \in SUBSET (1 .. n) /\ i \in UpTo(i)
  BY <1>1 DEF UpTo
<1>4. IsFiniteSet(UpTo(i)) /\ Cardinality(UpTo(i)) <= n
  BY <1>2, <1>3, FS_Subset
<1>5. Cardinality(UpTo(i)) \in Nat /\ Cardinality(UpTo(i)) # 0
  BY <1>3, <1>4, FS_CardinalityType, FS_EmptySet
<1>6. Place(i) = Cardinality(UpTo(i))
  BY DEF Place, UpTo
<1>7. Place(i) \in 1 .. n
  BY <1>1, <1>4, <1>5, <1>6
<1>8. ASSUME NEW j \in DOMAIN latencies, j \in UpTo(i) PROVE UpTo(j) \subseteq UpTo(i)
  BY <1>1, <1>8 DEF UpTo
<1>9. \A j \in DOMAIN latencies : j \in UpTo(i) \/ i \in UpTo(j)
  BY <1>1 DEF UpTo
<1>10. \A j \in DOMAIN latencies : j \in UpTo(i) /\ i \in UpTo(j) => i = j
  BY <1>1 DEF UpTo
<1> QED BY <1>3, <1>4, <1>6, <1>7, <1>8, <1>9, <1>10 DEF n

\* A place earlier than another: the latency is no greater.
LEMMA PlacesOrdered ==
  ASSUME LatencyInv, NEW i \in DOMAIN latencies, NEW j \in DOMAIN latencies,
         Place(i) <= Place(j)
  PROVE  i \in UpTo(j)
<1> SUFFICES ASSUME i \notin UpTo(j) PROVE FALSE
  OBVIOUS
<1>1. j \in UpTo(i) /\ i # j
  BY UpToFacts
<1>2. UpTo(j) \subseteq UpTo(i) /\ IsFiniteSet(UpTo(i)) /\ i \in UpTo(i)
  BY <1>1, UpToFacts
<1>3. /\ Cardinality(UpTo(j)) <= Cardinality(UpTo(i))
      /\ Cardinality(UpTo(i)) = Cardinality(UpTo(j)) => UpTo(i) = UpTo(j)
  BY <1>2, FS_Subset
<1>4. /\ Place(i) = Cardinality(UpTo(i)) /\ Place(j) = Cardinality(UpTo(j))
      /\ Place(i) \in 1 .. Len(latencies) /\ Place(j) \in 1 .. Len(latencies)
  BY UpToFacts
<1>5. Place(i) = Place(j)
  BY <1>3, <1>4, LatencyFacts
<1> QED BY <1>2, <1>3, <1>4, <1>5

\* Every place is taken, by one latency.
LEMMA PlacesTaken ==
  ASSUME LatencyInv
  PROVE  /\ \A i, j \in DOMAIN latencies : Place(i) = Place(j) => i = j
         /\ \A k \in 1 .. Len(latencies) : \E i \in DOMAIN latencies : Place(i) = k
<1> DEFINE D == 1 .. Len(latencies)
<1> DEFINE f == [i \in D |-> Place(i)]
<1>1. D = DOMAIN latencies /\ Len(latencies) \in Nat
  BY LatencyFacts
<1>2. \A i \in D : Place(i) \in D
  BY <1>1, UpToFacts
<1>3. ASSUME NEW i \in D, NEW j \in D, Place(i) = Place(j) PROVE i = j
  <2>1. Place(i) <= Place(j) /\ Place(j) <= Place(i)
    BY <1>2, <1>3
  <2>2. i \in UpTo(j) /\ j \in UpTo(i)
    BY <1>1, <2>1, PlacesOrdered
  <2> QED BY <1>1, <2>2, UpToFacts
<1>4. IsFiniteSet(D)
  BY <1>1, FS_Interval
<1> HIDE DEF D
<1>5. f \in Injection(D, D)
  BY <1>2, <1>3 DEF Injection, IsInjective
<1>6. f \in Surjection(D, D)
  BY <1>4, <1>5, FS_Injection
<1>7. \A k \in D : \E i \in D : Place(i) = k
  BY <1>6 DEF Surjection
<1> QED BY <1>1, <1>3, <1>7 DEF D

\* sorted is the latencies in ascending order, each at its place.
LEMMA SortedIs ==
  ASSUME LatencyInv
  PROVE  /\ sorted \in Seq(Nat) /\ Len(sorted) = Len(latencies) /\ Ascending(sorted)
         /\ \A i \in DOMAIN latencies : sorted[Place(i)] = latencies[i]
         /\ \A k \in DOMAIN sorted :
              \E i \in DOMAIN latencies : Place(i) = k /\ sorted[k] = latencies[i]
<1> DEFINE n == Len(latencies)
<1> DEFINE at(k) == CHOOSE i \in DOMAIN latencies : Place(i) = k
<1>1. /\ n \in Nat /\ DOMAIN latencies = 1 .. n
      /\ \A i \in 1 .. n : latencies[i] \in Nat
  BY LatencyFacts
<1>2. \A k \in 1 .. n : at(k) \in 1 .. n /\ Place(at(k)) = k
  BY <1>1, PlacesTaken
<1>3. sorted = [k \in 1 .. n |-> latencies[at(k)]]
  BY <1>1 DEF sorted
<1> HIDE DEF n, at
<1>4. sorted \in Seq(Nat) /\ Len(sorted) = n /\ DOMAIN sorted = 1 .. n
  BY <1>1, <1>2, <1>3
<1>5. \A k \in 1 .. n : sorted[k] = latencies[at(k)]
  BY <1>3
<1>6. ASSUME NEW i \in 1 .. n PROVE sorted[Place(i)] = latencies[i]
  <2>1. Place(i) \in 1 .. n
    BY <1>1, UpToFacts DEF n
  <2>2. at(Place(i)) = i
    BY <1>1, <1>2, <2>1, PlacesTaken
  <2> QED BY <1>5, <2>1, <2>2
<1>7. ASSUME NEW k \in 1 .. n, NEW l \in 1 .. n, k <= l PROVE sorted[k] <= sorted[l]
  <2>1. at(k) \in UpTo(at(l))
    BY <1>1, <1>2, <1>7, PlacesOrdered
  <2>2. latencies[at(k)] <= latencies[at(l)]
    <3>1. at(k) \in 1 .. n /\ at(l) \in 1 .. n
      BY <1>2
    <3>2. latencies[at(k)] < latencies[at(l)] \/ latencies[at(k)] = latencies[at(l)]
      BY <2>1 DEF UpTo
    <3>3. latencies[at(k)] \in Nat /\ latencies[at(l)] \in Nat
      BY <1>1, <3>1
    <3> QED BY <3>2, <3>3
  <2> QED BY <1>5, <2>2
<1>8. Ascending(sorted)
  BY <1>4, <1>7 DEF Ascending
<1> QED BY <1>1, <1>2, <1>4, <1>5, <1>6, <1>8 DEF n

\* The sum of a sequence, one element more at a time.
LEMMA TotalIs ==
  ASSUME NEW s \in Seq(Nat)
  PROVE  \E f \in [0 .. Len(s) -> Nat] :
           /\ f[0] = 0
           /\ \A k \in 1 .. Len(s) : f[k] = f[k - 1] + s[k]
           /\ Total(s) = f[Len(s)]
<1> DEFINE n == Len(s)
<1> DEFINE Sums(m) == {f \in [0 .. m -> Nat] :
                         f[0] = 0 /\ \A k \in 1 .. m : f[k] = f[k - 1] + s[k]}
<1> DEFINE T == {m \in Nat : m <= n => Sums(m) # {}}
<1>1. n \in Nat /\ \A k \in 1 .. n : s[k] \in Nat
  OBVIOUS
<1> HIDE DEF n
<1>2. 0 \in T
  <2>1. [k \in 0 .. 0 |-> 0] \in Sums(0)
    OBVIOUS
  <2> QED BY <2>1
<1>3. ASSUME NEW m \in Nat, m \in T PROVE m + 1 \in T
  <2> SUFFICES ASSUME m + 1 <= n PROVE Sums(m + 1) # {}
    <3> HIDE DEF Sums
    <3> QED OBVIOUS
  <2>1. PICK f \in Sums(m) : TRUE
    BY <1>1, <1>3
  <2>2. /\ f \in [0 .. m -> Nat] /\ f[0] = 0
        /\ \A k \in 1 .. m : f[k] = f[k - 1] + s[k]
    BY <2>1
  <2> DEFINE g == [k \in 0 .. m + 1 |-> IF k <= m THEN f[k] ELSE f[m] + s[m + 1]]
  <2>3. s[m + 1] \in Nat /\ f[m] \in Nat
    BY <1>1, <2>2
  <2>4. g \in [0 .. m + 1 -> Nat] /\ g[0] = 0
    BY <2>2, <2>3
  <2>5. \A k \in 1 .. m + 1 : g[k] = g[k - 1] + s[k]
    <3> TAKE k \in 1 .. m + 1
    <3>1. k \in 0 .. m + 1 /\ k - 1 \in 0 .. m + 1 /\ k - 1 <= m
      OBVIOUS
    <3>2. CASE k <= m
      BY <2>2, <3>1, <3>2
    <3>3. CASE k = m + 1
      <4>1. k - 1 = m /\ ~(k <= m)
        BY <3>3
      <4> QED BY <3>1, <3>3, <4>1
    <3> QED BY <3>2, <3>3
  <2> HIDE DEF g
  <2>6. g \in Sums(m + 1)
    BY <2>4, <2>5
  <2> QED BY <2>6
<1>4. n \in T
  <2> HIDE DEF T
  <2>1. Nat \subseteq T
    BY <1>2, <1>3, NatSetInduction
  <2> QED BY <1>1, <2>1
<1>5. PICK f \in Sums(n) : TRUE
  BY <1>1, <1>4
<1>6. /\ f \in [0 .. n -> Nat] /\ f[0] = 0
      /\ \A k \in 1 .. n : f[k] = f[k - 1] + s[k]
  BY <1>5
<1> DEFINE Step(h) == [k \in 0 .. n |-> IF k = 0 THEN 0 ELSE h[k - 1] + s[k]]
<1> DEFINE h == CHOOSE h : h = Step(h)
<1>7. f = Step(f)
  <2>1. \A k \in 0 .. n : f[k] = IF k = 0 THEN 0 ELSE f[k - 1] + s[k]
    BY <1>1, <1>6
  <2> QED BY <1>6, <2>1
<1>8. h = Step(h)
  <2> HIDE DEF Step
  <2> QED BY <1>7
<1>9. Total(s) = h[n]
  BY DEF Total, n
<1>10. \A k \in 0 .. n : h[k] = IF k = 0 THEN 0 ELSE h[k - 1] + s[k]
  <2> HIDE DEF h
  <2> QED BY <1>8
<1> HIDE DEF h, Step
<1> DEFINE U == {m \in Nat : m <= n => h[m] = f[m]}
<1>11. 0 \in U
  BY <1>1, <1>6, <1>10
<1>12. ASSUME NEW m \in Nat, m \in U PROVE m + 1 \in U
  <2> SUFFICES ASSUME m + 1 <= n PROVE h[m + 1] = f[m + 1]
    OBVIOUS
  <2>1. m + 1 \in 0 .. n /\ m + 1 \in 1 .. n /\ m + 1 # 0 /\ (m + 1) - 1 = m /\ m <= n
    BY <1>1
  <2>2. h[m + 1] = h[m] + s[m + 1] /\ f[m + 1] = f[m] + s[m + 1]
    BY <1>6, <1>10, <2>1
  <2> QED BY <1>12, <2>1, <2>2
<1>13. h[n] = f[n]
  <2> HIDE DEF U
  <2>1. Nat \subseteq U
    BY <1>11, <1>12, NatSetInduction
  <2>2. n \in U
    BY <1>1, <2>1
  <2> QED BY <2>2 DEF U
<1> QED BY <1>6, <1>9, <1>13 DEF n

\* One number more, within the bounds.
LEMMA OneMore ==
  ASSUME NEW m \in Nat, NEW a \in Nat, NEW b \in Nat, NEW t \in Nat, NEW x \in Nat,
         m * a <= t, t <= m * b, a <= x, x <= b
  PROVE  (m + 1) * a <= t + x /\ t + x <= (m + 1) * b
<1>1. (m + 1) * a = m * a + a /\ (m + 1) * b = m * b + b
  OBVIOUS
<1>2. m * a \in Nat /\ m * b \in Nat
  OBVIOUS
<1>3. m * a + a <= t + x /\ t + x <= m * b + b
  BY <1>2
<1> QED BY <1>1, <1>3

\* A sum of n numbers is at least n times the least.
LEMMA TotalBounds ==
  ASSUME NEW s \in Sorted
  PROVE  /\ Total(s) \in Nat
         /\ Len(s) * s[1] <= Total(s) /\ Total(s) <= Len(s) * s[Len(s)]
<1> DEFINE n == Len(s)
           a == s[1]
           b == s[n]
<1>1. /\ s \in Seq(Nat) /\ n \in Nat \ {0} /\ a \in Nat /\ b \in Nat
      /\ \A k \in 1 .. n : s[k] \in Nat /\ a <= s[k] /\ s[k] <= b
  <2>1. s \in Seq(Nat) /\ s # <<>> /\ Ascending(s)
    BY DEF Sorted
  <2>2. n \in Nat \ {0} /\ DOMAIN s = 1 .. n /\ 1 \in 1 .. n /\ n \in 1 .. n
    BY <2>1
  <2>3. \A k \in 1 .. n : s[k] \in Nat /\ a <= s[k] /\ s[k] <= b
    BY <2>1, <2>2 DEF Ascending
  <2> QED BY <2>1, <2>2, <2>3
<1> HIDE DEF n, a, b
<1>2. PICK f \in [0 .. n -> Nat] :
        /\ f[0] = 0 /\ \A k \in 1 .. n : f[k] = f[k - 1] + s[k]
        /\ Total(s) = f[n]
  BY <1>1, TotalIs DEF n
<1> DEFINE W == {m \in Nat : m <= n => m * a <= f[m] /\ f[m] <= m * b}
<1>3. 0 \in W
  BY <1>1, <1>2
<1>4. ASSUME NEW m \in Nat, m \in W PROVE m + 1 \in W
  <2>1. CASE m + 1 <= n
    <3>1. m + 1 \in 1 .. n /\ (m + 1) - 1 = m /\ m <= n /\ m \in 0 .. n
      BY <1>1, <2>1
    <3>2. f[m + 1] = f[m] + s[m + 1] /\ f[m] \in Nat
      BY <1>2, <3>1
    <3>3. s[m + 1] \in Nat /\ a <= s[m + 1] /\ s[m + 1] <= b
      BY <1>1, <3>1
    <3>4. m * a <= f[m] /\ f[m] <= m * b
      BY <1>4, <3>1
    <3>5. (m + 1) * a <= f[m] + s[m + 1] /\ f[m] + s[m + 1] <= (m + 1) * b
      BY <1>1, <3>2, <3>3, <3>4, OneMore
    <3>6. (m + 1) * a <= f[m + 1] /\ f[m + 1] <= (m + 1) * b
      BY <3>2, <3>5
    <3> QED BY <3>6
  <2>2. CASE ~(m + 1 <= n)
    BY <2>2
  <2> QED BY <2>1, <2>2
<1>5. n \in W
  <2> HIDE DEF W
  <2>1. Nat \subseteq W
    BY <1>3, <1>4, NatSetInduction
  <2> QED BY <1>1, <2>1
<1>6. n * a <= f[n] /\ f[n] <= n * b /\ f[n] \in Nat
  BY <1>1, <1>2, <1>5
<1> QED BY <1>2, <1>6 DEF n, a, b

\* A mean, rounded down to a hundredth, is between the least and the greatest.
LEMMA MeanBounds ==
  ASSUME NEW a \in Nat, NEW b \in Nat, NEW t \in Nat, NEW n \in Nat \ {0},
         n * a <= t, t <= n * b
  PROVE  100 * a <= (100 * t) \div n /\ (100 * t) \div n <= 100 * b
<1> DEFINE q == (100 * t) \div n
           r == (100 * t) % n
<1>1. q \in Int /\ r \in 0 .. n - 1 /\ 100 * t = n * q + r
  BY DivMod
<1> HIDE DEF q, r
<1>2. n * (100 * a) = 100 * (n * a) /\ n * (100 * b) = 100 * (n * b)
  OBVIOUS
<1>3. n * a \in Nat /\ n * b \in Nat /\ n * q \in Int
  BY <1>1
<1>4. n * (100 * a) <= n * q + r /\ n * q + r <= n * (100 * b)
  BY <1>1, <1>2, <1>3
<1>5. 100 * a <= q
  <2> SUFFICES ASSUME 100 * a > q PROVE FALSE
    BY <1>1
  <2>1. n * (100 * a) >= n * q + n
    BY <1>1, MulGap
  <2>2. n * (100 * a) \in Int /\ n * q \in Int
    BY <1>1
  <2> QED BY <1>1, <1>4, <2>1, <2>2
<1>6. q <= 100 * b
  <2> SUFFICES ASSUME q > 100 * b PROVE FALSE
    BY <1>1
  <2>1. n * q >= n * (100 * b) + n
    BY <1>1, MulGap
  <2>2. n * (100 * b) \in Int /\ n * q \in Int
    BY <1>1
  <2> QED BY <1>1, <1>4, <2>1, <2>2
<1> QED BY <1>5, <1>6 DEF q

LEMMA StatsOrderedHolds == LatencyInv => StatsOrdered
<1> SUFFICES ASSUME LatencyInv, latencies # <<>>
             PROVE  /\ min_us <= mean_us /\ mean_us <= max_us
                    /\ min_us <= Percentile(sorted, 50)
                    /\ \A k \in 1 .. 3 :
                         Percentile(sorted, Pcts[k]) <= Percentile(sorted, Pcts[k + 1])
                    /\ Percentile(sorted, 99) <= max_us
  BY DEF StatsOrdered
<1> DEFINE s == sorted
           n == Len(latencies)
<1>1. s \in Sorted /\ Len(s) = n /\ n \in Nat \ {0}
  <2>1. s \in Seq(Nat) /\ Len(s) = n /\ Ascending(s)
    BY SortedIs
  <2>2. n \in Nat \ {0}
    BY DEF LatencyInv
  <2> HIDE DEF s
  <2>3. s # <<>>
    BY <2>1, <2>2
  <2> QED BY <2>1, <2>2, <2>3 DEF Sorted
<1>2. min_us = 100 * s[1] /\ max_us = 100 * s[n] /\ mean_us = (100 * Total(s)) \div n
  BY <1>1 DEF min_us, max_us, mean_us
<1> HIDE DEF s, n
<1>3. s[1] \in Nat /\ s[n] \in Nat
  <2>1. s \in Seq(Nat)
    BY <1>1 DEF Sorted
  <2> QED BY <1>1, <2>1
<1>4. 100 * s[1] <= (100 * Total(s)) \div n /\ (100 * Total(s)) \div n <= 100 * s[n]
  <2>1. Total(s) \in Nat /\ n * s[1] <= Total(s) /\ Total(s) <= n * s[n]
    BY <1>1, TotalBounds
  <2> DEFINE a == s[1]
             b == s[n]
             t == Total(s)
  <2>2. a \in Nat /\ b \in Nat /\ t \in Nat /\ n \in Nat \ {0} /\ n * a <= t /\ t <= n * b
    BY <1>1, <1>3, <2>1
  <2> HIDE DEF a, b, t
  <2>3. 100 * a <= (100 * t) \div n /\ (100 * t) \div n <= 100 * b
    BY <2>2, MeanBounds
  <2> QED BY <2>3 DEF a, b, t
<1>5. 100 * s[1] <= Percentile(s, 50) /\ Percentile(s, 99) <= 100 * s[n]
  <2>1. 50 \in 0 .. 100 /\ 99 \in 0 .. 100
    OBVIOUS
  <2> QED BY <1>1, <2>1, PercentileWithinSamples
<1>6. ASSUME NEW k \in 1 .. 3
      PROVE  Percentile(s, Pcts[k]) <= Percentile(s, Pcts[k + 1])
  <2>1. /\ Pcts[k] \in 0 .. 100 /\ Pcts[k + 1] \in 0 .. 100
        /\ Pcts[k] <= Pcts[k + 1]
    BY DEF Pcts
  <2> QED BY <1>1, <2>1, PercentileMonotone
<1> QED BY <1>2, <1>4, <1>5, <1>6 DEF s

\* Of any number of samples, whatever their order: the columns are in order.
THEOREM StatsAlwaysOrdered == StatsSpec => []StatsOrdered
BY InvariantLatencyInv, StatsOrderedHolds, PTL

\* Injections count: as many as 1 .. m, or no more.
LEMMA AtLeast ==
  ASSUME NEW X, IsFiniteSet(X), NEW m \in Nat, NEW f \in [1 .. m -> X],
         \A k, l \in 1 .. m : f[k] = f[l] => k = l
  PROVE  Cardinality(X) >= m
<1>1. f \in Injection(1 .. m, X)
  BY DEF Injection, IsInjective
<1>2. Cardinality(1 .. m) <= Cardinality(X) /\ Cardinality(1 .. m) = m
  BY <1>1, FS_Injection, FirstFinite
<1>3. Cardinality(X) \in Nat
  BY FS_CardinalityType
<1> QED BY <1>2, <1>3

LEMMA AtMost ==
  ASSUME NEW X, NEW m \in Nat, NEW f \in [X -> 1 .. m],
         \A i, j \in X : f[i] = f[j] => i = j
  PROVE  Cardinality(X) <= m
<1>1. f \in Injection(X, 1 .. m)
  BY DEF Injection, IsInjective
<1>2. IsFiniteSet(1 .. m) /\ Cardinality(1 .. m) = m
  BY FirstFinite
<1>3. Cardinality(X) <= Cardinality(1 .. m)
  BY <1>1, <1>2, FS_Injection
<1> QED BY <1>2, <1>3

\* The rank of a percentile in the sorted latencies is one among the latencies
\* as they came.
LEMMA RanksHold ==
  ASSUME LatencyInv, latencies # <<>>, NEW p \in 0 .. 100
  PROVE  LET v == Percentile(sorted, p)
             others == p * (Len(latencies) - 1)
         IN  /\ Cardinality(NoSlower(v)) >= others \div 100 + 1
             /\ Cardinality(Faster(v)) <= (others + 99) \div 100
<1> DEFINE s == sorted
           n == Len(latencies)
           v == Percentile(s, p)
           lo == Lo(s, p)
           hi == Hi(s, p)
           Below == {i \in DOMAIN latencies : 100 * latencies[i] <= v}
           Ahead == {i \in DOMAIN latencies : 100 * latencies[i] < v}
<1>1. /\ n \in Nat \ {0} /\ DOMAIN latencies = 1 .. n
      /\ \A i \in 1 .. n : latencies[i] \in Nat
  BY LatencyFacts DEF LatencyInv
<1>2. /\ s \in Seq(Nat) /\ Len(s) = n /\ Ascending(s)
      /\ DOMAIN s = 1 .. n /\ \A k \in 1 .. n : s[k] \in Nat
      /\ \A i \in 1 .. n : s[Place(i)] = latencies[i] /\ Place(i) \in 1 .. n
      /\ \A i, j \in 1 .. n : Place(i) = Place(j) => i = j
      /\ \A k \in 1 .. n : \E i \in 1 .. n : Place(i) = k /\ s[k] = latencies[i]
  <2>1. s \in Seq(Nat) /\ Len(s) = n /\ Ascending(s)
    BY SortedIs
  <2>2. DOMAIN s = 1 .. n /\ \A k \in 1 .. n : s[k] \in Nat
    BY <2>1
  <2> HIDE DEF n
  <2> QED BY <1>1, <2>1, <2>2, SortedIs, UpToFacts, PlacesTaken DEF n
<1>3. lo = (p * (n - 1)) \div 100 + 1 /\ hi = (p * (n - 1) + 99) \div 100 + 1
  BY <1>2 DEF Lo, Hi, Rank
<1> HIDE DEF s, n
<1>4. s # <<>> /\ s \in Sorted /\ DOMAIN s = 1 .. n /\ \A k \in 1 .. n : s[k] \in Nat
  <2>1. DOMAIN s = 1 .. n /\ \A k \in 1 .. n : s[k] \in Nat
    BY <1>2
  <2>2. s # <<>>
    <3>1. Len(s) # 0
      BY <1>1, <1>2
    <3>2. Len(<<>>) = 0
      OBVIOUS
    <3> QED BY <3>1, <3>2, Zenon
  <2> QED BY <1>2, <2>1, <2>2 DEF Sorted
<1>5. lo \in 1 .. n /\ hi \in 1 .. n
  BY <1>2, <1>4, PercentileInBounds
<1>6. v \in Nat /\ 100 * s[lo] <= v /\ v <= 100 * s[hi]
  BY <1>4, PercentileBetween
<1> HIDE DEF v, lo, hi
<1>7. Cardinality(Below) >= lo
  <2> DEFINE f == [k \in 1 .. lo |-> CHOOSE i \in 1 .. n : Place(i) = k /\ s[k] = latencies[i]]
  <2>1. \A k \in 1 .. lo : k \in 1 .. n
    BY <1>1, <1>5
  <2>2. \A k \in 1 .. lo : f[k] \in 1 .. n /\ Place(f[k]) = k /\ s[k] = latencies[f[k]]
    BY <1>2, <2>1
  <2> HIDE DEF f
  <2>3. ASSUME NEW k \in 1 .. lo PROVE 100 * latencies[f[k]] <= v
    <3>1. k \in 1 .. n /\ lo \in 1 .. n /\ k <= lo
      BY <1>5, <2>1
    <3>2. s[k] <= s[lo]
      BY <1>2, <1>4, <3>1 DEF Ascending
    <3>3. s[k] \in Nat /\ s[lo] \in Nat
      BY <1>4, <3>1
    <3>4. latencies[f[k]] = s[k]
      BY <2>2
    <3> QED BY <1>6, <3>2, <3>3, <3>4
  <2>4. f \in [1 .. lo -> Below]
    <3>1. \A k \in 1 .. lo : f[k] \in Below
      BY <1>1, <2>2, <2>3
    <3> QED BY <3>1 DEF f
  <2>5. \A k, l \in 1 .. lo : f[k] = f[l] => k = l
    BY <2>2
  <2>6. IsFiniteSet(Below)
    <3>1. Below \in SUBSET (1 .. n) /\ IsFiniteSet(1 .. n)
      BY <1>1, FirstFinite
    <3> QED BY <3>1, FS_Subset
  <2>7. lo \in Nat
    BY <1>5
  <2> HIDE DEF Below
  <2> QED BY <2>4, <2>5, <2>6, <2>7, AtLeast
<1>8. Cardinality(Ahead) <= hi - 1
  <2> DEFINE f == [i \in Ahead |-> Place(i)]
  <2>1. ASSUME NEW i \in Ahead PROVE i \in 1 .. n /\ Place(i) \in 1 .. hi - 1
    <3>1. i \in 1 .. n /\ 100 * latencies[i] < v /\ latencies[i] \in Nat
      BY <1>1
    <3>2. Place(i) \in 1 .. n /\ s[Place(i)] = latencies[i]
      BY <1>2, <3>1
    <3>3. ASSUME hi <= Place(i) PROVE FALSE
      <4>1. s[hi] <= latencies[i] /\ s[hi] \in Nat
        BY <1>2, <1>4, <1>5, <3>2, <3>3 DEF Ascending
      <4> QED BY <1>6, <3>1, <4>1
    <3> QED BY <1>5, <3>1, <3>2, <3>3
  <2> HIDE DEF Ahead
  <2>2. f \in [Ahead -> 1 .. hi - 1]
    BY <2>1
  <2>3. \A i, j \in Ahead : f[i] = f[j] => i = j
    BY <1>2, <2>1
  <2>4. hi - 1 \in Nat
    BY <1>5
  <2> HIDE DEF f
  <2> QED BY <2>2, <2>3, <2>4, AtMost
<1>9. (p * (n - 1)) \div 100 \in Int /\ (p * (n - 1) + 99) \div 100 \in Int
  BY <1>1
<1>10. lo = (p * (n - 1)) \div 100 + 1 /\ hi - 1 = (p * (n - 1) + 99) \div 100
  BY <1>3, <1>9
<1> QED BY <1>7, <1>8, <1>10 DEF Below, Ahead, NoSlower, Faster, v, s, n

\* Of any number of samples, whatever their order: at least pct% of the other
\* calls were no slower than the percentile, and at most pct% were faster.
THEOREM PercentileAlwaysRanks == StatsSpec => []PercentileRanks
<1>1. LatencyInv => PercentileRanks
  <2> SUFFICES ASSUME LatencyInv, latencies # <<>>, NEW k \in DOMAIN Pcts
               PROVE  LET v == Percentile(sorted, Pcts[k])
                          others == Pcts[k] * (Len(latencies) - 1)
                      IN  /\ Cardinality(NoSlower(v)) >= others \div 100 + 1
                          /\ Cardinality(Faster(v)) <= (others + 99) \div 100
    BY DEF PercentileRanks
  <2>1. Pcts[k] \in 0 .. 100
    <3>1. DOMAIN Pcts = 1 .. 4 /\ Pcts[1] = 50 /\ Pcts[2] = 90 /\ Pcts[3] = 95 /\ Pcts[4] = 99
      BY DEF Pcts
    <3>2. k = 1 \/ k = 2 \/ k = 3 \/ k = 4
      BY <3>1
    <3>3. CASE k = 1
      BY <3>1, <3>3
    <3>4. CASE k = 2
      BY <3>1, <3>4
    <3>5. CASE k = 3
      BY <3>1, <3>5
    <3>6. CASE k = 4
      BY <3>1, <3>6
    <3> QED BY <3>2, <3>3, <3>4, <3>5, <3>6
  <2> QED BY <2>1, RanksHold DEF NoSlower, Faster
<1> QED BY <1>1, InvariantLatencyInv, PTL
----------------------------------------------------------------------------
(* A value on its way.                                                     *)

\* An integer that json_to_value wraps.
Wrapped(n) == n.type = "unsigned" /\ n.of > MaxInt

\* What may be typed, and what CodecAssumption says of its rounding.
TypedRounds(t) ==
  /\ Typed(t)
  /\ t.type \in {"digits", "decimal"} => IsNearest(Nearest(Halves(t)), Halves(t))

\* v, a place of a Value, holds what n holds.
ValueThere(v, n) ==
  /\ \/ v.type = "int64_t" /\ v.of \in Int64
     \/ v.type = "float" /\ v.of \in Int /\ (v.of > 2 * MaxInt => LargeDouble(n))
     \/ v.type \in {"nil", "bool", "string", "nonfinite", "array"}
  /\ Wrapped(n) \/ SameThere(v, n)

\* o, a place of a msgpack object, does.
ObjectThere(o, n) ==
  /\ \/ o.type = "integer" /\ o.of \in -MaxInt - 1 .. UintMax /\ (o.of > MaxInt => LargeDouble(n))
     \/ o.type = "float" /\ o.of \in Int /\ (o.of > 2 * MaxInt => LargeDouble(n))
     \/ o.type \in {"nil", "bool", "string", "nonfinite", "array"}
  /\ Wrapped(n) \/ SameThere(o, n)

\* Whatever the argument has become, every place of it is there, and holds what
\* the argument holds there; what is too large for int64_t was large before.
CodecInv ==
  /\ DOMAIN now = DOMAIN arg
  /\ form = "json" => now = arg /\ \A p \in DOMAIN arg : ParsedJson(arg[p])
  /\ form = "text" => now = arg /\ \A p \in DOMAIN arg : TypedRounds(arg[p])
  /\ form \in {"Value", "result"} => \A p \in DOMAIN arg : ValueThere(now[p], arg[p])
  /\ form \in {"msgpack", "echoed"} => \A p \in DOMAIN arg : ObjectThere(now[p], arg[p])
  /\ form = "output" => \A p \in DOMAIN arg : Wrapped(arg[p]) \/ SameThere(now[p], arg[p])
  /\ SupportedAccepted

LEMMA AtFields ==
  ASSUME NEW type, NEW of
  PROVE  At(type, of).type = type /\ At(type, of).of = of
BY DEF At

LEMMA Sorts ==
  /\ \A t \in {"int", "unsigned", "int64_t", "integer", "float", "digits", "decimal"} :
       Sort(t) = "number"
  /\ Sort("bool") = "bool" /\ Sort("flag") = "bool"
  /\ \A t \in {"string", "word", "huge"} : Sort(t) = "string"
  /\ Sort("nil") = "nil" /\ Sort("array") = "array" /\ Sort("object") = "object"
  /\ Sort("nonfinite") = "nonfinite"
BY DEF Sort

\* What SameThere says of what was not rounded, and of what was.
LEMMA SameItself == ASSUME NEW n, ~ThroughDouble(n) PROVE SameThere(n, n)
BY DEF SameThere

LEMMA SameNumber ==
  ASSUME NEW v, NEW n, Sort(v.type) = "number", Sort(n.type) = "number"
  PROVE  SameThere(v, n) <=> IF ThroughDouble(n) THEN IsNearest(Halves(v), Halves(n))
                             ELSE Halves(v) = Halves(n)
BY DEF SameThere

\* It looks at no more of v than this.
LEMMA SameAs ==
  ASSUME NEW v, NEW w, NEW n, SameThere(v, n),
         Sort(v.type) = "number", Sort(w.type) = "number", Halves(v) = Halves(w)
  PROVE  SameThere(w, n)
<1>1. Sort(n.type) = "number"
  BY DEF SameThere
<1> QED BY <1>1, SameNumber

LEMMA JsonThere ==
  ASSUME NEW n, ParsedJson(n), n.type # "object"
  PROVE  ValueThere(ToInt64(n), n)
<1>1. ~ThroughDouble(n)
  BY DEF ParsedJson, ThroughDouble
<1>2. CASE n.type \in {"int", "unsigned"}
  <2>1. ToInt64(n).type = "int64_t" /\ ToInt64(n).of = Wrap(n.of)
    BY <1>2, AtFields DEF ToInt64, Int64Value
  <2>2. Wrap(n.of) \in Int64 /\ (Wrapped(n) \/ Wrap(n.of) = n.of)
    BY <1>2, CodecAssumption DEF ParsedJson, Wrap, Wrapped, Int64, UintMax
  <2>3. Sort(n.type) = "number" /\ Sort(ToInt64(n).type) = "number"
    BY <1>2, <2>1, Sorts
  <2>4. Wrap(n.of) = n.of => Halves(ToInt64(n)) = Halves(n)
    BY <1>2, <2>1 DEF Halves
  <2> QED BY <1>1, <2>1, <2>2, <2>3, <2>4, SameNumber DEF ValueThere
<1>3. CASE n.type \in {"nil", "bool", "string", "float", "array"}
  <2>1. ToInt64(n) = n
    BY <1>3 DEF ToInt64
  <2>2. n.type = "float" => n.of \in Int
    BY CodecAssumption DEF ParsedJson
  <2> QED BY <1>1, <1>3, <2>1, <2>2, SameItself DEF ValueThere, LargeDouble
<1> QED BY <1>2, <1>3 DEF ParsedJson

LEMMA TextThere ==
  ASSUME NEW t, TypedRounds(t)
  PROVE  ValueThere(TextValue(t), t)
<1>1. CASE t.type = "digits" /\ t.of \in Int64
  <2>0. ~ThroughDouble(t) /\ t.type # "nonfinite" /\ t.type # "flag"
    BY <1>1 DEF ThroughDouble
  <2>1. TextValue(t) = Int64Value(t.of)
    BY <1>1, <2>0 DEF TextValue
  <2>2. TextValue(t).type = "int64_t" /\ TextValue(t).of = t.of
    <3>1. Wrap(t.of) = t.of
      BY <1>1, CodecAssumption DEF Wrap, Int64
    <3> QED BY <2>1, <3>1, AtFields DEF Int64Value
  <2>3. Sort(t.type) = "number" /\ Sort(TextValue(t).type) = "number"
    BY <1>1, <2>2, Sorts
  <2>4. ~ThroughDouble(t) /\ Halves(TextValue(t)) = Halves(t)
    BY <1>1, <2>2 DEF ThroughDouble, Halves
  <2> QED BY <1>1, <2>2, <2>3, <2>4, SameNumber DEF ValueThere
<1>2. CASE ThroughDouble(t)
  <2>1. TextValue(t) = At("float", Nearest(Halves(t)))
    BY <1>2 DEF TextValue, ThroughDouble
  <2>2. TextValue(t).type = "float" /\ TextValue(t).of = Nearest(Halves(t))
    BY <2>1, AtFields
  <2>3. Sort(t.type) = "number" /\ Sort(TextValue(t).type) = "number"
    BY <1>2, <2>2, Sorts DEF ThroughDouble
  <2>4. IsNearest(Nearest(Halves(t)), Halves(t))
    BY <1>2 DEF TypedRounds, ThroughDouble
  <2>5. Nearest(Halves(t)) \in Int
    BY <2>4, CodecAssumption DEF IsNearest
  <2>6. SameThere(TextValue(t), t)
    <3>1. Halves(TextValue(t)) = Nearest(Halves(t))
      BY <2>2 DEF Halves
    <3> QED BY <1>2, <2>3, <2>4, <3>1, SameNumber
  <2>7. Nearest(Halves(t)) > 2 * MaxInt => LargeDouble(t)
    BY <1>2 DEF LargeDouble
  <2> QED BY <2>2, <2>5, <2>6, <2>7 DEF ValueThere
<1>3. CASE t.type = "nonfinite"
  <2>1. TextValue(t) = t
    BY <1>3 DEF TextValue, ThroughDouble
  <2>2. ~ThroughDouble(t)
    BY <1>3 DEF ThroughDouble
  <2> QED BY <1>3, <2>1, <2>2, SameItself DEF ValueThere
<1>4. CASE t.type \in {"huge", "word"}
  <2>1. TextValue(t) = At("string", t.of)
    BY <1>4 DEF TextValue, ThroughDouble
  <2>2. TextValue(t).type = "string" /\ TextValue(t).of = t.of
    BY <2>1, AtFields
  <2>3. Sort(t.type) = "string" /\ Sort("string") = "string"
    BY <1>4, Sorts
  <2> QED BY <2>2, <2>3 DEF ValueThere, SameThere
<1>5. CASE t.type = "flag"
  <2>1. TextValue(t) = At("bool", t.of)
    BY <1>5 DEF TextValue, ThroughDouble
  <2>2. TextValue(t).type = "bool" /\ TextValue(t).of = t.of
    BY <2>1, AtFields
  <2>3. Sort("flag") = "bool" /\ Sort("bool") = "bool"
    BY Sorts
  <2> QED BY <1>5, <2>2, <2>3 DEF ValueThere, SameThere
<1> QED BY <1>1, <1>2, <1>3, <1>4, <1>5 DEF TypedRounds, Typed, ThroughDouble

LEMMA HalfParts ==
  ASSUME NEW a \in Int
  PROVE  a = 2 * (a \div 2) + (a % 2) /\ a \div 2 \in Int
OBVIOUS

LEMMA PackedThere ==
  ASSUME NEW v, NEW n, NEW shrink, ValueThere(v, n)
  PROVE  ObjectThere(Object(v, shrink), n)
<1> DEFINE o == Object(v, shrink)
<1>1. CASE v.type = "int64_t"
  <2>1. o.type = "integer" /\ o.of = v.of
    BY <1>1, AtFields DEF Object
  <2>2. v.of \in -MaxInt - 1 .. UintMax /\ ~(v.of > MaxInt)
    BY <1>1, CodecAssumption DEF ValueThere, Int64, UintMax
  <2>3. SameThere(v, n) => SameThere(o, n)
    <3>1. Sort(o.type) = "number" /\ Sort(v.type) = "number" /\ Halves(o) = Halves(v)
      BY <1>1, <2>1, Sorts DEF Halves
    <3> QED BY <3>1, SameAs
  <2> HIDE DEF o
  <2> QED BY <2>1, <2>2, <2>3 DEF ObjectThere, ValueThere, o
<1>2. CASE v.type = "float" /\ shrink /\ Whole(v)
  <2>1. o.type = "integer" /\ o.of = v.of \div 2
    BY <1>2, AtFields DEF Object
  <2>2. v.of \in Int /\ 2 * (v.of \div 2) = v.of /\ v.of \div 2 \in -MaxInt - 1 .. UintMax
    <3>1. v.of \in Int /\ v.of % 2 = 0
      BY <1>2 DEF ValueThere, Whole
    <3>2. v.of = 2 * (v.of \div 2) + (v.of % 2) /\ v.of \div 2 \in Int
      BY <3>1, HalfParts
    <3> QED BY <1>2, <3>1, <3>2 DEF Whole
  <2>3. v.of \div 2 > MaxInt => LargeDouble(n)
    <3>1. v.of \div 2 > MaxInt => v.of > 2 * MaxInt
      BY <2>2, CodecAssumption
    <3> QED BY <1>2, <3>1 DEF ValueThere
  <2>4. SameThere(v, n) => SameThere(o, n)
    <3>1. Sort(o.type) = "number" /\ Sort(v.type) = "number"
      BY <1>2, <2>1, Sorts
    <3>2. Halves(o) = Halves(v)
      BY <1>2, <2>1, <2>2 DEF Halves
    <3> QED BY <3>1, <3>2, SameAs
  <2> HIDE DEF o
  <2> QED BY <2>1, <2>2, <2>3, <2>4 DEF ObjectThere, ValueThere, o
<1>3. CASE v.type # "int64_t" /\ ~(shrink /\ Whole(v))
  <2>1. o = v
    BY <1>3 DEF Object
  <2> QED BY <1>3, <2>1 DEF ObjectThere, ValueThere
<1> QED BY <1>1, <1>2, <1>3 DEF Whole

LEMMA ResultThere ==
  ASSUME NEW o, NEW n, ObjectThere(o, n), ~TooBig(o)
  PROVE  ValueThere(ToInt64(o), n)
<1>1. CASE o.type = "integer"
  <2>1. o.of \in Int64 /\ Wrap(o.of) = o.of
    BY <1>1, CodecAssumption DEF ObjectThere, TooBig, Int64, UintMax, Wrap
  <2>2. ToInt64(o).type = "int64_t" /\ ToInt64(o).of = o.of
    BY <1>1, <2>1, AtFields DEF ToInt64, Int64Value
  <2>3. SameThere(o, n) => SameThere(ToInt64(o), n)
    <3>1. /\ Sort(o.type) = "number" /\ Sort(ToInt64(o).type) = "number"
          /\ Halves(ToInt64(o)) = Halves(o)
      BY <1>1, <2>2, Sorts DEF Halves
    <3> QED BY <3>1, SameAs
  <2> QED BY <2>1, <2>2, <2>3 DEF ObjectThere, ValueThere
<1>2. CASE o.type # "integer"
  <2>1. ToInt64(o) = o
    BY <1>2 DEF ObjectThere, ToInt64
  <2> QED BY <1>2, <2>1 DEF ObjectThere, ValueThere
<1> QED BY <1>1, <1>2

\* A place of the JSON that value_to_json makes.
IntThere(v) == IF v.type = "int64_t" THEN At("int", v.of) ELSE v

LEMMA OutputThere ==
  ASSUME NEW v, NEW n, SameThere(v, n)
  PROVE  SameThere(IntThere(v), n)
<1>1. CASE v.type = "int64_t"
  <2>1. IntThere(v).type = "int" /\ IntThere(v).of = v.of
    BY <1>1, AtFields DEF IntThere
  <2>2. /\ Sort(IntThere(v).type) = "number" /\ Sort(v.type) = "number"
        /\ Halves(IntThere(v)) = Halves(v)
    BY <1>1, <2>1, Sorts DEF Halves
  <2> QED BY <2>2, SameAs
<1>2. CASE v.type # "int64_t"
  BY <1>2 DEF IntThere
<1> QED BY <1>1, <1>2

LEMMA CodecInit == Init => CodecInv
<1> SUFFICES ASSUME Init PROVE CodecInv
  OBVIOUS
<1>1. now = arg /\ form \in {"json", "text"}
  BY DEF Init
<1>2. form = "json" => \A p \in DOMAIN arg : ParsedJson(arg[p])
  BY CodecAssumption DEF Init
<1>3. form = "text" => \A p \in DOMAIN arg : TypedRounds(arg[p])
  <2> SUFFICES ASSUME form = "text", NEW p \in DOMAIN arg PROVE TypedRounds(arg[p])
    OBVIOUS
  <2>1. PICK t \in Texts : arg = [q \in {<<>>} |-> t]
    BY DEF Init
  <2> QED BY <2>1, CodecAssumption DEF TypedRounds
<1> QED BY <1>1, <1>2, <1>3 DEF CodecInv, SupportedAccepted

LEMMA CodecNext == CodecInv /\ [Next]_vars => CodecInv'
<1> SUFFICES ASSUME CodecInv, [Next]_vars PROVE CodecInv'
  OBVIOUS
<1>1. CASE JsonToValue /\ \E p \in DOMAIN now : now[p].type = "object"
  <2>1. form = "json" /\ form' = "rejected" /\ now' = now /\ arg' = arg /\ now = arg
    BY <1>1 DEF JsonToValue, CodecInv
  <2>2. SupportedAccepted'
    BY <1>1, <2>1 DEF SupportedAccepted
  <2> QED BY <2>1, <2>2 DEF CodecInv
<1>2. CASE JsonToValue /\ ~\E p \in DOMAIN now : now[p].type = "object"
  <2>1. /\ form = "json" /\ form' = "Value" /\ arg' = arg /\ now = arg
        /\ now' = [p \in DOMAIN arg |-> ToInt64(arg[p])]
        /\ \A p \in DOMAIN arg : ParsedJson(arg[p])
    BY <1>2 DEF JsonToValue, JsonValue, CodecInv
  <2>2. ASSUME NEW p \in DOMAIN arg PROVE ValueThere(ToInt64(arg[p]), arg[p])
    BY <1>2, <2>1, JsonThere
  <2>3. \A p \in DOMAIN arg' : ValueThere(now'[p], arg'[p])
    BY <2>1, <2>2
  <2> QED BY <2>1, <2>3 DEF CodecInv, SupportedAccepted
<1>3. CASE ParseText
  <2>1. /\ form = "text" /\ form' = "Value" /\ arg' = arg
        /\ now' = [p \in DOMAIN arg |-> TextValue(arg[p])]
        /\ \A p \in DOMAIN arg : TypedRounds(arg[p])
    BY <1>3 DEF ParseText, CodecInv
  <2>2. \A p \in DOMAIN arg' : ValueThere(now'[p], arg'[p])
    BY <2>1, TextThere
  <2> QED BY <2>1, <2>2 DEF CodecInv, SupportedAccepted
<1>4. CASE PackValue
  <2>1. PICK shrink \in BOOLEAN : now' = [p \in DOMAIN now |-> Object(now[p], shrink)]
    BY <1>4 DEF PackValue
  <2>2. /\ form = "Value" /\ form' = "msgpack" /\ arg' = arg /\ DOMAIN now = DOMAIN arg
        /\ \A p \in DOMAIN arg : ValueThere(now[p], arg[p])
    BY <1>4 DEF PackValue, CodecInv
  <2>3. \A p \in DOMAIN arg' : ObjectThere(now'[p], arg'[p])
    BY <2>1, <2>2, PackedThere
  <2> QED BY <2>1, <2>2, <2>3 DEF CodecInv, SupportedAccepted
<1>5. CASE Echo
  BY <1>5 DEF Echo, CodecInv, SupportedAccepted
<1>6. CASE ObjectToValue /\ \E p \in DOMAIN now : TooBig(now[p])
  <2>1. /\ form = "echoed" /\ form' = "rejected" /\ now' = now /\ arg' = arg
        /\ DOMAIN now = DOMAIN arg
        /\ \A p \in DOMAIN arg : ObjectThere(now[p], arg[p])
    BY <1>6 DEF ObjectToValue, CodecInv
  <2>2. \E p \in DOMAIN arg : LargeDouble(arg[p])
    BY <1>6, <2>1 DEF TooBig, ObjectThere
  <2>3. SupportedAccepted'
    BY <2>1, <2>2 DEF SupportedAccepted
  <2> QED BY <2>1, <2>3 DEF CodecInv
<1>7. CASE ObjectToValue /\ ~\E p \in DOMAIN now : TooBig(now[p])
  <2>1. /\ form = "echoed" /\ form' = "result" /\ arg' = arg /\ DOMAIN now = DOMAIN arg
        /\ now' = [p \in DOMAIN now |-> ToInt64(now[p])]
        /\ \A p \in DOMAIN arg : ObjectThere(now[p], arg[p])
    BY <1>7 DEF ObjectToValue, ObjectValue, CodecInv
  <2>2. \A p \in DOMAIN arg' : ValueThere(now'[p], arg'[p])
    BY <1>7, <2>1, ResultThere
  <2> QED BY <2>1, <2>2 DEF CodecInv, SupportedAccepted
<1>8. CASE ValueToJson
  <2>1. /\ form = "result" /\ form' = "output" /\ arg' = arg /\ DOMAIN now = DOMAIN arg
        /\ now' = [p \in DOMAIN now |-> IntThere(now[p])]
        /\ \A p \in DOMAIN arg : ValueThere(now[p], arg[p])
    BY <1>8 DEF ValueToJson, ValueJson, IntThere, CodecInv
  <2>2. \A p \in DOMAIN arg' : Wrapped(arg'[p]) \/ SameThere(now'[p], arg'[p])
    BY <2>1, OutputThere DEF ValueThere
  <2> QED BY <2>1, <2>2 DEF CodecInv, SupportedAccepted
<1>9. CASE UNCHANGED vars
  BY <1>9 DEF vars, CodecInv, SupportedAccepted
<1> QED BY <1>1, <1>2, <1>3, <1>4, <1>5, <1>6, <1>7, <1>8, <1>9 DEF Next

LEMMA InvariantCodecInv == Spec => []CodecInv
BY CodecInit, CodecNext, PTL DEF Spec

LEMMA CodecInvEchoed == CodecInv => EchoedUnchanged
<1> SUFFICES ASSUME CodecInv, form \in {"result", "output"}, ~OutOfRange
             PROVE  Same(now, arg)
  BY DEF EchoedUnchanged
<1>1. \A p \in DOMAIN arg : ~Wrapped(arg[p])
  BY DEF OutOfRange, Wrapped
<1>2. DOMAIN now = DOMAIN arg
  BY DEF CodecInv
<1>3. \A p \in DOMAIN arg : SameThere(now[p], arg[p])
  BY <1>1 DEF CodecInv, ValueThere
<1> QED BY <1>2, <1>3 DEF Same

\* Of any argument, however deep its arrays, for any width of the integers, any
\* doubles and any rounding to a nearest of them: what an echo returns is what
\* was sent, unless an integer of it was wrapped; but of a number typed as no
\* int64_t, what stod() made of it, no double being nearer to what was typed.
THEOREM EchoAlwaysUnchanged == Spec => []EchoedUnchanged
BY InvariantCodecInv, CodecInvEchoed, PTL

\* And nothing an argument may be is rejected on the way there or back, but a
\* double that came back as an integer too large for int64_t.
THEOREM SupportedAlwaysAccepted == Spec => []SupportedAccepted
<1>1. CodecInv => SupportedAccepted
  BY DEF CodecInv
<1> QED BY <1>1, InvariantCodecInv, PTL
============================================================================
