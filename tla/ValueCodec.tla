----------------------------- MODULE ValueCodec -----------------------------
(***************************************************************************)
(* One argument on its way through src/rpc.cpp: from the JSON of a message *)
(* (json_to_value), or the command line of qrpc_call (src/rpc_call.cpp),   *)
(* to a Value, to msgpack (pack_value), to a method that returns what it   *)
(* was given, back to a Value (object_to_value), which qrpc_call prints,   *)
(* and to JSON (value_to_json).  Floats are counted in halves, and only    *)
(* some numbers are floats; a string is a number that stands for it.       *)
(*                                                                         *)
(* In each form it is a function: from the places in it, <<>> its own and  *)
(* p \o <<k>> that of the k-th item of the array at p, to what is there, a *)
(* scalar or an array of so many items.  The conversions go through the    *)
(* items of an array in order and make an array of as many, so each of     *)
(* them is what it does at a place.                                        *)
(***************************************************************************)
EXTENDS Integers, Sequences, SequencesExt

CONSTANTS
  MaxInt,          \* the greatest int64_t
  Doubles,         \* the numbers a double holds, in halves
  Nearest(_),      \* what a number is rounded to, both in halves
  Args,            \* arguments in JSON
  Texts            \* what may be typed for an argument

Int64 == -MaxInt - 1 .. MaxInt
UintMax == 2 * MaxInt + 1

At(type, of) == [type |-> type, of |-> of]

\* What the parser of nlohmann::json leaves at a place.  A number without a
\* sign is unsigned.
ParsedJson(n) ==
  /\ n = At(n.type, n.of)
  /\ \/ n.type \in {"nil", "bool", "string", "object"}
     \/ n.type = "int" /\ n.of \in Int64
     \/ n.type = "unsigned" /\ n.of \in 0 .. UintMax
     \/ n.type = "float" /\ n.of \in Doubles
     \/ n.type = "array" /\ n.of \in Nat

\* Digits and a sign, in the range of int64_t or not; a decimal, an exponent or
\* a hexadecimal number; inf or nan; a number too large or too small for any
\* double; true, on, false or off; anything else.
Typed(t) ==
  /\ t = At(t.type, t.of)
  /\ \/ t.type \in {"digits", "decimal"} /\ t.of \in Int
     \/ t.type \in {"nonfinite", "huge", "flag", "word"}

\* A number, in halves.
Halves(n) == IF n.type \in {"float", "decimal"} THEN n.of ELSE 2 * n.of

Distance(a, b) == IF a < b THEN b - a ELSE a - b

\* No double is nearer to n than d is.
IsNearest(d, n) == d \in Doubles /\ \A e \in Doubles : Distance(d, n) <= Distance(e, n)

\* Every item of an array, and nothing else, is at a place in it.
Places(j) ==
  /\ <<>> \in DOMAIN j
  /\ \A p \in DOMAIN j :
       /\ p # <<>> => /\ Front(p) \in DOMAIN j /\ j[Front(p)].type = "array"
                      /\ Last(p) \in 1 .. j[Front(p)].of
       /\ j[p].type = "array" => \A k \in 1 .. j[p].of : Append(p, k) \in DOMAIN j

ASSUME CodecAssumption ==
  /\ MaxInt \in Nat
  /\ Doubles \subseteq Int
  /\ \A j \in Args : Places(j) /\ \A p \in DOMAIN j : ParsedJson(j[p])
  /\ \A t \in Texts :
       /\ Typed(t)
       /\ t.type \in {"digits", "decimal"} => IsNearest(Nearest(Halves(t)), Halves(t))

VARIABLES
  arg,             \* the argument (history)
  form,            \* what it has become: "text" or "json", "Value", "msgpack",
                   \* "echoed", "result", "output", or "rejected" by an exception
  now              \* the argument, in that form

vars == <<arg, form, now>>

Init ==
  /\ \/ arg \in Args /\ form = "json"
     \/ arg \in {[p \in {<<>>} |-> t] : t \in Texts} /\ form = "text"
  /\ now = arg
----------------------------------------------------------------------------
\* get<int64_t>() of what was parsed as unsigned.
Wrap(n) == IF n > MaxInt THEN n - (UintMax + 1) ELSE n

Int64Value(n) == At("int64_t", Wrap(n))

\* What is there as a Value: integers are int64_t, the rest is kept.
ToInt64(n) == IF n.type \in {"int", "unsigned", "integer"} THEN Int64Value(n.of) ELSE n

\* Mutant: an array in an array comes out empty.
JsonValueShallow(j) ==
  [p \in {q \in DOMAIN j : Len(q) < 2} |->
     IF Len(p) = 1 /\ j[p].type = "array" THEN At("array", 0) ELSE ToInt64(j[p])]

\* What json_to_value makes of a value it takes.  is_number_integer() holds of
\* unsigned numbers too: the branch that would test their range is not reached.
JsonValue(j) == [p \in DOMAIN j |-> ToInt64(j[p])]

JsonToValue ==
  /\ form = "json"
  /\ IF \E p \in DOMAIN now : now[p].type = "object"
     THEN form' = "rejected" /\ UNCHANGED now
     ELSE form' = "Value" /\ now' = JsonValue(now)
  /\ UNCHANGED arg

\* stoll() does not take it: it has more than digits, or is out of range.
ThroughDouble(t) == t.type = "decimal" \/ (t.type = "digits" /\ t.of \notin Int64)

\* stoll() of the whole text, else stod() of the whole text, which rounds, else
\* a bool or a string.  Either throws on a number out of its range.
TextValue(t) ==
  CASE t.type = "digits" /\ t.of \in Int64 -> Int64Value(t.of)
    [] ThroughDouble(t) -> At("float", Nearest(Halves(t)))
    [] t.type = "nonfinite" -> t
    [] t.type = "flag" -> At("bool", t.of)
    [] OTHER -> At("string", t.of)

ParseText ==
  /\ form = "text"
  /\ form' = "Value"
  /\ now' = [p \in DOMAIN now |-> TextValue(now[p])]
  /\ UNCHANGED arg

\* A float with no fraction may be sent as an integer, in 64 bits with or
\* without sign.
Whole(v) == v.type = "float" /\ v.of % 2 = 0 /\ v.of \div 2 \in -MaxInt - 1 .. UintMax

Object(v, shrink) ==
  IF v.type = "int64_t" THEN At("integer", v.of)
  ELSE IF shrink /\ Whole(v) THEN At("integer", v.of \div 2)
  ELSE v

PackValue ==
  /\ form = "Value"
  /\ form' = "msgpack"
  /\ \E shrink \in BOOLEAN : now' = [p \in DOMAIN now |-> Object(now[p], shrink)]
  /\ UNCHANGED arg

Echo ==
  /\ form = "msgpack"
  /\ form' = "echoed"
  /\ UNCHANGED <<arg, now>>

\* Mutant: the largest int64_t is rejected too.
TooBigOrMax(o) == o.type = "integer" /\ o.of >= MaxInt

TooBig(o) == o.type = "integer" /\ o.of > MaxInt

ObjectValue(o) == [p \in DOMAIN o |-> ToInt64(o[p])]

ObjectToValue ==
  /\ form = "echoed"
  /\ IF \E p \in DOMAIN now : TooBig(now[p])
     THEN form' = "rejected" /\ UNCHANGED now
     ELSE form' = "result" /\ now' = ObjectValue(now)
  /\ UNCHANGED arg

ValueJson(v) ==
  [p \in DOMAIN v |-> IF v[p].type = "int64_t" THEN At("int", v[p].of) ELSE v[p]]

ValueToJson ==
  /\ form = "result"
  /\ form' = "output"
  /\ now' = ValueJson(now)
  /\ UNCHANGED arg

Next == JsonToValue \/ ParseText \/ PackValue \/ Echo \/ ObjectToValue \/ ValueToJson

Spec == Init /\ [][Next]_vars
----------------------------------------------------------------------------
(* Properties.                                                             *)

\* What a value is, whatever carries it.
Sort(type) ==
  CASE type \in {"int", "unsigned", "int64_t", "integer", "float", "digits", "decimal"} ->
         "number"
    [] type \in {"bool", "flag"} -> "bool"
    [] type \in {"string", "word", "huge"} -> "string"
    [] OTHER -> type

\* What n was is v now: the same number, but the double nearest to one that was
\* typed as no int64_t.
SameThere(v, n) ==
  /\ Sort(v.type) = Sort(n.type)
  /\ CASE Sort(n.type) # "number" -> v.of = n.of
       [] Sort(n.type) = "number" /\ ThroughDouble(n) -> IsNearest(Halves(v), Halves(n))
       [] OTHER -> Halves(v) = Halves(n)

\* The same values at the same places of the same arrays.
Same(j, k) == DOMAIN j = DOMAIN k /\ \A p \in DOMAIN j : SameThere(j[p], k[p])

OutOfRange == \E p \in DOMAIN arg : arg[p].type = "unsigned" /\ arg[p].of > MaxInt

\* What comes back is what was sent, nothing flattened, reordered or altered,
\* but for integers above int64_t in JSON, which json_to_value wraps.  Of what
\* was typed, an int64_t comes back as it is; another number is altered once,
\* by stod(): the double nearest to it is what comes back.
EchoedUnchanged == form \in {"result", "output"} /\ ~OutOfRange => Same(now, arg)

\* A number that is above int64_t as a double.
LargeDouble(n) ==
  \/ n.type = "float" /\ n.of > 2 * MaxInt
  \/ ThroughDouble(n) /\ Nearest(Halves(n)) > 2 * MaxInt

\* Nothing the README lists as an argument type is rejected on the way there or
\* back.  A double too large for int64_t may be: it may come back as an integer.
SupportedAccepted ==
  form = "rejected" =>
    \E p \in DOMAIN arg : arg[p].type = "object" \/ LargeDouble(arg[p])

\* "$.parameters contains unsigned integer out of int64_t range": an argument
\* an int64_t cannot hold is not sent as another number.
RangeChecked == form = "msgpack" => ~OutOfRange
=============================================================================
