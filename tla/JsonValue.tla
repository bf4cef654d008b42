----------------------------- MODULE JsonValue -----------------------------
(***************************************************************************)
(* The values of jsoncpp (json_value.cc) that requests, replies and the    *)
(* config file are made of: the questions asked about their type, their    *)
(* conversions, and the order of keys.  A number is its value, a real one  *)
(* twice its value (so that there are fractions), a string is the sequence *)
(* of its bytes, and the widths of the integers are constants.             *)
(***************************************************************************)
EXTENDS Integers, Sequences, FiniteSets

CONSTANTS
  MaxInt, MaxUInt,                 \* the largest Int and UInt
  MaxInt64, MaxUInt64,             \* the largest Int64 and UInt64
  Throws, Wild                     \* what a conversion gives instead of a value

ASSUME WidthsAssumption ==
  /\ {MaxInt, MaxUInt, MaxInt64, MaxUInt64} \subseteq Nat
  /\ MaxInt < MaxUInt /\ MaxUInt < MaxInt64 /\ MaxInt64 < MaxUInt64

\* What is given instead of a value is none.
ASSUME NoValueAssumption ==
  /\ Throws # Wild
  /\ \A x \in {Throws, Wild} : x \notin Int /\ x \notin BOOLEAN /\ x # << >>

MinInt   == -MaxInt - 1
MinInt64 == -MaxInt64 - 1

Null       == [type |-> "null"]
Number(t, n) == [type |-> t, n |-> n]
Bool(b)    == [type |-> "boolean", b |-> b]
String(s)  == [type |-> "string", s |-> s]
Array(a)   == [type |-> "array", a |-> a]
Object(o)  == [type |-> "object", o |-> o]   \* keys to values

\* The scalars, of which the numbers have the width of their type.
IsScalar(v) ==
  \/ v = Null
  \/ v \in [type : {"int"}, n : MinInt64..MaxInt64]
  \/ v \in [type : {"uint"}, n : 0..MaxUInt64]
  \/ v \in [type : {"real"}, n : Int]
  \/ v \in [type : {"boolean"}, b : BOOLEAN]
  \/ v.type = "string" /\ v.s # Throws

-----------------------------------------------------------------------------
(* Numbers.  A double cannot hold the largest integers of 64 bits: they    *)
(* are rounded up.                                                         *)

Double(i) == 2 * (IF i \in {MaxInt64, MaxUInt64} THEN i + 1 ELSE i)
InRange(d, lo, hi) == Double(lo) <= d /\ d <= Double(hi)
IsIntegral(d) == d % 2 = 0
Truncated(d) == IF d >= 0 THEN d \div 2 ELSE -((-d) \div 2)

isNumeric(v) == v.type \in {"int", "uint", "real"}

isInt(v) ==
  CASE v.type = "int"  -> MinInt <= v.n /\ v.n <= MaxInt
    [] v.type = "uint" -> v.n <= MaxInt
    [] v.type = "real" -> InRange(v.n, MinInt, MaxInt) /\ IsIntegral(v.n)
    [] OTHER -> FALSE

isUInt(v) ==
  CASE v.type = "int"  -> 0 <= v.n /\ v.n <= MaxUInt
    [] v.type = "uint" -> v.n <= MaxUInt
    [] v.type = "real" -> InRange(v.n, 0, MaxUInt) /\ IsIntegral(v.n)
    [] OTHER -> FALSE

isInt64(v) ==
  CASE v.type = "int"  -> TRUE
    [] v.type = "uint" -> v.n <= MaxInt64
    [] v.type = "real" -> /\ Double(MinInt64) <= v.n /\ v.n < Double(MaxInt64)
                          /\ IsIntegral(v.n)
    [] OTHER -> FALSE

isUInt64(v) ==
  CASE v.type = "int"  -> v.n >= 0
    [] v.type = "uint" -> TRUE
    [] v.type = "real" -> 0 <= v.n /\ v.n < Double(MaxUInt64) /\ IsIntegral(v.n)
    [] OTHER -> FALSE

-----------------------------------------------------------------------------
(* Conversions: what they give, and whether they throw instead.  Wild is   *)
(* the undefined conversion of a double to an integer that cannot hold it. *)

Integer(v, allowed, lo, hi) ==
  CASE v.type \in {"int", "uint"} -> IF allowed THEN v.n ELSE Throws
    [] v.type = "real" ->
         IF ~InRange(v.n, lo, hi) THEN Throws
         ELSE IF Truncated(v.n) > hi THEN Wild ELSE Truncated(v.n)
    [] v.type = "null" -> 0
    [] v.type = "boolean" -> IF v.b THEN 1 ELSE 0
    [] OTHER -> Throws

\* Seeded fault: the range of Int is tested for UInt.
asUIntAsInt(v) == Integer(v, isInt(v), 0, MaxUInt)

asInt(v)  == Integer(v, isInt(v), MinInt, MaxInt)
asUInt(v) == Integer(v, isUInt(v), 0, MaxUInt)
asInt64(v) == Integer(v, isInt64(v), MinInt64, MaxInt64)
asUInt64(v) == Integer(v, isUInt64(v), 0, MaxUInt64)

asBool(v) ==
  CASE isNumeric(v) -> v.n # 0
    [] v.type = "boolean" -> v.b
    [] v.type = "null" -> FALSE
    [] OTHER -> Throws

\* A number or a truth value becomes its text.
TextOf(v) == <<"the text of", v>>

asString(v) ==
  CASE v.type = "null" -> << >>
    [] v.type = "string" -> v.s
    [] isNumeric(v) \/ v.type = "boolean" -> TextOf(v)
    [] OTHER -> Throws

isConvertibleTo(v, type) ==
  CASE type = "null" ->
         \/ isNumeric(v) /\ v.n = 0
         \/ v.type = "boolean" /\ ~v.b
         \/ v.type = "string" /\ v.s = << >>
         \/ v.type = "array" /\ v.a = << >>
         \/ v.type = "object" /\ DOMAIN v.o = {}
         \/ v.type = "null"
    [] type = "int" -> \/ isInt(v) \/ v.type \in {"boolean", "null"}
                       \/ v.type = "real" /\ InRange(v.n, MinInt, MaxInt)
    [] type = "uint" -> \/ isUInt(v) \/ v.type \in {"boolean", "null"}
                        \/ v.type = "real" /\ InRange(v.n, 0, MaxUInt)
    [] type \in {"real", "boolean"} ->
         isNumeric(v) \/ v.type \in {"boolean", "null"}
    [] type = "string" -> isNumeric(v) \/ v.type \in {"boolean", "string", "null"}
    [] OTHER -> v.type \in {type, "null"}

size(v) ==
  CASE v.type = "array" -> Len(v.a)
    [] v.type = "object" -> Cardinality(DOMAIN v.o)
    [] OTHER -> 0

-----------------------------------------------------------------------------
(* Order.                                                                  *)

\* CZString::operator<, and that of strings: memcmp, then the length.
CZStringLess(s, t) ==
  \/ \E i \in 1..Len(s) : /\ i <= Len(t) /\ s[i] < t[i]
                          /\ \A j \in 1..(i - 1) : s[j] = t[j]
  \/ Len(s) < Len(t) /\ \A j \in 1..Len(s) : s[j] = t[j]

\* The members of an object in the order of std::map.
InOrder(o) ==
  [i \in 1..Cardinality(DOMAIN o) |->
     CHOOSE k \in DOMAIN o :
       Cardinality({j \in DOMAIN o : CZStringLess(j, k)}) = i - 1]

=============================================================================
