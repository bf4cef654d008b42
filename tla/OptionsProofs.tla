--------------------------- MODULE OptionsProofs ---------------------------
(***************************************************************************)
(* Proofs about Options, for any functions of RocksDB, any config file and *)
(* any widths of the integers: who sets an option last, what keeps the     *)
(* service from starting, and what the conversions of the values give.     *)
(* Then about the strings of JSON, of any bytes: the order of keys, and    *)
(* what the characters of a string are written and read as.                *)
(***************************************************************************)
EXTENDS Options, JsonChars, SequenceTheorems, WellFoundedInduction, NaturalsInduction, TLAPS

-----------------------------------------------------------------------------
(* The conversions.                                                        *)

\* What ConversionsAgree says of one value.
Agree(v) ==
  /\ isConvertibleTo(v, "int") <=> asInt(v) # Throws
  /\ isConvertibleTo(v, "uint") <=> asUInt(v) # Throws
  /\ isConvertibleTo(v, "boolean") <=> asBool(v) # Throws
  /\ isConvertibleTo(v, "string") <=> asString(v) # Throws
  /\ isInt(v) => 2 * asInt(v) = Twice(v)
  /\ isUInt(v) => 2 * asUInt(v) = Twice(v)
  /\ isInt64(v) => 2 * asInt64(v) = Twice(v)
  /\ isUInt64(v) => 2 * asUInt64(v) = Twice(v)
  /\ Wild \notin {asInt(v), asUInt(v)}
  /\ Wild \in {asInt64(v), asUInt64(v)} =>
       v \in {Number("real", 2 * (MaxInt64 + 1)), Number("real", 2 * (MaxUInt64 + 1))}

\* The limits of the integers, as doubles: the largest of 64 bits are rounded up.
LEMMA Limits ==
  /\ MaxInt \in Nat /\ MaxUInt \in Nat /\ MaxInt64 \in Nat /\ MaxUInt64 \in Nat
  /\ MaxInt < MaxUInt /\ MaxUInt < MaxInt64 /\ MaxInt64 < MaxUInt64
  /\ MinInt \in Int /\ MinInt64 \in Int /\ MinInt < 0 /\ MinInt64 < MinInt
  /\ Double(0) = 0 /\ Double(MinInt) = 2 * MinInt /\ Double(MinInt64) = 2 * MinInt64
  /\ Double(MaxInt) = 2 * MaxInt /\ Double(MaxUInt) = 2 * MaxUInt
  /\ Double(MaxInt64) = 2 * MaxInt64 + 2 /\ Double(MaxUInt64) = 2 * MaxUInt64 + 2
  BY WidthsAssumption DEF Double, MinInt, MinInt64

\* Cutting off a fraction.
LEMMA Cut ==
  ASSUME NEW d \in Int
  PROVE  /\ Truncated(d) \in Int
         /\ IsIntegral(d) => 2 * Truncated(d) = d
         /\ \A n \in Int : d <= 2 * n => Truncated(d) <= n \/ n < 0
         /\ \A n \in Int : Truncated(d) > n /\ n >= 0 => d >= 2 * n + 2
  BY DEF Truncated, IsIntegral

\* The conversions of a real number.
LEMMA RealsAgree ==
  ASSUME NEW v \in [type : {"real"}, n : Int], TextOf(v) # Throws
  PROVE  Agree(v)
<1> DEFINE d == v.n
<1>1. v.type = "real" /\ d \in Int /\ v = Number("real", d)
  BY DEF Number
<1>2. isNumeric(v) /\ Twice(v) = d
  BY <1>1 DEF isNumeric, Twice
<1>3. /\ isConvertibleTo(v, "int") <=> InRange(d, MinInt, MaxInt)
      /\ isConvertibleTo(v, "uint") <=> InRange(d, 0, MaxUInt)
      /\ isConvertibleTo(v, "boolean") /\ isConvertibleTo(v, "string")
  BY <1>1, <1>2 DEF isConvertibleTo, isInt, isUInt
<1>4. asBool(v) # Throws
  BY <1>2, NoValueAssumption DEF asBool
<1>5. asString(v) = TextOf(v)
  BY <1>1, <1>2 DEF asString
<1>6. ASSUME NEW lo \in Int, NEW hi \in Int, NEW allowed
      PROVE  /\ ~InRange(d, lo, hi) => Integer(v, allowed, lo, hi) = Throws
             /\ InRange(d, lo, hi) =>
                  Integer(v, allowed, lo, hi) =
                    IF Truncated(d) > hi THEN Wild ELSE Truncated(d)
  BY <1>1 DEF Integer
<1>7. ASSUME NEW hi \in Nat, NEW lo \in Int, Double(hi) = 2 * hi
      PROVE  InRange(d, lo, hi) => ~(Truncated(d) > hi)
  <2>1. InRange(d, lo, hi) => d <= 2 * hi
    BY <1>7 DEF InRange
  <2> QED
    BY <1>1, <2>1, Cut
<1>8. /\ InRange(d, MinInt, MaxInt) => asInt(v) = Truncated(d)
      /\ ~InRange(d, MinInt, MaxInt) => asInt(v) = Throws
  BY <1>6, <1>7, Limits DEF asInt
<1>9. /\ InRange(d, 0, MaxUInt) => asUInt(v) = Truncated(d)
      /\ ~InRange(d, 0, MaxUInt) => asUInt(v) = Throws
  BY <1>6, <1>7, Limits DEF asUInt
<1>10. ASSUME NEW lo \in Int, NEW hi \in Nat, NEW allowed, Double(hi) = 2 * hi + 2
       PROVE  /\ d < Double(hi) /\ Double(lo) <= d =>
                   Integer(v, allowed, lo, hi) = Truncated(d)
              /\ Integer(v, allowed, lo, hi) = Wild => d = 2 * hi + 2
  <2>1. d < 2 * hi + 2 => ~(Truncated(d) > hi)
    BY <1>1, Cut
  <2>2. Truncated(d) \in Int
    BY <1>1, Cut
  <2>3. InRange(d, lo, hi) <=> Double(lo) <= d /\ d <= 2 * hi + 2
    BY <1>10 DEF InRange
  <2>4. /\ ~InRange(d, lo, hi) => Integer(v, allowed, lo, hi) = Throws
        /\ InRange(d, lo, hi) => Integer(v, allowed, lo, hi) =
             IF Truncated(d) > hi THEN Wild ELSE Truncated(d)
    BY <1>6
  <2>5. Truncated(d) # Wild /\ Throws # Wild
    BY <2>2, NoValueAssumption
  <2> QED
    BY <1>1, <1>10, <2>1, <2>2, <2>3, <2>4, <2>5
<1>11. /\ isInt(v) => 2 * asInt(v) = Twice(v)
       /\ isUInt(v) => 2 * asUInt(v) = Twice(v)
  BY <1>1, <1>2, <1>8, <1>9, Cut DEF isInt, isUInt
<1>12. /\ isInt64(v) => 2 * asInt64(v) = Twice(v)
       /\ asInt64(v) = Wild => d = 2 * MaxInt64 + 2
  <2>1. isInt64(v) => Double(MinInt64) <= d /\ d < Double(MaxInt64) /\ IsIntegral(d)
    BY <1>1 DEF isInt64
  <2>2. /\ d < Double(MaxInt64) /\ Double(MinInt64) <= d => asInt64(v) = Truncated(d)
        /\ asInt64(v) = Wild => d = 2 * MaxInt64 + 2
    BY <1>10, Limits DEF asInt64
  <2> QED
    BY <1>1, <1>2, <2>1, <2>2, Cut
<1>13. /\ isUInt64(v) => 2 * asUInt64(v) = Twice(v)
       /\ asUInt64(v) = Wild => d = 2 * MaxUInt64 + 2
  <2>1. isUInt64(v) => Double(0) <= d /\ d < Double(MaxUInt64) /\ IsIntegral(d)
    BY <1>1, Limits DEF isUInt64
  <2>2. /\ d < Double(MaxUInt64) /\ Double(0) <= d => asUInt64(v) = Truncated(d)
        /\ asUInt64(v) = Wild => d = 2 * MaxUInt64 + 2
    BY <1>10, Limits DEF asUInt64
  <2> QED
    BY <1>1, <1>2, <2>1, <2>2, Cut
<1>14. Wild \notin {asInt(v), asUInt(v)}
  BY <1>1, <1>8, <1>9, Cut, NoValueAssumption
<1>15. Wild \in {asInt64(v), asUInt64(v)} =>
         v \in {Number("real", 2 * (MaxInt64 + 1)), Number("real", 2 * (MaxUInt64 + 1))}
  <2>1. 2 * (MaxInt64 + 1) = 2 * MaxInt64 + 2 /\ 2 * (MaxUInt64 + 1) = 2 * MaxUInt64 + 2
    BY Limits
  <2> QED
    BY <1>1, <1>12, <1>13, <2>1
<1>16. Truncated(d) # Throws
  BY <1>1, Cut, NoValueAssumption
<1> HIDE DEF d
<1> QED
  BY <1>3, <1>4, <1>5, <1>8, <1>9, <1>11, <1>12, <1>13, <1>14, <1>15, <1>16 DEF Agree

\* The conversions of an integer.
LEMMA IntegersAgree ==
  ASSUME NEW v, TextOf(v) # Throws,
         \/ v \in [type : {"int"}, n : MinInt64..MaxInt64]
         \/ v \in [type : {"uint"}, n : 0..MaxUInt64]
  PROVE  Agree(v)
<1>1. /\ v.n \in Int /\ isNumeric(v) /\ Twice(v) = 2 * v.n
      /\ \/ v.type = "int" /\ MinInt64 <= v.n /\ v.n <= MaxInt64
         \/ v.type = "uint" /\ 0 <= v.n /\ v.n <= MaxUInt64
  <2>1. CASE v \in [type : {"int"}, n : MinInt64..MaxInt64]
    BY <2>1, Limits DEF isNumeric, Twice
  <2>2. CASE v \in [type : {"uint"}, n : 0..MaxUInt64]
    BY <2>2, Limits DEF isNumeric, Twice
  <2> QED
    BY <2>1, <2>2
<1>2. /\ isConvertibleTo(v, "int") <=> isInt(v)
      /\ isConvertibleTo(v, "uint") <=> isUInt(v)
      /\ isConvertibleTo(v, "boolean") /\ isConvertibleTo(v, "string")
  BY <1>1 DEF isConvertibleTo
<1>3. asBool(v) # Throws /\ asString(v) # Throws
  BY <1>1, NoValueAssumption DEF asBool, asString
<1>4. /\ asInt(v) = IF isInt(v) THEN v.n ELSE Throws
      /\ asUInt(v) = IF isUInt(v) THEN v.n ELSE Throws
      /\ asInt64(v) = IF isInt64(v) THEN v.n ELSE Throws
      /\ asUInt64(v) = IF isUInt64(v) THEN v.n ELSE Throws
  BY <1>1 DEF asInt, asUInt, asInt64, asUInt64, Integer
<1>5. Throws # Wild /\ v.n # Throws /\ v.n # Wild
  BY <1>1, NoValueAssumption
<1> QED
  BY <1>1, <1>2, <1>3, <1>4, <1>5 DEF Agree

\* The conversions of everything that is no number.
LEMMA OthersAgree ==
  ASSUME NEW v, TextOf(v) # Throws,
         \/ v = Null
         \/ v \in [type : {"boolean"}, b : BOOLEAN]
         \/ v.type = "string" /\ v.s # Throws
         \/ v.type \in {"array", "object"}
  PROVE  Agree(v)
<1>1. v.type \in {"null", "boolean", "string", "array", "object"} /\ ~isNumeric(v)
  BY DEF Null, isNumeric
<1>2. ~isInt(v) /\ ~isUInt(v) /\ ~isInt64(v) /\ ~isUInt64(v)
  BY <1>1 DEF isInt, isUInt, isInt64, isUInt64
<1>3. /\ isConvertibleTo(v, "int") <=> v.type \in {"boolean", "null"}
      /\ isConvertibleTo(v, "uint") <=> v.type \in {"boolean", "null"}
      /\ isConvertibleTo(v, "boolean") <=> v.type \in {"boolean", "null"}
      /\ isConvertibleTo(v, "string") <=> v.type \in {"boolean", "string", "null"}
  BY <1>1, <1>2 DEF isConvertibleTo
<1>4. ASSUME NEW allowed, NEW lo, NEW hi
      PROVE  IF v.type \in {"boolean", "null"} THEN Integer(v, allowed, lo, hi) \in {0, 1}
             ELSE Integer(v, allowed, lo, hi) = Throws
  BY <1>1 DEF Integer
<1>5. /\ IF v.type \in {"boolean", "null"} THEN asInt(v) \in {0, 1} ELSE asInt(v) = Throws
      /\ IF v.type \in {"boolean", "null"} THEN asUInt(v) \in {0, 1} ELSE asUInt(v) = Throws
      /\ asInt64(v) \in {0, 1, Throws} /\ asUInt64(v) \in {0, 1, Throws}
  BY <1>4 DEF asInt, asUInt, asInt64, asUInt64
<1>6. asBool(v) # Throws <=> v.type \in {"boolean", "null"}
  <2>1. v.type = "boolean" => v.b \in BOOLEAN
    BY DEF Null
  <2> QED
    BY <1>1, <2>1, NoValueAssumption DEF asBool
<1>7. asString(v) # Throws <=> v.type \in {"boolean", "string", "null"}
  <2>1. v.type = "string" => v.s # Throws
    BY DEF Null
  <2> QED
    BY <1>1, <2>1, NoValueAssumption DEF asString
<1>8. Throws \notin {0, 1} /\ Wild \notin {0, 1, Throws}
  BY NoValueAssumption
<1> QED
  BY <1>2, <1>3, <1>5, <1>6, <1>7, <1>8 DEF Agree

\* Every value that a file may give converts as the questions about it say.
LEMMA GivenAgree ==
  ASSUME NEW v, IsGiven(v)
  PROVE  Agree(v)
  BY RealsAgree, IntegersAgree, OthersAgree DEF IsGiven, IsScalar

-----------------------------------------------------------------------------
(* The order of the keys.                                                  *)

AllKeys == {KeyOrder[i] : i \in 1..Len(KeyOrder)}

\* Every key has a place in the order.
LEMMA Placed ==
  ASSUME NEW k \in AllKeys
  PROVE  Position(k) \in 1..Len(KeyOrder) /\ KeyOrder[Position(k)] = k
<1>1. \E i \in 1..Len(KeyOrder) : KeyOrder[i] = k
  BY DEF AllKeys
<1> QED
  BY <1>1 DEF Position

\* Of two keys, one comes first.
LEMMA KeysOrdered ==
  /\ \A j, k \in AllKeys : j # k => Before(j, k) \/ Before(k, j)
  /\ \A j, k \in AllKeys : ~(Before(j, k) /\ Before(k, j))
<1>1. Len(KeyOrder) \in Nat
  BY OptionsAssumption, LenProperties
<1> QED
  BY <1>1, Placed DEF Before

\* Of numbers, one is the least.
LEMMA LeastNumber ==
  ASSUME NEW T, T \subseteq Nat, T # {}
  PROVE  \E m \in T : \A n \in T : m <= n
<1>1. PICK m \in T : \A n \in T : ~ (<<n, m>> \in OpToRel(<, Nat))
  BY NatLessThanWellFounded, WFMin
<1>2. OpToRel(<, Nat) = {ss \in Nat \X Nat : ss[1] < ss[2]}
  BY DEF OpToRel
<1>3. \A n \in T : ~ (n < m)
  BY <1>1, <1>2
<1> QED
  BY <1>3

\* The loop has a next key while there are any.
LEMMA LeastIs ==
  ASSUME NEW K \in SUBSET AllKeys, K # {}
  PROVE  /\ Least(K) \in K
         /\ \A j \in K \ {Least(K)} : Before(Least(K), j)
<1> DEFINE P == {Position(k) : k \in K}
<1>1. Len(KeyOrder) \in Nat
  BY OptionsAssumption, LenProperties
<1>2. P \subseteq Nat /\ P # {}
  BY <1>1, Placed
<1>3. PICK m \in P : \A n \in P : m <= n
  <2> HIDE DEF P
  <2> QED
    BY <1>2, LeastNumber
<1>4. PICK k \in K : Position(k) = m
  OBVIOUS
<1>5. \A j \in K \ {k} : Before(k, j)
  <2> TAKE j \in K \ {k}
  <2>1. Position(j) \in Nat /\ Position(k) \in Nat /\ Position(k) <= Position(j)
    BY <1>1, <1>3, <1>4, Placed
  <2>2. ~Before(j, k)
    BY <2>1 DEF Before
  <2>3. j \in AllKeys /\ k \in AllKeys /\ j # k
    OBVIOUS
  <2> QED
    BY <2>2, <2>3, KeysOrdered
<1>6. \E l \in K : \A j \in K \ {l} : Before(l, j)
  BY <1>5
<1> QED
  BY <1>6, Zenon DEF Least

\* A key that comes after the others of a set is its greatest.
LEMMA GreatestIs ==
  ASSUME NEW K \in SUBSET AllKeys, NEW k \in K, \A j \in K \ {k} : Before(j, k)
  PROVE  Greatest(K) = k
<1> DEFINE g == Greatest(K)
<1>1. \E l \in K : \A j \in K \ {l} : Before(j, l)
  OBVIOUS
<1>2. g \in K /\ \A j \in K \ {g} : Before(j, g)
  BY <1>1, Zenon DEF Greatest
<1> HIDE DEF g
<1>3. g = k
  BY <1>2, KeysOrdered
<1> QED
  BY <1>3 DEF g

-----------------------------------------------------------------------------
(* The inductive invariant.                                                *)

AllOf == Keys(file.options)
Done == AllOf \ members

\* What ReadMember converts the value of a member to.
Gives(k) == Converted(k, file.options.o[k])

\* What open() has given to DB::Open.
OpenedRight ==
  IF file.is_cf
  THEN \A i \in DOMAIN opened, f \in Fields : opened[i][f].by \in {"default", "open"}
  ELSE opened = <<options>>

\* The members are read in their order, each option is as the last that set it
\* left it, and an exception has a value that does not convert.
OptionsInv ==
  /\ file \in Files /\ AllOf \subseteq AllKeys
  /\ members \subseteq AllOf
  /\ phase \in {"reading", "read", "open", "failed"}
  /\ phase \in {"read", "open"} => members = {}
  /\ \A j \in Done, k \in members : Before(j, k)
  /\ DOMAIN options = Fields
  /\ phase # "failed" => \A f \in Fields :
       /\ options[f].by = LastSetterAmong(Done, f)
       /\ f \in Plain /\ options[f].by = f => f \in Done /\ options[f].n = Gives(f)
  /\ phase = "failed" => \E k \in AllOf : Gives(k) = Throws
  /\ IF phase = "open" THEN OpenedRight ELSE opened = << >>

\* The names that matter are not each other's.
LEMMA Names ==
  /\ "default" \notin Plain
  /\ "optimize_level_style_compaction" \in Calls /\ "increase_parallelism" \in Calls
  /\ Plain \cap Calls = {} /\ Plain \subseteq Fields
  BY DEF Plain, Calls, Fields, IntOptions, FlagOptions, EnumOptions, BoolOptions, UInt64Options

\* The keys of a file have a place in the order, and its values are given.
LEMMA FileKeys ==
  ASSUME NEW o \in Files
  PROVE  Keys(o.options) \subseteq AllKeys /\ \A k \in Keys(o.options) : IsGiven(o.options.o[k])
<1>1. CASE o.options.type # "object"
  BY <1>1 DEF Keys
<1>2. CASE o.options.type = "object"
  BY <1>2, OptionsAssumption DEF Keys, AllKeys
<1> QED
  BY <1>1, <1>2

\* The invariant holds before the first member.
LEMMA InitOptions ==
  ASSUME Init
  PROVE  OptionsInv
<1>1. file \in Files /\ AllOf \subseteq AllKeys /\ members = AllOf /\ phase = "reading"
  BY FileKeys DEF Init, AllOf
<1>2. Done = {}
  BY <1>1 DEF Done
<1>3. \A f : LastSetterAmong(Done, f) = "default"
  BY <1>1, <1>2 DEF LastSetterAmong, OwnCall, SettersAmong
<1>4. \A f \in Fields : options[f].by = "default"
  BY DEF Init, Default
<1>5. DOMAIN options = Fields /\ opened = << >>
  BY DEF Init, Default
<1> QED
  BY <1>1, <1>2, <1>3, <1>4, <1>5, Names DEF OptionsInv

\* What Assign does to the option that has been set, and to the others.
LEMMA AssignDoes ==
  ASSUME NEW o, DOMAIN o = Fields, NEW key, NEW n
  PROVE  /\ DOMAIN Assign(o, key, n) = Fields
         /\ \A f \in Fields :
              Assign(o, key, n)[f] = IF SettersAmong({key}, f) # {}
                                     THEN [by |-> key, n |-> n] ELSE o[f]
<1>1. \A f : SettersAmong({key}, f) # {} <=>
        (key = f /\ key \in Plain) \/ (key \in Calls /\ f \in Functions[key])
  BY DEF SettersAmong
<1>2. CASE key \in Calls
  <2>1. Assign(o, key, n) = Call(o, key, n) /\ key \notin Plain
    BY <1>2, Names DEF Assign
  <2> QED
    BY <1>1, <1>2, <2>1 DEF Call
<1>3. CASE key \in Plain
  <2>1. /\ Assign(o, key, n) = [o EXCEPT ![key] = [by |-> key, n |-> n]]
        /\ key \notin Calls /\ key \in Fields
    BY <1>3, Names DEF Assign
  <2> HIDE DEF Assign
  <2> QED
    BY <1>1, <1>3, <2>1
<1>4. CASE key \notin Calls /\ key \notin Plain
  <2>1. Assign(o, key, n) = o
    BY <1>4 DEF Assign
  <2> QED
    BY <1>1, <1>4, <2>1
<1> QED
  BY <1>2, <1>3, <1>4

\* One more key that comes after those before: it is the last setter of what it
\* sets.
LEMMA OneMore ==
  ASSUME NEW K \in SUBSET AllKeys, NEW key \in AllKeys, \A j \in K : Before(j, key),
         phase = "reading", NEW f
  PROVE  LastSetterAmong(K \cup {key}, f) =
           IF SettersAmong({key}, f) # {} THEN key ELSE LastSetterAmong(K, f)
<1>1. ~OwnCall("optimize_level_style_compaction", f) /\ ~OwnCall("increase_parallelism", f)
  BY DEF OwnCall
<1>2. SettersAmong(K \cup {key}, f) = SettersAmong(K, f) \cup SettersAmong({key}, f)
  BY DEF SettersAmong
<1>3. CASE SettersAmong({key}, f) = {}
  BY <1>1, <1>2, <1>3 DEF LastSetterAmong
<1>4. CASE SettersAmong({key}, f) # {}
  <2> DEFINE S == SettersAmong(K \cup {key}, f)
  <2>1. key \in S /\ S \in SUBSET AllKeys /\ \A j \in S \ {key} : Before(j, key)
    BY <1>4 DEF SettersAmong
  <2>2. Greatest(S) = key
    <3> HIDE DEF S
    <3> QED
      BY <2>1, GreatestIs
  <2> QED
    BY <1>1, <1>4, <2>1, <2>2 DEF LastSetterAmong
<1> QED
  BY <1>3, <1>4

\* A member is read.
LEMMA ReadMemberKeeps ==
  ASSUME OptionsInv, ReadMember
  PROVE  OptionsInv'
<1> DEFINE key == Least(members)
           n == Gives(key)
<1> USE DEF OptionsInv
<1>1. /\ phase = "reading" /\ members # {} /\ members \subseteq AllKeys
      /\ file' = file /\ members' = members \ {key} /\ opened' = << >>
      /\ IF n = Throws THEN phase' = "failed" /\ options' = options
         ELSE phase' = phase /\ options' = Assign(options, key, n)
  BY DEF ReadMember, Gives
<1>2. key \in members /\ \A j \in members \ {key} : Before(key, j)
  BY <1>1, LeastIs
<1> HIDE DEF key
<1>3. AllOf' = AllOf /\ Done' = Done \cup {key} /\ \A k : Gives(k)' = Gives(k)
  BY <1>1, <1>2 DEF AllOf, Done, Gives
<1>4. \A j \in Done', k \in members' : Before(j, k)
  BY <1>1, <1>2, <1>3
<1>5. file' \in Files /\ AllOf' \subseteq AllKeys /\ members' \subseteq AllOf'
  BY <1>1, <1>3
<1>6. CASE n = Throws
  <2>1. \E k \in AllOf' : Gives(k)' = Throws
    BY <1>2, <1>3, <1>6
  <2> QED
    BY <1>1, <1>4, <1>5, <1>6, <2>1
<1>7. CASE n # Throws
  <2>1. phase' = "reading" /\ options' = Assign(options, key, n)
    BY <1>1, <1>7
  <2>2. /\ DOMAIN options' = Fields
        /\ \A f \in Fields : options'[f] = IF SettersAmong({key}, f) # {}
                                           THEN [by |-> key, n |-> n] ELSE options[f]
    <3>1. DOMAIN options = Fields
      BY <1>1
    <3> HIDE DEF OptionsInv
    <3> QED
      BY <2>1, <3>1, AssignDoes
  <2>3. ASSUME NEW f
        PROVE  LastSetterAmong(Done, f)' = IF SettersAmong({key}, f) # {} THEN key
                                           ELSE LastSetterAmong(Done, f)
    <3>1. LastSetterAmong(Done, f)' = LastSetterAmong(Done \cup {key}, f)
      BY <1>1, <1>3, <2>1 DEF LastSetterAmong, OwnCall
    <3>2. Done \in SUBSET AllKeys /\ key \in AllKeys /\ \A j \in Done : Before(j, key)
      BY <1>2 DEF Done
    <3>3. LastSetterAmong(Done \cup {key}, f) =
            IF SettersAmong({key}, f) # {} THEN key ELSE LastSetterAmong(Done, f)
      <4> HIDE DEF OptionsInv
      <4>1. phase = "reading"
        BY <1>1
      <4> QED
        BY <4>1, <3>2, OneMore
    <3> QED
      BY <3>1, <3>3
  <2>4. ASSUME NEW f \in Fields
        PROVE  /\ options'[f].by = LastSetterAmong(Done, f)'
               /\ f \in Plain /\ options'[f].by = f => f \in Done' /\ options'[f].n = Gives(f)'
    <3> DEFINE r == options'[f]
    <3>1. r = IF SettersAmong({key}, f) # {} THEN [by |-> key, n |-> n] ELSE options[f]
      BY <2>2
    <3>2. CASE SettersAmong({key}, f) # {}
      <4>1. r.by = key /\ r.n = n
        BY <3>1, <3>2
      <4> QED
        BY <1>3, <2>3, <3>2, <4>1
    <3>3. CASE SettersAmong({key}, f) = {}
      <4>1. r = options[f]
        BY <3>1, <3>3
      <4>2. options[f].by = LastSetterAmong(Done, f)
        BY <1>1
      <4>3. f \in Plain /\ options[f].by = f => f \in Done /\ options[f].n = Gives(f)
        BY <1>1
      <4> QED
        BY <1>3, <2>3, <3>3, <4>1, <4>2, <4>3
    <3> QED
      BY <3>2, <3>3
  <2> QED
    BY <1>1, <1>4, <1>5, <2>1, <2>2, <2>4
<1> QED
  BY <1>6, <1>7

\* read_config makes its own calls after the members, and has the last word.
LEMMA ReadConfigKeeps ==
  ASSUME OptionsInv, ReadConfig
  PROVE  OptionsInv'
<1> DEFINE level == "optimize_level_style_compaction"
           threads == "increase_parallelism"
<1>1. /\ phase = "reading" /\ members = {} /\ phase' = "read"
      /\ file' = file /\ members' = members /\ opened' = << >>
  BY DEF ReadConfig, OptionsInv
<1>2. AllOf' = AllOf /\ Done' = Done /\ \A k : Gives(k)' = Gives(k)
  BY <1>1 DEF AllOf, Done, Gives
<1>3. /\ DOMAIN options = Fields
      /\ \A f \in Fields :
           /\ options[f].by = LastSetterAmong(Done, f)
           /\ f \in Plain /\ options[f].by = f => f \in Done /\ options[f].n = Gives(f)
  BY <1>1 DEF OptionsInv
<1>4. \A f : LastSetterAmong(Done, f)' =
        IF OwnCall(level, f)' THEN level
        ELSE IF OwnCall(threads, f)' THEN threads ELSE LastSetterAmong(Done, f)
  BY <1>1, <1>2 DEF LastSetterAmong, OwnCall
<1>5. DOMAIN options' = Fields /\ \A f \in Fields :
        /\ options'[f].by = LastSetterAmong(Done, f)'
        /\ f \in Plain /\ options'[f].by = f => options'[f] = options[f]
  <2>1. CASE file.options = Absent
    <3>1. options' = options /\ \A f : ~OwnCall(level, f)' /\ ~OwnCall(threads, f)'
      BY <1>1, <2>1 DEF ReadConfig, OwnCall
    <3> QED
      BY <1>3, <1>4, <3>1
  <2>2. CASE file.options # Absent
    <3>1. options' = Call(Call(options, threads, 16), level, 512)
      BY <2>2 DEF ReadConfig
    <3>2. \A f : /\ OwnCall(level, f)' <=> f \in Functions[level]
                 /\ OwnCall(threads, f)' <=> f \in Functions[threads]
      BY <1>1, <2>2 DEF OwnCall
    <3>3. /\ DOMAIN options' = Fields
          /\ \A f \in Fields : options'[f] =
               IF f \in Functions[level] THEN [by |-> level, n |-> 512]
               ELSE IF f \in Functions[threads] THEN [by |-> threads, n |-> 16]
               ELSE options[f]
      BY <3>1 DEF Call
    <3>4. level \notin Plain /\ threads \notin Plain
      BY Names
    <3> HIDE DEF level, threads
    <3>5. ASSUME NEW f \in Fields
          PROVE  /\ options'[f].by = LastSetterAmong(Done, f)'
                 /\ f \in Plain /\ options'[f].by = f => options'[f] = options[f]
      <4>1. CASE f \in Functions[level]
        <5>1. options'[f] = [by |-> level, n |-> 512]
          BY <3>3, <4>1
        <5>2. LastSetterAmong(Done, f)' = level
          BY <1>4, <3>2, <4>1
        <5> QED
          BY <3>4, <5>1, <5>2
      <4>2. CASE f \notin Functions[level] /\ f \in Functions[threads]
        <5>1. options'[f] = [by |-> threads, n |-> 16]
          BY <3>3, <4>2
        <5>2. LastSetterAmong(Done, f)' = threads
          BY <1>4, <3>2, <4>2
        <5> QED
          BY <3>4, <5>1, <5>2
      <4>3. CASE f \notin Functions[level] /\ f \notin Functions[threads]
        <5>1. options'[f] = options[f]
          BY <3>3, <4>3
        <5>2. LastSetterAmong(Done, f)' = LastSetterAmong(Done, f)
          BY <1>4, <3>2, <4>3
        <5> QED
          BY <1>3, <5>1, <5>2
      <4> QED
        BY <4>1, <4>2, <4>3
    <3> QED
      BY <3>3, <3>5
  <2> QED
    BY <2>1, <2>2
<1>6. \A f \in Fields :
        f \in Plain /\ options'[f].by = f => f \in Done' /\ options'[f].n = Gives(f)'
  <2> TAKE f \in Fields
  <2> HAVE f \in Plain /\ options'[f].by = f
  <2>1. options'[f] = options[f]
    BY <1>5
  <2> QED
    BY <1>2, <1>3, <2>1
<1>7. file' \in Files /\ AllOf' \subseteq AllKeys /\ members' \subseteq AllOf' /\ members' = {}
  BY <1>1, <1>2 DEF OptionsInv
<1> QED
  BY <1>1, <1>5, <1>6, <1>7 DEF OptionsInv

\* open() leaves the options as they are.
LEMMA OpenKeeps ==
  ASSUME OptionsInv, Open
  PROVE  OptionsInv'
<1>1. /\ phase = "read" /\ phase' = "open"
      /\ file' = file /\ members' = members /\ options' = options
  BY DEF Open
<1>2. AllOf' = AllOf /\ Done' = Done /\ \A k : Gives(k)' = Gives(k)
  BY <1>1 DEF AllOf, Done, Gives
<1>3. \A f : LastSetterAmong(Done, f)' = LastSetterAmong(Done, f)
  BY <1>1, <1>2 DEF LastSetterAmong, OwnCall
<1>4. OpenedRight'
  <2>1. CASE ~file.is_cf
    BY <1>1, <2>1 DEF Open, OpenedRight
  <2>2. CASE file.is_cf
    <3> DEFINE own == [Default EXCEPT !["create_if_missing"] = [by |-> "open", n |-> 1]]
    <3>1. \A f \in Fields : Default[f].by = "default" /\ own[f].by \in {"default", "open"}
      BY DEF Default
    <3>2. opened' = <<Default>> \/ opened' = <<own, Default>>
      BY <2>2, Zenon DEF Open
    <3> HIDE DEF own
    <3>3. \A i \in DOMAIN opened' : opened'[i] \in {own, Default}
      BY <3>2
    <3> QED
      BY <1>1, <2>2, <3>1, <3>3 DEF OpenedRight
  <2> QED
    BY <2>1, <2>2
<1> QED
  BY <1>1, <1>2, <1>3, <1>4 DEF OptionsInv

\* Every step keeps the invariant.
LEMMA NextOptions ==
  ASSUME OptionsInv, [Next]_optionVars
  PROVE  OptionsInv'
<1>1. CASE UNCHANGED optionVars
  <2>1. AllOf' = AllOf /\ Done' = Done /\ \A k : Gives(k)' = Gives(k)
    BY <1>1 DEF optionVars, AllOf, Done, Gives
  <2>2. \A f : LastSetterAmong(Done, f)' = LastSetterAmong(Done, f)
    BY <1>1, <2>1 DEF optionVars, LastSetterAmong, OwnCall
  <2> QED
    BY <1>1, <2>1, <2>2 DEF OptionsInv, OpenedRight, optionVars
<1> QED
  BY <1>1, ReadMemberKeeps, ReadConfigKeeps, OpenKeeps DEF Next

\* The invariant holds in every state that is reached.
LEMMA OptionsInvariant == Spec => []OptionsInv
<1>1. Init => OptionsInv
  BY InitOptions
<1>2. OptionsInv /\ [Next]_optionVars => OptionsInv'
  BY NextOptions
<1> QED
  BY <1>1, <1>2, PTL DEF Spec

-----------------------------------------------------------------------------
(* What a value in the form of the README becomes.                         *)

\* What is converted by asInt alone, and by asUInt64.
ByInt == IntOptions \cup {"increase_parallelism", "compaction_style"}
ByUInt64 == UInt64Options \cup (Calls \ {"increase_parallelism"})

\* The branches of options_from_json exclude one another.
LEMMA OneWay ==
  /\ ByInt \cap (FlagOptions \cup EnumOptions \cup BoolOptions \cup ByUInt64) = {}
  /\ FlagOptions \cap (EnumOptions \cup BoolOptions \cup ByUInt64) = {}
  /\ EnumOptions \cap (BoolOptions \cup ByUInt64) = {}
  /\ BoolOptions \cap ByUInt64 = {}
<1> USE DEF ByInt, ByUInt64, IntOptions, FlagOptions, EnumOptions, BoolOptions,
            UInt64Options, Calls
<1>1. ByInt \cap (FlagOptions \cup EnumOptions \cup BoolOptions \cup ByUInt64) = {}
  OBVIOUS
<1>2. FlagOptions \cap (EnumOptions \cup BoolOptions \cup ByUInt64) = {}
  OBVIOUS
<1>3. EnumOptions \cap (BoolOptions \cup ByUInt64) = {}
  OBVIOUS
<1>4. BoolOptions \cap ByUInt64 = {}
  OBVIOUS
<1> QED
  BY <1>1, <1>2, <1>3, <1>4, Zenon

\* A number that an integer type holds converts to itself.
LEMMA NumbersConvert ==
  ASSUME NEW v, v.type \in {"int", "uint"}, v.n \in Int
  PROVE  /\ v.n \in MinInt..MaxInt => asInt(v) = v.n
         /\ v.n \in 0..MaxUInt64 => asUInt64(v) = v.n
  BY Limits DEF asInt, asUInt64, Integer, isInt, isUInt64

\* What AsListed asks for, by the kinds of options.
LEMMA ListedForms ==
  ASSUME NEW key, NEW v, AsListed(key, v)
  PROVE  LET IsNumber(S) == v \in [type : {"int", "uint"}, n : S] IN
         /\ key \in BoolOptions => v.type = "boolean"
         /\ key = "info_log_level" => IsNumber(0..5)
         /\ key = "access_hint_on_compaction_start" => IsNumber(0..4)
         /\ key = "compression" => IsNumber(0..9)
         /\ key \in IntOptions \cup FlagOptions \cup {"increase_parallelism"} =>
              IsNumber(MinInt..MaxInt)
         /\ key \in ByUInt64 => IsNumber(0..MaxUInt64)
<1>1. EnumOptions = {"info_log_level", "access_hint_on_compaction_start", "compression"}
  BY DEF EnumOptions
<1>2. "info_log_level" # "compression" /\ "info_log_level" # "access_hint_on_compaction_start" /\
      "compression" # "access_hint_on_compaction_start"
  OBVIOUS
<1>3. IntOptions \cup {"increase_parallelism"} \subseteq ByInt
  BY DEF ByInt
<1> DEFINE Small == 0..5
           Hint == 0..4
           Kind == 0..9
           Ints == MinInt..MaxInt
           Longs == 0..MaxUInt64
           IsNumber(S) == v \in [type : {"int", "uint"}, n : S]
<1>4. (CASE key \in BoolOptions -> v.type = "boolean"
         [] key = "info_log_level" -> IsNumber(Small)
         [] key = "access_hint_on_compaction_start" -> IsNumber(Hint)
         [] key = "compression" -> IsNumber(Kind)
         [] key \in IntOptions \cup FlagOptions \cup {"increase_parallelism"} -> IsNumber(Ints)
         [] key \in ByUInt64 -> IsNumber(Longs)
         [] OTHER -> TRUE)
  BY Zenon DEF AsListed, ByUInt64
<1> SUFFICES /\ key \in BoolOptions => v.type = "boolean"
             /\ key = "info_log_level" => IsNumber(Small)
             /\ key = "access_hint_on_compaction_start" => IsNumber(Hint)
             /\ key = "compression" => IsNumber(Kind)
             /\ key \in IntOptions \cup FlagOptions \cup {"increase_parallelism"} => IsNumber(Ints)
             /\ key \in ByUInt64 => IsNumber(Longs)
  OBVIOUS
<1> HIDE DEF IsNumber, Small, Hint, Kind, Ints, Longs
<1> QED
  BY <1>1, <1>2, <1>3, <1>4, OneWay

\* It converts to what the README says.
LEMMA ListedConverts ==
  ASSUME NEW key, NEW v, IsGiven(v), AsListed(key, v)
  PROVE  /\ Converted(key, v) = Throws => key = "compaction_style" /\ asInt(v) = Throws
         /\ key \in Plain => Converted(key, v) \in Described(key, v)
<1> DEFINE IsNumber(S) == v \in [type : {"int", "uint"}, n : S]
<1>0. \A n \in Int : n # Throws
  BY NoValueAssumption
<1>1. CASE key \in BoolOptions
  <2>1. v.type = "boolean" /\ v.b \in BOOLEAN
    <3>1. v.type = "boolean"
      BY <1>1, ListedForms
    <3> QED
      BY <3>1 DEF IsGiven, IsScalar, Null
  <2>2. asBool(v) = v.b
    BY <2>1 DEF asBool, isNumeric
  <2>3. Converted(key, v) = BoolNumber(v.b)
    <3>1. Converted(key, v) = BoolNumber(asBool(v))
      BY <1>1, OneWay DEF Converted, ByInt, ByUInt64
    <3> QED
      BY <2>2, <3>1, Zenon
  <2>4. Converted(key, v) = IF v.b THEN 1 ELSE 0
    BY <2>1, <2>3, NoValueAssumption DEF BoolNumber
  <2>5. Described(key, v) = {IF v.b THEN 1 ELSE 0}
    BY <1>1, OneWay DEF Described, EnumOptions
  <2> QED
    BY <1>0, <2>4, <2>5
<1>2. CASE key \in FlagOptions
  <2>1. IsNumber(MinInt..MaxInt)
    BY <1>2, ListedForms
  <2>2. asInt(v) = v.n /\ v.n \in Int
    BY <2>1, NumbersConvert, Limits
  <2>3. Converted(key, v) = IF asInt(v) = Throws THEN Throws ELSE BoolNumber(asInt(v) # 0)
    BY <1>2, OneWay DEF Converted, ByInt, ByUInt64
  <2>4. Converted(key, v) = IF v.n = 0 THEN 0 ELSE 1
    <3>1. Converted(key, v) = BoolNumber(v.n # 0)
      BY <1>0, <2>2, <2>3, Zenon
    <3> QED
      BY <3>1, NoValueAssumption DEF BoolNumber
  <2>5. Described(key, v) = {IF v.n = 0 THEN 0 ELSE 1}
    BY <1>2, OneWay DEF Described, EnumOptions
  <2> QED
    BY <1>0, <2>4, <2>5
<1>3. CASE key \in EnumOptions
  <2>1. /\ key = "info_log_level" => IsNumber(0..5)
        /\ key = "access_hint_on_compaction_start" => IsNumber(0..4)
        /\ key = "compression" => IsNumber(0..9)
    BY ListedForms
  <2>2. v.type \in {"int", "uint"} /\ v.n \in 0..9
    BY <1>3, <2>1 DEF EnumOptions
  <2>3. asInt(v) = v.n
    <3>1. v.n \in MinInt..MaxInt
      <4>1. 9 <= MaxInt
        BY OptionsAssumption
      <4> QED
        BY <2>2, <4>1, Limits
    <3> QED
      BY <2>2, <3>1, NumbersConvert
  <2>4. Converted(key, v) = int2enum(key, v.n)
    <3>1. Converted(key, v) = IF asInt(v) = Throws THEN Throws ELSE int2enum(key, asInt(v))
      BY <1>3, OneWay DEF Converted, ByInt, ByUInt64
    <3> QED
      BY <1>0, <2>2, <2>3, <3>1
  <2>5. int2enum(key, v.n) \in Int /\ int2enum(key, v.n) \in Described(key, v)
    <3>1. key \notin FlagOptions /\ key \notin BoolOptions
      BY <1>3, OneWay
    <3>2. CASE key = "info_log_level"
      BY <2>1, <3>1, <3>2 DEF int2enum, Described
    <3>3. CASE key = "access_hint_on_compaction_start"
      BY <2>1, <3>1, <3>3 DEF int2enum, Described
    <3>4. CASE key = "compression"
      BY <2>1, <3>1, <3>4 DEF int2enum, Described
    <3> QED
      BY <1>3, <3>2, <3>3, <3>4 DEF EnumOptions
  <2> QED
    BY <1>0, <2>4, <2>5
<1>4. CASE key \in IntOptions \cup {"increase_parallelism"}
  <2>0. key \in ByInt
    BY <1>4 DEF ByInt
  <2>1. IsNumber(MinInt..MaxInt)
    BY <1>4, ListedForms
  <2>2. asInt(v) = v.n /\ v.n \in Int
    BY <2>1, NumbersConvert, Limits
  <2>3. Converted(key, v) = asInt(v)
    BY <2>0, OneWay DEF Converted, ByInt, ByUInt64
  <2>4. Described(key, v) = {v.n}
    BY <2>0, OneWay DEF Described, EnumOptions
  <2> QED
    BY <1>0, <2>2, <2>3, <2>4
<1>5. CASE key \in ByUInt64
  <2>1. IsNumber(0..MaxUInt64)
    BY <1>5, ListedForms
  <2>2. asUInt64(v) = v.n /\ v.n \in Int
    BY <2>1, NumbersConvert, Limits
  <2>3. Converted(key, v) = asUInt64(v)
    BY <1>5, OneWay DEF Converted, ByInt, ByUInt64
  <2>4. Described(key, v) = {v.n}
    BY <1>5, OneWay DEF Described, EnumOptions
  <2> QED
    BY <1>0, <2>2, <2>3, <2>4
<1>6. CASE key \notin BoolOptions /\ key \notin FlagOptions /\ key \notin EnumOptions /\
           key \notin IntOptions \cup {"increase_parallelism"} /\ key \notin ByUInt64
  <2>1. key \notin Plain
    BY <1>6 DEF Plain, ByUInt64
  <2>2. Converted(key, v) = IF key = "compaction_style" THEN asInt(v) ELSE 0
    BY <1>6 DEF Converted, ByUInt64
  <2> QED
    BY <1>0, <2>1, <2>2
<1> QED
  BY <1>1, <1>2, <1>3, <1>4, <1>5, <1>6

-----------------------------------------------------------------------------
(* Theorems.                                                               *)

\* Whatever the file combines, and whatever a function of RocksDB sets, each
\* option is as the last of its setters left it, in the order of the keys and
\* with the calls of read_config at the end (options_json.cc:10, server.cc:251);
\* a database without families is opened with that, and one with families with
\* nothing of it (server.cc:62, 69, 99).
THEOREM LastSetterTheorem == Spec => []LastSetterWins
<1>1. OptionsInv => LastSetterWins
  <2>1. ASSUME OptionsInv, members = {}, phase # "failed", NEW f \in Fields
        PROVE  /\ options[f].by = LastSetter(f)
               /\ f \in Plain /\ LastSetter(f) = f /\ AsListed(f, file.options.o[f]) =>
                    options[f].n \in Described(f, file.options.o[f])
    <3>1. Done = AllOf /\ LastSetter(f) = LastSetterAmong(Done, f)
      BY <2>1 DEF Done, AllOf, LastSetter
    <3>2. /\ options[f].by = LastSetter(f)
          /\ f \in Plain /\ options[f].by = f => f \in AllOf /\ options[f].n = Gives(f)
      BY <2>1, <3>1 DEF OptionsInv
    <3>3. f \in AllOf => IsGiven(file.options.o[f])
      BY <2>1, FileKeys DEF OptionsInv, AllOf
    <3> QED
      BY <3>2, <3>3, ListedConverts DEF Gives
  <2>2. ASSUME OptionsInv, NEW i \in DOMAIN opened, NEW f \in Fields
        PROVE  IF file.is_cf THEN opened[i][f].by \in {"default", "open"}
               ELSE opened[i][f] = options[f] /\ opened[i][f].by = LastSetter(f)
    <3>1. phase = "open" /\ members = {} /\ OpenedRight
      BY <2>2 DEF OptionsInv
    <3>2. CASE file.is_cf
      BY <2>2, <3>1, <3>2 DEF OpenedRight
    <3>3. CASE ~file.is_cf
      <4>1. opened[i] = options
        BY <2>2, <3>1, <3>3 DEF OpenedRight
      <4> QED
        BY <2>1, <2>2, <3>1, <3>3, <4>1
    <3> QED
      BY <3>2, <3>3
  <2> QED
    BY <2>1, <2>2 DEF LastSetterWins
<1> QED
  BY <1>1, OptionsInvariant, PTL

\* Only an option that is not in the form of the README keeps the service from
\* starting (asInt, asBool and asUInt64 of json_value.cc throw), or a
\* compaction_style that is no int (options_json.cc:129): every uint64, negative
\* int and label that the README allows starts it.
THEOREM ListedTheorem == Spec => []ListedOptionsStart
<1>1. OptionsInv => ListedOptionsStart
  <2> SUFFICES ASSUME OptionsInv, phase = "failed"
               PROVE  \E k \in Keys(file.options) :
                        \/ ~AsListed(k, file.options.o[k])
                        \/ k = "compaction_style" /\ ~isConvertibleTo(file.options.o[k], "int")
    BY DEF ListedOptionsStart
  <2>1. PICK k \in AllOf : Gives(k) = Throws
    BY DEF OptionsInv
  <2>2. IsGiven(file.options.o[k])
    BY FileKeys DEF OptionsInv, AllOf
  <2>3. isConvertibleTo(file.options.o[k], "int") <=> asInt(file.options.o[k]) # Throws
    BY <2>2, GivenAgree DEF Agree
  <2>4. AsListed(k, file.options.o[k]) =>
          k = "compaction_style" /\ asInt(file.options.o[k]) = Throws
    BY <2>1, <2>2, ListedConverts DEF Gives
  <2> QED
    BY <2>1, <2>3, <2>4 DEF AllOf
<1> QED
  BY <1>1, OptionsInvariant, PTL

\* What is asked of the type of a value is what its conversions do, for every
\* width of the integers; the undefined conversion is reached by two values.
THEOREM ConversionsTheorem == Spec => []ConversionsAgree
<1>1. OptionsInv => ConversionsAgree
  <2> SUFFICES ASSUME OptionsInv, NEW v \in Given
               PROVE  Agree(v)
    BY DEF ConversionsAgree, Agree
  <2>1. IsGiven(v)
    BY FileKeys DEF OptionsInv, Given
  <2> QED
    BY <2>1, GivenAgree
<1> QED
  BY <1>1, OptionsInvariant, PTL

-----------------------------------------------------------------------------
(* The order of keys.                                                      *)

Bytes == {b \in Nat : b < 256}

\* Two strings part at place i: there one has ended, or has the smaller byte.
PartAt(s, t, i) ==
  /\ i \in Nat /\ i >= 1 /\ i - 1 <= Len(s)
  /\ i <= Len(t)
  /\ \A j \in 1..(i - 1) : s[j] = t[j]
  /\ i <= Len(s) => s[i] < t[i]

\* The order of keys, by the place where they part.
LEMMA LessIsParted ==
  ASSUME NEW s \in Seq(Bytes), NEW t \in Seq(Bytes)
  PROVE  CZStringLess(s, t) <=> \E i \in Nat : PartAt(s, t, i)
<1>1. Len(s) \in Nat /\ Len(t) \in Nat
  BY LenProperties
<1>2. ASSUME CZStringLess(s, t) PROVE \E i \in Nat : PartAt(s, t, i)
  <2>1. CASE \E i \in 1..Len(s) : /\ i <= Len(t) /\ s[i] < t[i]
                                 /\ \A j \in 1..(i - 1) : s[j] = t[j]
    BY <1>1, <2>1 DEF PartAt
  <2>2. CASE Len(s) < Len(t) /\ \A j \in 1..Len(s) : s[j] = t[j]
    <3>1. PartAt(s, t, Len(s) + 1)
      BY <1>1, <2>2 DEF PartAt
    <3> QED
      BY <1>1, <3>1
  <2> QED
    BY <1>2, <2>1, <2>2 DEF CZStringLess
<1>3. ASSUME NEW i \in Nat, PartAt(s, t, i) PROVE CZStringLess(s, t)
  <2>1. CASE i <= Len(s)
    BY <1>1, <1>3, <2>1 DEF PartAt, CZStringLess
  <2>2. CASE ~(i <= Len(s))
    <3>1. i - 1 = Len(s)
      BY <1>1, <1>3, <2>2 DEF PartAt
    <3> QED
      BY <1>1, <1>3, <3>1 DEF PartAt, CZStringLess
  <2> QED
    BY <2>1, <2>2
<1> QED
  BY <1>2, <1>3

\* Of two different strings one is less: at the first place that tells them
\* apart.
LEMMA KeysAreTotal ==
  ASSUME NEW s \in Seq(Bytes), NEW t \in Seq(Bytes), s # t
  PROVE  CZStringLess(s, t) \/ CZStringLess(t, s)
<1> DEFINE D == {i \in Nat : /\ i >= 1
                             /\ \/ i = Len(s) + 1 \/ i = Len(t) + 1
                                \/ i <= Len(s) /\ i <= Len(t) /\ s[i] # t[i]}
<1>1. /\ Len(s) \in Nat /\ Len(t) \in Nat
      /\ \A i \in 1..Len(s) : s[i] \in Nat
      /\ \A i \in 1..Len(t) : t[i] \in Nat
  <2>1. Len(s) \in Nat /\ Len(t) \in Nat
    BY LenProperties
  <2>2. /\ \A i \in 1..Len(s) : s[i] \in Bytes
        /\ \A i \in 1..Len(t) : t[i] \in Bytes
    BY ElementOfSeq
  <2> QED
    BY <2>1, <2>2 DEF Bytes
<1>2. D \subseteq Nat /\ D # {}
  <2>1. Len(s) + 1 \in D
    BY <1>1
  <2> QED
    BY <2>1
<1>3. PICK i \in D : \A j \in D : i <= j
  <2> HIDE DEF D
  <2> QED
    BY <1>2, LeastNumber
<1>4. i \in Nat /\ i >= 1 /\ i - 1 <= Len(s) /\ i - 1 <= Len(t)
  <2>1. Len(s) + 1 \in D /\ Len(t) + 1 \in D
    BY <1>1
  <2>2. i <= Len(s) + 1 /\ i <= Len(t) + 1
    BY <1>3, <2>1
  <2> QED
    BY <1>1, <1>3, <2>2
<1>5. ASSUME NEW j \in 1..(i - 1) PROVE s[j] = t[j]
  <2>1. j \in Nat /\ j >= 1 /\ j < i /\ j <= Len(s) /\ j <= Len(t)
    BY <1>1, <1>4
  <2>2. j \notin D
    BY <1>3, <1>4, <2>1
  <2> QED
    BY <2>1, <2>2
<1>6. CASE i <= Len(s) /\ i <= Len(t)
  <2>1. s[i] # t[i]
    BY <1>1, <1>3, <1>6
  <2>2. s[i] \in Nat /\ t[i] \in Nat
    BY <1>1, <1>4, <1>6
  <2>3. s[i] < t[i] \/ t[i] < s[i]
    BY <2>1, <2>2
  <2>4. PartAt(s, t, i) \/ PartAt(t, s, i)
    BY <1>4, <1>5, <1>6, <2>3 DEF PartAt
  <2> QED
    BY <1>4, <2>4, LessIsParted
<1>7. CASE ~(i <= Len(s)) /\ i <= Len(t)
  <2>1. PartAt(s, t, i)
    BY <1>4, <1>5, <1>7 DEF PartAt
  <2> QED
    BY <1>4, <2>1, LessIsParted
<1>8. CASE i <= Len(s) /\ ~(i <= Len(t))
  <2>1. PartAt(t, s, i)
    BY <1>4, <1>5, <1>8 DEF PartAt
  <2> QED
    BY <1>4, <2>1, LessIsParted
<1>9. CASE ~(i <= Len(s)) /\ ~(i <= Len(t))
  <2>1. Len(s) = i - 1 /\ Len(t) = i - 1
    BY <1>1, <1>4, <1>9
  <2>2. s = t
    BY <1>5, <2>1, SeqEqual
  <2> QED
    BY <2>2
<1> QED
  BY <1>6, <1>7, <1>8, <1>9

\* The keys of an object are in a strict total order, by their bytes and then
\* their lengths: what std::map needs of CZString::operator< for begin() to
\* end() to be one sequence (json_value.cc:295-310).
THEOREM KeysAreOrdered ==
  ASSUME NEW s \in Seq(Bytes), NEW t \in Seq(Bytes), NEW u \in Seq(Bytes)
  PROVE  /\ ~CZStringLess(s, s)
         /\ s # t => CZStringLess(s, t) \/ CZStringLess(t, s)
         /\ CZStringLess(s, t) /\ CZStringLess(t, u) => CZStringLess(s, u)
<1>1. /\ Len(s) \in Nat /\ Len(t) \in Nat /\ Len(u) \in Nat
      /\ \A i \in 1..Len(s) : s[i] \in Nat
      /\ \A i \in 1..Len(t) : t[i] \in Nat
      /\ \A i \in 1..Len(u) : u[i] \in Nat
  <2>1. Len(s) \in Nat /\ Len(t) \in Nat /\ Len(u) \in Nat
    BY LenProperties
  <2>2. /\ \A i \in 1..Len(s) : s[i] \in Bytes
        /\ \A i \in 1..Len(t) : t[i] \in Bytes
        /\ \A i \in 1..Len(u) : u[i] \in Bytes
    BY ElementOfSeq
  <2> QED
    BY <2>1, <2>2 DEF Bytes
<1>2. ~CZStringLess(s, s)
  BY <1>1 DEF CZStringLess
<1>3. ASSUME CZStringLess(s, t), CZStringLess(t, u) PROVE CZStringLess(s, u)
  <2>1. PICK i \in Nat : PartAt(s, t, i)
    BY <1>3, LessIsParted
  <2>2. PICK k \in Nat : PartAt(t, u, k)
    BY <1>3, LessIsParted
  <2>3. CASE i < k
    <3>1. /\ i >= 1 /\ i - 1 <= Len(s) /\ i <= Len(u)
          /\ \A j \in 1..(i - 1) : s[j] = t[j]
          /\ \A j \in 1..(k - 1) : t[j] = u[j]
          /\ i <= Len(s) => s[i] < t[i]
      BY <1>1, <2>1, <2>2, <2>3 DEF PartAt
    <3>2. i \in 1..(k - 1) /\ \A j \in 1..(i - 1) : j \in 1..(k - 1)
      BY <2>3, <3>1
    <3>3. PartAt(s, u, i)
      BY <3>1, <3>2 DEF PartAt
    <3> QED
      BY <3>3, LessIsParted
  <2>4. CASE i = k
    <3>1. /\ i >= 1 /\ i - 1 <= Len(s) /\ i <= Len(u) /\ i <= Len(t)
          /\ \A j \in 1..(i - 1) : s[j] = t[j] /\ t[j] = u[j]
          /\ i <= Len(s) => s[i] < t[i]
          /\ t[i] < u[i]
      BY <1>1, <2>1, <2>2, <2>4 DEF PartAt
    <3>2. i <= Len(s) => s[i] < u[i]
      BY <1>1, <3>1
    <3>3. PartAt(s, u, i)
      BY <3>1, <3>2 DEF PartAt
    <3> QED
      BY <3>3, LessIsParted
  <2>5. CASE k < i
    <3>1. /\ k >= 1 /\ k - 1 <= Len(s) /\ k <= Len(u) /\ k <= Len(s) /\ k <= Len(t)
          /\ \A j \in 1..(i - 1) : s[j] = t[j]
          /\ \A j \in 1..(k - 1) : t[j] = u[j]
          /\ t[k] < u[k]
      BY <1>1, <2>1, <2>2, <2>5 DEF PartAt
    <3>2. k \in 1..(i - 1) /\ \A j \in 1..(k - 1) : j \in 1..(i - 1)
      BY <2>5, <3>1
    <3>3. PartAt(s, u, k)
      BY <3>1, <3>2 DEF PartAt
    <3> QED
      BY <3>3, LessIsParted
  <2> QED
    BY <2>3, <2>4, <2>5
<1> QED
  BY <1>2, <1>3, KeysAreTotal

-----------------------------------------------------------------------------
(* Characters.                                                             *)

\* Those of Unicode.
CodePoints == {cp \in Nat : cp <= 1114111 /\ ~(55296 <= cp /\ cp <= 57343)}

\* A byte of ASCII is encoded as itself.
LEMMA EncodedAlone ==
  ASSUME NEW cp \in Nat, cp < 128
  PROVE  codePointToUTF8(cp) = <<cp>>
<1>1. ~(128 <= cp /\ cp < 2048) /\ ~(2048 <= cp /\ cp < 65536)
  BY SMT
<1>2. ~(65536 <= cp /\ cp <= 1114111)
  BY SMT
<1> QED
  BY <1>1, <1>2, SMT DEF codePointToUTF8

\* What the encoder gives, in the four lengths.
LEMMA Encodings ==
  ASSUME NEW cp \in CodePoints
  PROVE  LET e == codePointToUTF8(cp) IN
    /\ e \in Seq(Bytes)
    /\ cp < 128 => Len(e) = 1 /\ e[1] = cp
    /\ 128 <= cp /\ cp < 2048 =>
         Len(e) = 2 /\ e[1] = 192 + (cp \div 64) /\ e[2] = 128 + (cp % 64)
    /\ 2048 <= cp /\ cp < 65536 =>
         /\ Len(e) = 3 /\ e[1] = 224 + (cp \div 4096)
         /\ e[2] = 128 + ((cp \div 64) % 64) /\ e[3] = 128 + (cp % 64)
    /\ cp >= 65536 =>
         /\ Len(e) = 4 /\ e[1] = 240 + (cp \div 262144)
         /\ e[2] = 128 + ((cp \div 4096) % 64)
         /\ e[3] = 128 + ((cp \div 64) % 64) /\ e[4] = 128 + (cp % 64)
<1>0. cp \in Nat /\ cp <= 1114111
  BY SMT DEF CodePoints
<1>1. CASE cp < 128
  <2>1. codePointToUTF8(cp) = <<cp>>
    BY <1>0, <1>1, EncodedAlone, SMT
  <2>2. cp \in Bytes
    BY <1>0, <1>1, SMT DEF Bytes, CodePoints
  <2> QED
    BY <1>0, <1>1, <2>1, <2>2, SMT
<1>2. CASE 128 <= cp /\ cp < 2048
  <2>1. codePointToUTF8(cp) = <<192 + (cp \div 64), 128 + (cp % 64)>>
    <3>1. ~(cp < 128) /\ ~(2048 <= cp) /\ ~(65536 <= cp)
      BY <1>0, <1>2, SMT
    <3> QED
      BY <1>2, <3>1, SMT DEF codePointToUTF8, Low6
  <2>2. 192 + (cp \div 64) \in Bytes /\ 128 + (cp % 64) \in Bytes
    BY <1>0, <1>2, SMT DEF Bytes
  <2> QED
    BY <1>0, <1>2, <2>1, <2>2, SMT
<1>3. CASE 2048 <= cp /\ cp < 65536
  <2>1. codePointToUTF8(cp) =
          <<224 + (cp \div 4096), 128 + ((cp \div 64) % 64), 128 + (cp % 64)>>
    <3>1. ~(cp < 128) /\ ~(cp < 2048) /\ ~(65536 <= cp)
      BY <1>0, <1>3, SMT
    <3> QED
      BY <1>3, <3>1, SMT DEF codePointToUTF8, Low6
  <2>2. /\ 224 + (cp \div 4096) \in Bytes /\ 128 + ((cp \div 64) % 64) \in Bytes
        /\ 128 + (cp % 64) \in Bytes
    BY <1>0, <1>3, SMT DEF Bytes
  <2> QED
    BY <1>0, <1>3, <2>1, <2>2, SMT
<1>4. CASE 65536 <= cp /\ cp <= 1114111
  <2>1. codePointToUTF8(cp) =
          <<240 + (cp \div 262144), 128 + ((cp \div 4096) % 64),
            128 + ((cp \div 64) % 64), 128 + (cp % 64)>>
    BY <1>0, <1>4, SMT DEF codePointToUTF8, Low6
  <2>2. 240 + (cp \div 262144) \in Bytes
    BY <1>0, <1>4, SMT DEF Bytes
  <2>3. /\ 128 + ((cp \div 4096) % 64) \in Bytes
        /\ 128 + ((cp \div 64) % 64) \in Bytes /\ 128 + (cp % 64) \in Bytes
    BY <1>0, <1>4, SMT DEF Bytes
  <2> QED
    BY <1>0, <1>4, <2>1, <2>2, <2>3, SMT
<1> QED
  BY <1>0, <1>1, <1>2, <1>3, <1>4, SMT

\* What the decoder takes the bytes at a place for, by the length that the first
\* announces.
LEMMA Decodings ==
  ASSUME NEW s \in Seq(Bytes), NEW i \in 1..Len(s)
  PROVE  LET b == s[i]
             r == utf8ToCodepoint(s, i)
             two == (b % 32) * 64 + (s[i + 1] % 64)
             three == (b % 16) * 4096 + (s[i + 1] % 64) * 64 + (s[i + 2] % 64)
             four == (b % 8) * 262144 + (s[i + 1] % 64) * 4096
                     + (s[i + 2] % 64) * 64 + (s[i + 3] % 64) IN
    /\ b < 128 => r = <<b, 1>>
    /\ 128 <= b /\ b < 224 =>
         r = IF i + 1 > Len(s) THEN <<Replacement, 1>>
             ELSE IF two < 128 THEN <<Replacement, 2>> ELSE <<two, 2>>
    /\ 224 <= b /\ b < 240 =>
         r = IF i + 2 > Len(s) THEN <<Replacement, 1>>
             ELSE IF three < 2048 \/ (55296 <= three /\ three <= 57343)
                  THEN <<Replacement, 3>> ELSE <<three, 3>>
    /\ 240 <= b /\ b < 248 =>
         r = IF i + 3 > Len(s) THEN <<Replacement, 1>>
             ELSE IF four < 65536 THEN <<Replacement, 4>> ELSE <<four, 4>>
    /\ b >= 248 => r = <<Replacement, 1>>
<1>1. s[i] \in Nat /\ s[i] < 256 /\ i \in Nat /\ Len(s) \in Nat /\ i <= Len(s)
  <2>1. s[i] \in Bytes
    BY ElementOfSeq, SMT
  <2> QED
    BY <2>1, LenProperties, SMT DEF Bytes
<1>2. ASSUME s[i] < 128 PROVE utf8ToCodepoint(s, i) = <<s[i], 1>>
  <2>1. Announced(s[i]) = 1
    BY <1>1, <1>2, SMT DEF Announced
  <2>2. Joined(s, i, 1) = s[i] /\ ~IsInvalid(s[i], 1)
    BY <1>1, SMT DEF Joined, IsInvalid
  <2> QED
    BY <1>1, <1>2, <2>1, <2>2, SMT DEF utf8ToCodepoint
<1> DEFINE two == (s[i] % 32) * 64 + (s[i + 1] % 64)
<1>3. ASSUME 128 <= s[i] /\ s[i] < 224
      PROVE  utf8ToCodepoint(s, i) =
               IF i + 1 > Len(s) THEN <<Replacement, 1>>
               ELSE IF two < 128 THEN <<Replacement, 2>> ELSE <<two, 2>>
  <2>1. Announced(s[i]) = 2
    BY <1>1, <1>3, SMT DEF Announced
  <2>2. Joined(s, i, 2) = two
    BY SMT DEF Joined, Low6
  <2>3. IsInvalid(two, 2) <=> two < 128
    BY SMT DEF IsInvalid
  <2> HIDE DEF two
  <2>4. utf8ToCodepoint(s, i) =
          IF i + 1 > Len(s) THEN <<Replacement, 1>>
          ELSE <<IF IsInvalid(two, 2) THEN Replacement ELSE two, 2>>
    BY <1>1, <1>3, <2>1, <2>2, SMT DEF utf8ToCodepoint
  <2> QED
    BY <2>3, <2>4, SMTT(60)
<1> DEFINE three == (s[i] % 16) * 4096 + (s[i + 1] % 64) * 64 + (s[i + 2] % 64)
<1>4. ASSUME 224 <= s[i] /\ s[i] < 240
      PROVE  utf8ToCodepoint(s, i) =
               IF i + 2 > Len(s) THEN <<Replacement, 1>>
               ELSE IF three < 2048 \/ (55296 <= three /\ three <= 57343)
                    THEN <<Replacement, 3>> ELSE <<three, 3>>
  <2>1. Announced(s[i]) = 3
    BY <1>1, <1>4, SMT DEF Announced
  <2>2. Joined(s, i, 3) = three
    BY SMT DEF Joined, Low6
  <2>3. IsInvalid(three, 3) <=>
          three < 2048 \/ (55296 <= three /\ three <= 57343)
    BY SMT DEF IsInvalid
  <2> HIDE DEF three
  <2>4. utf8ToCodepoint(s, i) =
          IF i + 2 > Len(s) THEN <<Replacement, 1>>
          ELSE <<IF IsInvalid(three, 3) THEN Replacement ELSE three, 3>>
    BY <1>1, <1>4, <2>1, <2>2, SMTT(60) DEF utf8ToCodepoint
  <2> QED
    BY <2>3, <2>4, SMTT(60)
<1> DEFINE four == (s[i] % 8) * 262144 + (s[i + 1] % 64) * 4096
                   + (s[i + 2] % 64) * 64 + (s[i + 3] % 64)
<1>5. ASSUME 240 <= s[i] /\ s[i] < 248
      PROVE  utf8ToCodepoint(s, i) =
               IF i + 3 > Len(s) THEN <<Replacement, 1>>
               ELSE IF four < 65536 THEN <<Replacement, 4>> ELSE <<four, 4>>
  <2>1. Announced(s[i]) = 4
    BY <1>1, <1>5, SMT DEF Announced
  <2>2. Joined(s, i, 4) = four
    BY SMT DEF Joined, Low6
  <2>3. IsInvalid(four, 4) <=> four < 65536
    BY SMT DEF IsInvalid
  <2> HIDE DEF four
  <2>4. utf8ToCodepoint(s, i) =
          IF i + 3 > Len(s) THEN <<Replacement, 1>>
          ELSE <<IF IsInvalid(four, 4) THEN Replacement ELSE four, 4>>
    BY <1>1, <1>5, <2>1, <2>2, SMTT(60) DEF utf8ToCodepoint
  <2> QED
    BY <2>3, <2>4, SMTT(60)
<1>6. ASSUME s[i] >= 248 PROVE utf8ToCodepoint(s, i) = <<Replacement, 1>>
  <2>1. Announced(s[i]) = 1
    BY <1>1, <1>6, SMT DEF Announced
  <2> QED
    BY <1>1, <1>6, <2>1, SMT DEF utf8ToCodepoint
<1> QED
  BY <1>2, <1>3, <1>4, <1>5, <1>6, SMT

\* Six bits of a number, in a byte that continues a character.
LEMMA SixBits ==
  ASSUME NEW x \in Nat
  PROVE  /\ x \div 64 \in Nat /\ x = (x \div 64) * 64 + (x % 64)
         /\ x % 64 \in Nat /\ x % 64 < 64
         /\ 128 + (x % 64) \in Nat /\ (128 + (x % 64)) % 64 = x % 64
  BY SMT

\* Taking six bits off twice, and three times.
LEMMA SixBitsAgain ==
  ASSUME NEW x \in Nat
  PROVE  /\ x \div 4096 \in Nat /\ (x \div 64) \div 64 = x \div 4096
         /\ x \div 262144 \in Nat /\ (x \div 4096) \div 64 = x \div 262144
  BY SMT

\* The bytes of a part of a string, in the whole.
LEMMA Within ==
  ASSUME NEW before \in Seq(Bytes), NEW e \in Seq(Bytes), NEW after \in Seq(Bytes)
  PROVE  LET s == before \o e \o after
             i == Len(before) + 1 IN
    /\ s \in Seq(Bytes) /\ i \in Nat /\ i > 0 /\ Len(s) \in Nat
    /\ i + Len(e) - 1 <= Len(s)
    /\ Len(e) >= 1 => s[i] = e[1]
    /\ Len(e) >= 2 => s[i + 1] = e[2]
    /\ Len(e) >= 3 => s[i + 2] = e[3]
    /\ Len(e) >= 4 => s[i + 3] = e[4]
<1> DEFINE p == before \o e
           s == p \o after
           n == Len(before)
<1>1. n \in Nat /\ Len(e) \in Nat /\ Len(after) \in Nat
  BY LenProperties, SMT
<1>2. p \in Seq(Bytes) /\ Len(p) = n + Len(e)
  BY ConcatProperties, SMT
<1>3. ASSUME NEW k \in 1..Len(e) PROVE p[n + k] = e[k]
  <2>1. n + k \in 1..(n + Len(e)) /\ ~(n + k <= n) /\ n + k - n = k
    BY <1>1, SMT
  <2>2. p[n + k] = IF n + k <= n THEN before[n + k] ELSE e[n + k - n]
    BY <2>1, ConcatProperties, SMT
  <2> QED
    BY <2>1, <2>2, SMT
<1> HIDE DEF p
<1>4. s \in Seq(Bytes) /\ Len(s) = Len(p) + Len(after)
  BY <1>2, ConcatProperties
<1>5. ASSUME NEW k \in 1..Len(e) PROVE s[n + k] = e[k]
  <2>1. n + k \in 1..(Len(p) + Len(after)) /\ n + k <= Len(p)
    BY <1>1, <1>2, SMT
  <2>2. s[n + k] = IF n + k <= Len(p) THEN p[n + k] ELSE after[n + k - Len(p)]
    BY <1>2, <2>1, ConcatProperties, SMT
  <2> QED
    BY <1>3, <2>1, <2>2, SMT
<1> HIDE DEF s, n
<1>6. /\ n + 1 + 1 = n + 2 /\ n + 1 + 2 = n + 3 /\ n + 1 + 3 = n + 4
      /\ Len(e) >= 1 => 1 \in 1..Len(e)
      /\ Len(e) >= 2 => 2 \in 1..Len(e)
      /\ Len(e) >= 3 => 3 \in 1..Len(e)
      /\ Len(e) >= 4 => 4 \in 1..Len(e)
  BY <1>1, SMT
<1>7. /\ Len(e) >= 1 => s[n + 1] = e[1]
      /\ Len(e) >= 2 => s[n + 1 + 1] = e[2]
      /\ Len(e) >= 3 => s[n + 1 + 2] = e[3]
      /\ Len(e) >= 4 => s[n + 1 + 3] = e[4]
  BY <1>5, <1>6, SMT
<1>8. /\ s \in Seq(Bytes) /\ n + 1 \in Nat /\ n + 1 > 0 /\ Len(s) \in Nat
      /\ n + 1 + Len(e) - 1 <= Len(s)
  BY <1>1, <1>2, <1>4, SMT
<1> QED
  BY <1>7, <1>8, SMT DEF s, p, n

\* The decoder takes what the bytes are put together to, unless it is invalid.
LEMMA Decodes ==
  ASSUME NEW s, NEW i, NEW cp, NEW n,
         Announced(s[i]) = n, Joined(s, i, n) = cp, ~IsInvalid(cp, n),
         ~(i + n - 1 > Len(s)), ~(s[i] >= 248)
  PROVE  utf8ToCodepoint(s, i) = <<cp, n>>
  BY SMT DEF utf8ToCodepoint

\* A character of one byte.
LEMMA OneByte ==
  ASSUME NEW cp \in Nat, cp < 128,
         NEW s, NEW i \in Nat, Len(s) \in Nat, i <= Len(s), s[i] = cp
  PROVE  utf8ToCodepoint(s, i) = <<cp, 1>>
<1>1. Announced(s[i]) = 1 /\ Joined(s, i, 1) = cp
  BY SMT DEF Announced, Joined
<1>2. ~IsInvalid(cp, 1)
  BY SMT DEF IsInvalid
<1>3. ~(i + 1 - 1 > Len(s)) /\ ~(s[i] >= 248)
  BY SMT
<1> QED
  BY <1>1, <1>2, <1>3, Decodes, SMT

\* The bits of a byte that continues a character.
LEMMA LowBits == ASSUME NEW x \in Nat, x < 64 PROVE (128 + x) % 64 = x
  BY SMT

\* At i there is a character of two bytes, with these bits of cp.
IsTwo(s, i, cp, q, r) ==
  /\ q \in Nat /\ q < 32 /\ r \in Nat /\ r < 64
  /\ cp = q * 64 + r /\ 128 <= cp
  /\ i \in Nat /\ Len(s) \in Nat /\ i + 1 <= Len(s)
  /\ s[i] = 192 + q /\ s[i + 1] = 128 + r

\* It is decoded as cp.
LEMMA TwoBytes ==
  ASSUME NEW s, NEW i, NEW cp, NEW q, NEW r, IsTwo(s, i, cp, q, r)
  PROVE  utf8ToCodepoint(s, i) = <<cp, 2>>
<1> USE DEF IsTwo
<1>1. s[i] % 32 = q /\ s[i + 1] % 64 = r
  BY LowBits, SMT
<1>2. Joined(s, i, 2) = (s[i] % 32) * 64 + (s[i + 1] % 64)
  BY SMT DEF Joined, Low6
<1>3. Announced(s[i]) = 2 /\ ~(s[i] >= 248)
  BY SMT DEF Announced
<1>4. ~IsInvalid(cp, 2) /\ ~(i + 2 - 1 > Len(s))
  BY SMT DEF IsInvalid
<1>5. Joined(s, i, 2) = cp
  BY <1>1, <1>2, SMT
<1> QED
  BY <1>3, <1>4, <1>5, Decodes, SMT

\* At i there is a character of three bytes, which is no surrogate, with these bits of cp.
IsThree(s, i, cp, q, m, r) ==
  /\ q \in Nat /\ q < 16 /\ m \in Nat /\ m < 64 /\ r \in Nat /\ r < 64
  /\ cp = q * 4096 + m * 64 + r /\ 2048 <= cp /\ ~(55296 <= cp /\ cp <= 57343)
  /\ i \in Nat /\ Len(s) \in Nat /\ i + 2 <= Len(s)
  /\ s[i] = 224 + q /\ s[i + 1] = 128 + m /\ s[i + 2] = 128 + r

\* It is decoded as cp.
LEMMA ThreeBytes ==
  ASSUME NEW s, NEW i, NEW cp, NEW q, NEW m, NEW r, IsThree(s, i, cp, q, m, r)
  PROVE  utf8ToCodepoint(s, i) = <<cp, 3>>
<1> USE DEF IsThree
<1>1. s[i] % 16 = q /\ s[i + 1] % 64 = m /\ s[i + 2] % 64 = r
  BY LowBits, SMT
<1>2. Joined(s, i, 3) =
        (s[i] % 16) * 4096 + (s[i + 1] % 64) * 64 + (s[i + 2] % 64)
  BY SMT DEF Joined, Low6
<1>3. Announced(s[i]) = 3 /\ ~(s[i] >= 248)
  BY SMT DEF Announced
<1>4. ~IsInvalid(cp, 3) /\ ~(i + 3 - 1 > Len(s))
  BY SMT DEF IsInvalid
<1>5. Joined(s, i, 3) = cp
  BY <1>1, <1>2, SMTT(60)
<1> QED
  BY <1>3, <1>4, <1>5, Decodes, SMTT(60)

\* At i there is a character of four bytes, with these bits of cp.
IsFour(s, i, cp, q, k, m, r) ==
  /\ q \in Nat /\ q < 8 /\ k \in Nat /\ k < 64
  /\ m \in Nat /\ m < 64 /\ r \in Nat /\ r < 64
  /\ cp = q * 262144 + k * 4096 + m * 64 + r /\ 65536 <= cp
  /\ i \in Nat /\ Len(s) \in Nat /\ i + 3 <= Len(s)
  /\ s[i] = 240 + q /\ s[i + 1] = 128 + k
  /\ s[i + 2] = 128 + m /\ s[i + 3] = 128 + r

\* It is decoded as cp.
LEMMA FourBytes ==
  ASSUME NEW s, NEW i, NEW cp, NEW q, NEW k, NEW m, NEW r,
         IsFour(s, i, cp, q, k, m, r)
  PROVE  utf8ToCodepoint(s, i) = <<cp, 4>>
<1> USE DEF IsFour
<1>1. /\ s[i] % 8 = q /\ s[i + 1] % 64 = k
      /\ s[i + 2] % 64 = m /\ s[i + 3] % 64 = r
  BY LowBits, SMTT(60)
<1>2. Joined(s, i, 4) =
        (s[i] % 8) * 262144 + (s[i + 1] % 64) * 4096
          + (s[i + 2] % 64) * 64 + (s[i + 3] % 64)
  BY SMT DEF Joined, Low6
<1>3. Announced(s[i]) = 4 /\ ~(s[i] >= 248)
  BY SMT DEF Announced
<1>4. ~IsInvalid(cp, 4) /\ ~(i + 4 - 1 > Len(s))
  BY SMT DEF IsInvalid
<1>5. Joined(s, i, 4) = cp
  BY <1>1, <1>2, SMTT(60)
<1> QED
  BY <1>3, <1>4, <1>5, Decodes, SMTT(60)

\* The parts of a code point that its bytes hold.
LEMMA Parts ==
  ASSUME NEW cp \in Nat
  PROVE  /\ cp \div 64 \in Nat /\ cp \div 4096 \in Nat /\ cp \div 262144 \in Nat
         /\ cp % 64 \in Nat /\ cp % 64 < 64
         /\ (cp \div 64) % 64 \in Nat /\ (cp \div 64) % 64 < 64
         /\ (cp \div 4096) % 64 \in Nat /\ (cp \div 4096) % 64 < 64
         /\ cp < 2048 => cp \div 64 < 32
         /\ cp < 65536 => cp \div 4096 < 16
         /\ cp <= 1114111 => cp \div 262144 < 8
         /\ cp = (cp \div 64) * 64 + (cp % 64)
         /\ cp = (cp \div 4096) * 4096 + ((cp \div 64) % 64) * 64 + (cp % 64)
         /\ cp = (cp \div 262144) * 262144 + ((cp \div 4096) % 64) * 4096
                 + ((cp \div 64) % 64) * 64 + (cp % 64)
<1> DEFINE q2 == cp \div 64
           q3 == cp \div 4096
           q4 == cp \div 262144
           k == q3 % 64
           m == q2 % 64
           r == cp % 64
<1>1. q2 \in Nat /\ q3 \in Nat /\ q4 \in Nat /\ q2 \div 64 = q3 /\ q3 \div 64 = q4
  BY SixBits, SixBitsAgain, SMT
<1>2. cp = q2 * 64 + r /\ r \in Nat /\ r < 64
  BY SixBits, SMT
<1>3. q2 = q3 * 64 + m /\ m \in Nat /\ m < 64
  <2> HIDE DEF q2, q3
  <2> QED
    BY <1>1, SixBits, SMT
<1>4. q3 = q4 * 64 + k /\ k \in Nat /\ k < 64
  <2> HIDE DEF q3, q4
  <2> QED
    BY <1>1, SixBits, SMT
<1> HIDE DEF q2, q3, q4, k, m, r
<1>5. cp = q3 * 4096 + m * 64 + r
  BY <1>1, <1>2, <1>3, SMT
<1>6. cp = q4 * 262144 + k * 4096 + m * 64 + r
  BY <1>1, <1>4, <1>5, <1>3, SMT
<1>7. cp < 2048 => q2 < 32
  BY <1>1, <1>2, SMT
<1>8. cp < 65536 => q3 < 16
  BY <1>1, <1>2, <1>3, <1>5, SMT
<1>9. cp <= 1114111 => q4 < 8
  BY <1>1, <1>2, <1>3, <1>4, <1>6, SMT
<1> QED
  BY <1>1, <1>2, <1>3, <1>4, <1>5, <1>6, <1>7, <1>8, <1>9, SMT DEF q2, q3, q4, k, m, r

\* A code point that was encoded is decoded as itself, wherever it is in a
\* string and whatever is around it, and takes just the bytes that it was given
\* (codePointToUTF8 in json_tool.h, utf8ToCodepoint in json_writer.cc).
THEOREM CodePointsComeBack ==
  ASSUME NEW cp \in CodePoints, NEW before \in Seq(Bytes), NEW after \in Seq(Bytes)
  PROVE  utf8ToCodepoint(before \o codePointToUTF8(cp) \o after, Len(before) + 1)
           = <<cp, Len(codePointToUTF8(cp))>>
<1> DEFINE e == codePointToUTF8(cp)
           s == before \o e \o after
           i == Len(before) + 1
<1>1. cp \in Nat /\ cp <= 1114111 /\ ~(55296 <= cp /\ cp <= 57343)
  BY SMT DEF CodePoints
<1>2. e \in Seq(Bytes)
  BY Encodings, SMT
<1>3. /\ s \in Seq(Bytes) /\ i \in Nat /\ i > 0 /\ Len(s) \in Nat
      /\ i + Len(e) - 1 <= Len(s)
      /\ Len(e) >= 1 => s[i] = e[1]
      /\ Len(e) >= 2 => s[i + 1] = e[2]
      /\ Len(e) >= 3 => s[i + 2] = e[3]
      /\ Len(e) >= 4 => s[i + 3] = e[4]
  <2> HIDE DEF e
  <2> QED
    BY <1>2, Within
<1> HIDE DEF s, i
<1>4. CASE cp < 128
  <2>1. Len(e) = 1 /\ e[1] = cp
    BY <1>4, Encodings, SMT
  <2> HIDE DEF e
  <2>2. i <= Len(s) /\ s[i] = cp
    BY <1>3, <2>1, SMT
  <2>3. utf8ToCodepoint(s, i) = <<cp, 1>>
    BY <1>1, <1>3, <1>4, <2>1, <2>2, OneByte, SMT
  <2> QED
    BY <2>1, <2>3, SMT DEF s, e, i
<1>5. CASE 128 <= cp /\ cp < 2048
  <2> DEFINE q == cp \div 64
             r == cp % 64
  <2>1. Len(e) = 2 /\ e[1] = 192 + q /\ e[2] = 128 + r
    BY <1>5, Encodings, SMT
  <2>2. /\ q \in Nat /\ q < 32 /\ r \in Nat /\ r < 64 /\ cp = q * 64 + r
    BY <1>1, <1>5, Parts, SMT
  <2> HIDE DEF e, q, r
  <2>3. /\ s[i] = 192 + q /\ s[i + 1] = 128 + r /\ i + 1 <= Len(s)
        /\ i \in Nat /\ Len(s) \in Nat
    BY <1>3, <2>1, SMT
  <2>4. utf8ToCodepoint(s, i) = <<cp, 2>>
    <3>1. IsTwo(s, i, cp, q, r)
      BY <1>5, <2>2, <2>3, SMT DEF IsTwo
    <3> QED
      BY <3>1, TwoBytes
  <2> QED
    BY <2>1, <2>4, SMT DEF s, e, i
<1>6. CASE 2048 <= cp /\ cp < 65536
  <2> DEFINE q == cp \div 4096
             m == (cp \div 64) % 64
             r == cp % 64
  <2>1. Len(e) = 3 /\ e[1] = 224 + q /\ e[2] = 128 + m /\ e[3] = 128 + r
    BY <1>6, Encodings, SMT
  <2>2. /\ q \in Nat /\ q < 16 /\ m \in Nat /\ m < 64 /\ r \in Nat /\ r < 64
        /\ cp = q * 4096 + m * 64 + r
    BY <1>1, <1>6, Parts, SMT
  <2> HIDE DEF e, q, m, r
  <2>3. /\ s[i] = 224 + q /\ s[i + 1] = 128 + m /\ s[i + 2] = 128 + r
        /\ i + 2 <= Len(s) /\ i \in Nat /\ Len(s) \in Nat
    BY <1>3, <2>1, SMT
  <2>4. 2048 <= cp /\ ~(55296 <= cp /\ cp <= 57343)
    BY <1>1, <1>6, SMT
  <2>5. utf8ToCodepoint(s, i) = <<cp, 3>>
    <3>1. IsThree(s, i, cp, q, m, r)
      BY <2>2, <2>3, <2>4, SMT DEF IsThree
    <3> QED
      BY <3>1, ThreeBytes
  <2> QED
    BY <2>1, <2>5, SMT DEF s, e, i
<1>7. CASE cp >= 65536
  <2> DEFINE q == cp \div 262144
             k == (cp \div 4096) % 64
             m == (cp \div 64) % 64
             r == cp % 64
  <2>1. /\ Len(e) = 4 /\ e[1] = 240 + q /\ e[2] = 128 + k
        /\ e[3] = 128 + m /\ e[4] = 128 + r
    BY <1>7, Encodings, SMT
  <2>2. /\ q \in Nat /\ q < 8 /\ k \in Nat /\ k < 64
        /\ m \in Nat /\ m < 64 /\ r \in Nat /\ r < 64
        /\ cp = q * 262144 + k * 4096 + m * 64 + r
    BY <1>1, <1>7, Parts, SMT
  <2> HIDE DEF e, q, k, m, r
  <2>3. /\ s[i] = 240 + q /\ s[i + 1] = 128 + k
        /\ s[i + 2] = 128 + m /\ s[i + 3] = 128 + r /\ i + 3 <= Len(s)
        /\ i \in Nat /\ Len(s) \in Nat
    BY <1>3, <2>1, SMT
  <2>4. utf8ToCodepoint(s, i) = <<cp, 4>>
    <3>1. IsFour(s, i, cp, q, k, m, r)
      BY <1>7, <2>2, <2>3, SMT DEF IsFour
    <3> QED
      BY <3>1, FourBytes
  <2> QED
    BY <2>1, <2>4, SMT DEF s, e, i
<1> QED
  BY <1>1, <1>4, <1>5, <1>6, <1>7, SMT

\* Whatever bytes a string has, the decoder takes one to four of them, never
\* past the end, and finds no surrogate and nothing of more than 21 bits.
LEMMA DecodedCodePoint ==
  ASSUME NEW s \in Seq(Bytes), NEW i \in 1..Len(s)
  PROVE  LET u == utf8ToCodepoint(s, i) IN
    /\ u[1] \in Nat /\ u[1] < 2097152 /\ ~(55296 <= u[1] /\ u[1] <= 57343)
    /\ u[2] \in 1..4 /\ i + u[2] - 1 <= Len(s)
<1> DEFINE u == utf8ToCodepoint(s, i)
           Taken(v) == /\ v[1] \in Nat /\ v[1] < 2097152
                       /\ ~(55296 <= v[1] /\ v[1] <= 57343)
                       /\ v[2] \in 1..4 /\ i + v[2] - 1 <= Len(s)
<1> SUFFICES Taken(u)
  OBVIOUS
<1>1. /\ s[i] \in Nat /\ s[i] < 256 /\ i \in Nat /\ Len(s) \in Nat /\ i <= Len(s)
      /\ \A j \in 1..Len(s) : s[j] \in Nat
  BY LenProperties, ElementOfSeq, SMT DEF Bytes
<1>2. CASE s[i] < 128
  <2>1. u = <<s[i], 1>>
    BY <1>2, Decodings, SMT
  <2> QED
    BY <1>1, <1>2, <2>1, SMT
<1>3. CASE 128 <= s[i] /\ s[i] < 224
  <2> DEFINE two == (s[i] % 32) * 64 + (s[i + 1] % 64)
  <2>1. u = IF i + 1 > Len(s) THEN <<Replacement, 1>>
            ELSE IF two < 128 THEN <<Replacement, 2>> ELSE <<two, 2>>
    BY <1>3, Decodings, SMT
  <2>2. i + 1 <= Len(s) => two \in Nat /\ two < 2048
    BY <1>1, SMTT(60)
  <2> HIDE DEF two, u, Taken
  <2>3. \/ u = <<Replacement, 1>>
        \/ i + 1 <= Len(s) /\ u = <<Replacement, 2>>
        \/ i + 1 <= Len(s) /\ u = <<two, 2>> /\ ~(two < 128)
    BY <1>1, <2>1, SMT
  <2>4. Taken(<<Replacement, 1>>)
    BY <1>1, SMT DEF Taken, Replacement
  <2>5. i + 1 <= Len(s) => Taken(<<Replacement, 2>>)
    BY <1>1, SMT DEF Taken, Replacement
  <2>6. i + 1 <= Len(s) /\ ~(two < 128) => Taken(<<two, 2>>)
    BY <1>1, <2>2, SMT DEF Taken
  <2> QED
    BY <2>3, <2>4, <2>5, <2>6
<1>4. CASE 224 <= s[i] /\ s[i] < 240
  <2> DEFINE three == (s[i] % 16) * 4096 + (s[i + 1] % 64) * 64 + (s[i + 2] % 64)
             wrong == three < 2048 \/ (55296 <= three /\ three <= 57343)
  <2>1. u = IF i + 2 > Len(s) THEN <<Replacement, 1>>
            ELSE IF wrong THEN <<Replacement, 3>> ELSE <<three, 3>>
    BY <1>4, Decodings, SMT
  <2>2. i + 2 <= Len(s) => three \in Nat /\ three < 65536
    <3> DEFINE Fits(x, y, z) ==
                 LET c == (x % 16) * 4096 + (y % 64) * 64 + (z % 64) IN
                 c \in Nat /\ c < 65536
    <3>1. ASSUME NEW x \in Nat, NEW y \in Nat, NEW z \in Nat PROVE Fits(x, y, z)
      BY SMT
    <3> HIDE DEF Fits
    <3>2. i + 2 <= Len(s) => s[i + 1] \in Nat /\ s[i + 2] \in Nat
      BY <1>1, SMT
    <3>3. i + 2 <= Len(s) => Fits(s[i], s[i + 1], s[i + 2])
      BY <1>1, <3>1, <3>2, Zenon
    <3> QED
      BY <3>3, SMT DEF Fits
  <2> HIDE DEF three, wrong, u, Taken
  <2>3. \/ u = <<Replacement, 1>>
        \/ i + 2 <= Len(s) /\ u = <<Replacement, 3>>
        \/ i + 2 <= Len(s) /\ u = <<three, 3>> /\ ~wrong
    BY <1>1, <2>1, SMT
  <2>4. Taken(<<Replacement, 1>>)
    BY <1>1, SMT DEF Taken, Replacement
  <2>5. i + 2 <= Len(s) => Taken(<<Replacement, 3>>)
    BY <1>1, SMT DEF Taken, Replacement
  <2>6. i + 2 <= Len(s) /\ ~wrong => Taken(<<three, 3>>)
    BY <1>1, <2>2, SMT DEF Taken, wrong
  <2> QED
    BY <2>3, <2>4, <2>5, <2>6
<1>5. CASE 240 <= s[i] /\ s[i] < 248
  <2> DEFINE four == (s[i] % 8) * 262144 + (s[i + 1] % 64) * 4096
                     + (s[i + 2] % 64) * 64 + (s[i + 3] % 64)
  <2>1. u = IF i + 3 > Len(s) THEN <<Replacement, 1>>
            ELSE IF four < 65536 THEN <<Replacement, 4>> ELSE <<four, 4>>
    BY <1>5, Decodings, SMT
  <2>2. i + 3 <= Len(s) => four \in Nat /\ four < 2097152
    <3> DEFINE Fits(x, y, z, w) ==
                 LET c == (x % 8) * 262144 + (y % 64) * 4096
                          + (z % 64) * 64 + (w % 64) IN
                 c \in Nat /\ c < 2097152
    <3>1. ASSUME NEW x \in Nat, NEW y \in Nat, NEW z \in Nat, NEW w \in Nat
          PROVE  Fits(x, y, z, w)
      BY SMT
    <3> HIDE DEF Fits
    <3>2. i + 3 <= Len(s) => s[i + 1] \in Nat /\ s[i + 2] \in Nat /\ s[i + 3] \in Nat
      BY <1>1, SMT
    <3>3. i + 3 <= Len(s) => Fits(s[i], s[i + 1], s[i + 2], s[i + 3])
      BY <1>1, <3>1, <3>2, Zenon
    <3> QED
      BY <3>3, SMT DEF Fits
  <2> HIDE DEF four, u, Taken
  <2>3. \/ u = <<Replacement, 1>>
        \/ i + 3 <= Len(s) /\ u = <<Replacement, 4>>
        \/ i + 3 <= Len(s) /\ u = <<four, 4>> /\ ~(four < 65536)
    BY <1>1, <2>1, SMT
  <2>4. Taken(<<Replacement, 1>>)
    BY <1>1, SMT DEF Taken, Replacement
  <2>5. i + 3 <= Len(s) => Taken(<<Replacement, 4>>)
    BY <1>1, SMT DEF Taken, Replacement
  <2>6. i + 3 <= Len(s) /\ ~(four < 65536) => Taken(<<four, 4>>)
    BY <1>1, <2>2, SMT DEF Taken
  <2> QED
    BY <2>3, <2>4, <2>5, <2>6, SMTT(60)
<1>6. CASE s[i] >= 248
  <2>1. u = <<Replacement, 1>>
    BY <1>6, Decodings, SMT
  <2> QED
    BY <1>1, <2>1, SMT DEF Replacement
<1> QED
  BY <1>1, <1>2, <1>3, <1>4, <1>5, <1>6, SMT

\* A surrogate pair gives the number back that it was made from, up to 20 bits.
LEMMA PairsComeBack ==
  ASSUME NEW n \in Nat, 65536 <= n, n < 2097152
  PROVE  LET p == Characters(n) IN
    /\ Len(p) = 2 /\ p[1].c = "u" /\ p[2].c = "u"
    /\ IsHigh(p[1].n) /\ 56320 <= p[2].n /\ p[2].n <= 57343
    /\ p[1].n \in Nat /\ p[2].n \in Nat
    /\ n <= 1114111 => PairValue(p[1].n, p[2].n) = n
<1> DEFINE bits == n - 65536
           h == 55296 + ((bits \div 1024) % 1024)
           l == 56320 + (bits % 1024)
<1>1. bits \in Nat
  BY SMT
<1>2. Characters(n) = <<Hex(h), Hex(l)>>
  BY SMT DEF Characters, Pair
<1>3. Hex(h).c = "u" /\ Hex(l).c = "u" /\ Hex(h).n = h /\ Hex(l).n = l
  BY SMT DEF Hex
<1>4. IsHigh(h) /\ 56320 <= l /\ l <= 57343 /\ h \in Nat /\ l \in Nat
  BY <1>1, SMT DEF IsHigh
<1>5. ASSUME n <= 1114111 PROVE PairValue(h, l) = n
  <2>1. bits \div 1024 \in Nat /\ bits \div 1024 < 1024
    BY <1>1, <1>5, SMT
  <2>2. h % 1024 = bits \div 1024
    BY <2>1, SMT
  <2>3. l % 1024 = bits % 1024
    BY <1>1, SMT
  <2>4. bits = (bits \div 1024) * 1024 + (bits % 1024)
    BY <1>1, SMT
  <2> QED
    BY <1>1, <2>2, <2>3, <2>4, SMT DEF PairValue
<1> HIDE DEF h, l
<1> QED
  BY <1>2, <1>3, <1>4, <1>5, SMT

\* What the writer makes of a code point is read back as that code point: as a
\* byte, as an escape that nothing has to follow, or as a surrogate pair
\* (valueToQuotedStringN, json_writer.cc, and decodeUnicodeCodePoint,
\* json_reader.cc).
THEOREM CharactersComeBack ==
  ASSUME NEW cp \in CodePoints
  PROVE  LET e == Characters(cp) IN
    \/ Len(e) = 1 /\ e[1].c = "raw" /\ <<e[1].n>> = codePointToUTF8(cp)
    \/ Len(e) = 1 /\ e[1].c = "u" /\ ~IsHigh(e[1].n) /\ e[1].n = cp
    \/ /\ Len(e) = 2 /\ e[1].c = "u" /\ e[2].c = "u"
       /\ IsHigh(e[1].n) /\ PairValue(e[1].n, e[2].n) = cp
<1>1. cp \in Nat /\ cp <= 1114111 /\ ~(55296 <= cp /\ cp <= 57343)
  BY SMT DEF CodePoints
<1>2. CASE cp < 32
  BY <1>1, <1>2, SMT DEF Characters, Hex, IsHigh
<1>3. CASE 32 <= cp /\ cp < 128
  <2>1. codePointToUTF8(cp) = <<cp>>
    BY <1>1, <1>3, EncodedAlone, SMT
  <2> QED
    BY <1>1, <1>3, <2>1, SMT DEF Characters, Raw
<1>4. CASE 128 <= cp /\ cp < 65536
  BY <1>1, <1>4, SMT DEF Characters, Hex, IsHigh
<1>5. CASE 65536 <= cp
  BY <1>1, <1>5, PairsComeBack, SMT
<1> QED
  BY <1>1, <1>2, <1>3, <1>4, <1>5, SMT

\* Whatever bytes a string has, UTF-8 or not, what is written for them can be
\* read: each number has four digits, and after one that must be followed by
\* another there is another; and the writer never looks past the end.
THEOREM AnyStringIsReadable ==
  ASSUME NEW s \in Seq(Bytes), NEW i \in 1..Len(s)
  PROVE  LET u == utf8ToCodepoint(s, i)
             e == Characters(u[1]) IN
    /\ u[2] \in 1..4 /\ i + u[2] - 1 <= Len(s)
    /\ \A k \in 1..Len(e) :
         /\ e[k].n \in Nat /\ e[k].n < 65536
         /\ e[k].c = "u" /\ IsHigh(e[k].n) => k + 1 = Len(e) /\ e[k + 1].c = "u"
<1> DEFINE u == utf8ToCodepoint(s, i)
           cp == u[1]
           e == Characters(cp)
<1>1. /\ cp \in Nat /\ cp < 2097152 /\ ~(55296 <= cp /\ cp <= 57343)
      /\ u[2] \in 1..4 /\ i + u[2] - 1 <= Len(s)
  BY DecodedCodePoint, SMT
<1> HIDE DEF u
<1>2. ASSUME NEW k \in 1..Len(e)
      PROVE  /\ e[k].n \in Nat /\ e[k].n < 65536
             /\ e[k].c = "u" /\ IsHigh(e[k].n) => k + 1 = Len(e) /\ e[k + 1].c = "u"
  <2>1. CASE cp < 65536
    <3> HIDE DEF cp
    <3>1. e = <<Hex(cp)>> \/ e = <<Raw(cp)>>
      BY <1>1, <2>1, SMT DEF Characters
    <3> HIDE DEF e
    <3>2. ASSUME NEW x, e = <<x>> PROVE k = 1 /\ e[k] = x
      BY <3>2, SMT
    <3>3. Hex(cp).n = cp /\ Raw(cp).n = cp
      BY SMT DEF Hex, Raw
    <3>4. k = 1 /\ e[k].n = cp
      BY <3>1, <3>2, <3>3
    <3> QED
      BY <1>1, <2>1, <3>4, SMT DEF IsHigh
  <2>2. CASE 65536 <= cp
    <3> HIDE DEF cp
    <3>1. /\ Len(e) = 2 /\ e[1].c = "u" /\ e[2].c = "u"
          /\ IsHigh(e[1].n) /\ 56320 <= e[2].n /\ e[2].n <= 57343
          /\ e[1].n \in Nat /\ e[2].n \in Nat
      BY <1>1, <2>2, PairsComeBack, SMT
    <3> HIDE DEF e
    <3>2. k = 1 \/ k = 2
      BY <3>1, SMT
    <3> QED
      BY <3>1, <3>2, SMTT(60) DEF IsHigh
  <2> QED
    BY <1>1, <2>1, <2>2, SMT
<1> QED
  BY <1>1, <1>2, SMT DEF u

=============================================================================
