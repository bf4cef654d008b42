------------------------------ MODULE JsonText ------------------------------
(***************************************************************************)
(* Values to JSON text and back: json_writer.cc as FastWriter and          *)
(* StreamWriterBuilder use it, and OurReader (json_reader.cc) with the     *)
(* settings of CharReaderBuilder that the service leaves alone.  A text is *)
(* the sequence of its tokens.  A string token holds its characters (see   *)
(* JsonChars); a number is its sign and its digits.                        *)
(***************************************************************************)
EXTENDS JsonValue, JsonChars

CONSTANT StackLimit     \* stackLimit

ASSUME StackAssumption == StackLimit \in Nat \ {0}

Sym(t) == [t |-> t]

-----------------------------------------------------------------------------
(* Writing.                                                                *)

RECURSIVE Escaped(_, _), Digits(_), Tokens(_), Children(_, _)

ShortEscapes == {34, 92, 8, 12, 10, 13, 9}

\* valueToQuotedStringN, from byte i on.  A string that needs no escapes is
\* copied, which comes to the same.
Escaped(s, i) ==
  IF i > Len(s) THEN << >>
  ELSE IF s[i] \in ShortEscapes THEN <<Esc(s[i])>> \o Escaped(s, i + 1)
  ELSE LET u == utf8ToCodepoint(s, i) IN Characters(u[1]) \o Escaped(s, i + u[2])

Quoted(s) == [t |-> "string", chars |-> Escaped(s, 1)]

\* uintToString.
Digits(n) == IF n < 10 THEN <<n>> ELSE Append(Digits(n \div 10), n % 10)

\* valueToString of integers.  The text of a real number has a point or an
\* exponent in it and is the C library's.
valueToString(v) ==
  IF v.type = "real" THEN [t |-> "double", n |-> v.n]
  ELSE [t |-> "number", neg |-> v.n < 0,
        digits |-> Digits(IF v.n < 0 THEN -v.n ELSE v.n)]

\* The children of an array or object from the i-th on.
Children(v, i) ==
  IF i > size(v) THEN << >>
  ELSE (IF i > 1 THEN <<Sym(",")>> ELSE << >>) \o
       (IF v.type = "array" THEN Tokens(v.a[i])
        ELSE LET k == InOrder(v.o)[i] IN <<Quoted(k), Sym(":")>> \o Tokens(v.o[k])) \o
       Children(v, i + 1)

\* writeValue.
Tokens(v) ==
  CASE v.type = "null" -> <<Sym("null")>>
    [] v.type = "boolean" -> <<Sym(IF v.b THEN "true" ELSE "false")>>
    [] isNumeric(v) -> <<valueToString(v)>>
    [] v.type = "string" -> <<Quoted(v.s)>>
    [] v.type = "array" -> <<Sym("[")>> \o Children(v, 1) \o <<Sym("]")>>
    [] v.type = "object" -> <<Sym("{")>> \o Children(v, 1) \o <<Sym("}")>>

-----------------------------------------------------------------------------
(* Reading.  An error ends in a value of Fails, whatever is looked for      *)
(* after it: recoverFromError and all its callers return false.             *)

RECURSIVE Decoded(_, _), decodeNumber(_, _, _)
RECURSIVE readValue(_, _, _), readObject(_, _, _, _), readArray(_, _, _, _)

Fails == [ok |-> FALSE, v |-> Null, next |-> 0]
Exceeds == [ok |-> FALSE, v |-> Throws, next |-> 0]      \* readValue throws
Reads(v, next) == [ok |-> TRUE, v |-> v, next |-> next]

\* decodeString, from character i on; << -1 >> at the end of what is not one.
Broken == <<-1>>
Decoded(chars, i) ==
  IF i > Len(chars) THEN << >>
  ELSE LET c == chars[i] IN
    IF c.c # "u" THEN <<c.n>> \o Decoded(chars, i + 1)
    ELSE IF ~IsHigh(c.n) THEN codePointToUTF8(c.n) \o Decoded(chars, i + 1)
    ELSE IF i = Len(chars) \/ chars[i + 1].c # "u" THEN Broken
    ELSE codePointToUTF8(PairValue(c.n, chars[i + 1].n)) \o Decoded(chars, i + 2)

decodeString(chars) ==
  LET s == Decoded(chars, 1) IN
  IF \E i \in 1..Len(s) : s[i] = -1 THEN Throws ELSE s

\* decodeDouble: a double that is too large for the integers.
decodeDouble(neg, digits) ==
  LET value[i \in 0..Len(digits)] == IF i = 0 THEN 0 ELSE 10 * value[i - 1] + digits[i] IN
  Number("real", 2 * (IF neg THEN -value[Len(digits)] ELSE value[Len(digits)]))

\* Seeded fault: the last digit is not compared.
decodeNumberRounded(token, i, value) ==
  LET most == IF token.neg THEN MaxInt64 + 1 ELSE MaxUInt64 IN
  IF i > Len(token.digits)
  THEN Number(IF value <= MaxInt64 \/ token.neg THEN "int" ELSE "uint",
              IF token.neg THEN -value ELSE value)
  ELSE IF value >= most \div 10 /\ (value > most \div 10 \/ i < Len(token.digits))
  THEN decodeDouble(token.neg, token.digits)
  ELSE decodeNumber(token, i + 1, 10 * value + token.digits[i])

\* From digit i on, with the value of those before it.
decodeNumber(token, i, value) ==
  LET most == IF token.neg THEN MaxInt64 + 1 ELSE MaxUInt64 IN
  IF i > Len(token.digits)
  THEN Number(IF value <= MaxInt64 \/ token.neg THEN "int" ELSE "uint",
              IF token.neg THEN -value ELSE value)
  ELSE IF /\ value >= most \div 10
          /\ \/ value > most \div 10 \/ i < Len(token.digits)
             \/ token.digits[i] > most % 10
  THEN decodeDouble(token.neg, token.digits)
  ELSE decodeNumber(token, i + 1, 10 * value + token.digits[i])

At(text, i) == IF i <= Len(text) THEN text[i] ELSE Sym("end")

\* skipCommentTokens: where the token after the comments is.
Skip(text, i) ==
  IF At(text, i).t # "comment" THEN i
  ELSE CHOOSE j \in i..(Len(text) + 1) :
         At(text, j).t # "comment" /\ \A k \in i..(j - 1) : text[k].t = "comment"

\* depth is the size of nodes_.
readValue(text, i, depth) ==
  LET j == Skip(text, i)
      token == At(text, j) IN
  IF depth > StackLimit THEN Exceeds
  ELSE CASE token.t = "{" -> readObject(text, j + 1, depth, << >>)
         [] token.t = "[" -> readArray(text, j + 1, depth, << >>)
         [] token.t = "number" -> Reads(decodeNumber(token, 1, 0), j + 1)
         [] token.t = "double" -> Reads(Number("real", token.n), j + 1)
         [] token.t = "string" ->
              IF decodeString(token.chars) = Throws THEN Fails
              ELSE Reads(String(decodeString(token.chars)), j + 1)
         [] token.t \in {"true", "false"} -> Reads(Bool(token.t = "true"), j + 1)
         [] token.t = "null" -> Reads(Null, j + 1)
         [] OTHER -> Fails

\* From the place of a member on, with the members before it; a name that comes
\* again replaces its value.  A comma may precede the end.  After a comment, any
\* token stands for the comma.
readObject(text, i, depth, members) ==
  LET j == Skip(text, i)
      name == decodeString(text[j].chars)
      value == readValue(text, j + 2, depth + 1)
      comma == Skip(text, value.next)
      Next == [k \in DOMAIN members \cup {name} |->
                 IF k = name THEN value.v ELSE members[k]] IN
  IF At(text, j).t = "}" THEN Reads(Object(members), j + 1)
  ELSE IF At(text, j).t # "string" \/ name = Throws \/ At(text, j + 1).t # ":" THEN Fails
  ELSE IF ~value.ok THEN value
  ELSE IF At(text, value.next).t \notin {",", "}", "comment"} THEN Fails
  ELSE IF At(text, comma).t = "}" THEN Reads(Object(Next), comma + 1)
  ELSE readObject(text, comma + 1, depth, Next)

\* Seeded fault: elements need nothing between them.
readArrayLoose(text, i, depth, elements) ==
  LET value == readValue(text, i, depth + 1)
      after == Skip(text, value.next)
      Next == Append(elements, value.v) IN
  IF At(text, i).t = "]" THEN Reads(Array(elements), i + 1)
  ELSE IF ~value.ok THEN value
  ELSE IF At(text, after).t = "]" THEN Reads(Array(Next), after + 1)
  ELSE readArray(text, IF At(text, after).t = "," THEN after + 1 ELSE after, depth, Next)

\* The bracket must come without a comment before it where an element may be.
readArray(text, i, depth, elements) ==
  LET value == readValue(text, i, depth + 1)
      after == Skip(text, value.next)
      Next == Append(elements, value.v) IN
  IF At(text, i).t = "]" THEN Reads(Array(elements), i + 1)
  ELSE IF ~value.ok THEN value
  ELSE IF At(text, after).t = "]" THEN Reads(Array(Next), after + 1)
  ELSE IF At(text, after).t = "," THEN readArray(text, after + 1, depth, Next)
  ELSE Fails

\* parse: what follows the value is not looked at.
parse(text) == readValue(text, 1, 1)

=============================================================================
