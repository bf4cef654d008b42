------------------------------ MODULE JsonChars ------------------------------
(***************************************************************************)
(* The characters of a string token of jsoncpp, and the bytes that they    *)
(* stand for: UTF-8 as json_tool.h writes it and json_writer.cc reads it,  *)
(* and the surrogate pairs between json_writer.cc and json_reader.cc.      *)
(***************************************************************************)
EXTENDS Integers, Sequences

\* A byte as it is, an escape of one letter, an escape of a number of 16 bits.
Raw(b) == [c |-> "raw", n |-> b]
Esc(b) == [c |-> "escape", n |-> b]     \* \" \\ \b \f \n \r \t for the byte b
Hex(n) == [c |-> "u", n |-> n]

-----------------------------------------------------------------------------
(* UTF-8.                                                                  *)

Low6(x) == x % 64

codePointToUTF8(cp) ==
  CASE cp < 128 -> <<cp>>
    [] 128 <= cp /\ cp < 2048 -> <<192 + cp \div 64, 128 + Low6(cp)>>
    [] 2048 <= cp /\ cp < 65536 ->
         <<224 + cp \div 4096, 128 + Low6(cp \div 64), 128 + Low6(cp)>>
    [] 65536 <= cp /\ cp <= 1114111 ->
         <<240 + cp \div 262144, 128 + Low6(cp \div 4096),
           128 + Low6(cp \div 64), 128 + Low6(cp)>>
    [] OTHER -> << >>

Replacement == 65533

\* How many bytes the first one announces.
Announced(b) ==
  IF b < 128 THEN 1 ELSE IF b < 224 THEN 2 ELSE IF b < 240 THEN 3
  ELSE IF b < 248 THEN 4 ELSE 1

\* The n bytes at i, put together.
Joined(s, i, n) ==
  IF n = 1 THEN s[i]
  ELSE IF n = 2 THEN (s[i] % 32) * 64 + Low6(s[i + 1])
  ELSE IF n = 3 THEN (s[i] % 16) * 4096 + Low6(s[i + 1]) * 64 + Low6(s[i + 2])
  ELSE (s[i] % 8) * 262144 + Low6(s[i + 1]) * 4096
       + Low6(s[i + 2]) * 64 + Low6(s[i + 3])

\* Oversized encodings, and surrogates, are not valid.
IsInvalid(cp, n) ==
  \/ cp < <<0, 128, 2048, 65536>>[n]
  \/ n = 3 /\ 55296 <= cp /\ cp <= 57343

\* The code point at i, and how many bytes were taken for it.
utf8ToCodepoint(s, i) ==
  LET n == Announced(s[i])
      cp == Joined(s, i, n) IN
  IF i + n - 1 > Len(s) \/ s[i] >= 248 THEN <<Replacement, 1>>
  ELSE <<IF IsInvalid(cp, n) THEN Replacement ELSE cp, n>>

-----------------------------------------------------------------------------
(* Escapes.                                                                *)

Pair(bits) == <<Hex(55296 + ((bits \div 1024) % 1024)), Hex(56320 + (bits % 1024))>>

\* Seeded fault: 20 bits make a surrogate pair only once 0x10000 is taken off.
CharactersUnshifted(cp) ==
  IF cp < 32 THEN <<Hex(cp)>> ELSE IF cp < 128 THEN <<Raw(cp)>>
  ELSE IF cp < 65536 THEN <<Hex(cp)>>
  ELSE Pair(cp)

Characters(cp) ==
  IF cp < 32 THEN <<Hex(cp)>> ELSE IF cp < 128 THEN <<Raw(cp)>>
  ELSE IF cp < 65536 THEN <<Hex(cp)>>
  ELSE Pair(cp - 65536)

\* A number that another one must follow, and what the two stand for.
IsHigh(n) == 55296 <= n /\ n <= 56319
PairValue(high, low) == 65536 + (high % 1024) * 1024 + (low % 1024)

==============================================================================
