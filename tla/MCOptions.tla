----------------------------- MODULE MCOptions -----------------------------
(* Instances of Options for TLC: each member alone with values of every      *)
(* kind, combinations of up to eight members that meet one another, and an   *)
(* unknown member with every kind of value, at the edges of its type.        *)
EXTENDS Options, JsonText, SequencesExt

\* ASCII puts capitals before small letters.
Sorting ==
  <<"WAL_size_limit_MB", "WAL_ttl_seconds",
    "access_hint_on_compaction_start", "advise_random_on_open",
    "allow_mmap_reads", "allow_mmap_writes", "bytes_per_sync",
    "compaction_style", "compression", "create_if_missing",
    "create_missing_column_families",
    "delete_obsolete_files_period_micros", "disable_auto_compactions",
    "error_if_exists", "increase_parallelism", "info_log_level",
    "inplace_update_support", "is_fd_close_on_exec",
    "level0_file_num_compaction_trigger",
    "level0_slowdown_writes_trigger", "level0_stop_writes_trigger",
    "max_background_compactions", "max_background_flushes",
    "max_bytes_for_level_base", "max_open_files",
    "max_sequential_skip_in_iterations", "max_total_wal_size",
    "max_write_buffer_number", "max_write_buffer_number_to_maintain",
    "min_write_buffer_number_to_merge", "no_such_option", "num_levels",
    "optimize_for_point_lookup", "optimize_level_style_compaction",
    "optimize_universal_style_compaction", "paranoid_checks",
    "report_bg_io_stats", "table_cache_numshardbits",
    "target_file_size_base", "target_file_size_multiplier",
    "use_adaptive_mutex", "use_fsync">>

\* What RocksDB documents of its functions.
Sets ==
  "increase_parallelism" :> {"max_background_jobs"} @@
  "optimize_for_point_lookup" :>
    {"table_factory", "memtable_prefix_bloom_size_ratio",
     "memtable_whole_key_filtering"} @@
  "optimize_level_style_compaction" :>
    {"write_buffer_size", "min_write_buffer_number_to_merge",
     "max_write_buffer_number", "level0_file_num_compaction_trigger",
     "target_file_size_base", "max_bytes_for_level_base",
     "compaction_style", "compression_per_level"} @@
  "optimize_universal_style_compaction" :>
    {"write_buffer_size", "min_write_buffer_number_to_merge",
     "max_write_buffer_number", "compaction_style", "compression_per_level",
     "compression_size_percent"}

EveryKind ==
  {Null, Bool(TRUE), Bool(FALSE), String(<<1>>), Array(<< >>),
   Number("real", 1), Number("real", 9), Number("real", 1024)} \cup
  {Number("int", i) : i \in {-513, -512, -1, 0, 1, 3, 4, 5, 6, 9, 10, 511, 512, 4095}} \cup
  {Number("uint", i) : i \in {3, 511, 512, 4096, 8191}}

\* Numbers at the edges of the four integer types.
Edges == {0, 1, 511, 512, 1023, 1024, 4095}
\* Bytes of text at the edges of what UTF-8 encodes in one byte to four, and
\* characters that have escapes; and bytes that are not UTF-8.
Encoded ==
  {<< >>, <<1>>, <<2>>, <<1, 1>>, <<2, 1>>, <<34>>, <<92, 10>>, <<31, 32>>, <<127>>,
   <<194, 128>>, <<223, 191, 34>>, <<224, 160, 128>>, <<237, 159, 191>>,
   <<238, 128, 128>>, <<239, 191, 191>>, <<240, 144, 128, 128>>,
   <<244, 143, 191, 191, 65>>}
Garbled ==
  {<<128>>, <<195>>, <<195, 34>>, <<192, 128>>, <<224, 128, 128>>, <<237, 160, 128>>,
   <<237, 191, 191>>, <<240, 128, 128, 128>>, <<244, 143>>, <<248, 65>>, <<255>>}

Scalars ==
  {Null, Bool(TRUE), Bool(FALSE), Number("int", -4096)} \cup
  {String(s) : s \in Encoded \cup Garbled} \cup
  {Number("int", i) : i \in Edges \cup {-1, -512, -513, -4095}} \cup
  {Number("uint", i) : i \in Edges \cup {4096, 8190, 8191}} \cup
  {Number("real", 2 * i) : i \in (Edges \ {4095}) \cup
     {-1, -512, -513, -4096, -4097, -40960, 4096, 8190, 8192, 8193, 81910}} \cup
  {Number("real", d) : d \in {-1, 1, 3, 1023, 2047}}
Zero == Number("int", 0)
One  == Number("int", 1)
Compounds ==
  {Array(a) : a \in {<< >>, <<Zero>>, <<One>>, <<Zero, One>>, <<One, Zero>>,
                     <<Array(<<Zero>>)>>, <<Array(<<Array(<<One>>)>>)>>,
                     <<Array(<<Array(<<Array(<<One>>)>>)>>)>>,
                     <<Object(<<2>> :> Array(<< >>)), String(<<1>>)>>}} \cup
  {Object(o) : o \in {<< >>, (<<1>> :> Zero), (<<1>> :> One), (<<2>> :> Zero),
                      (<<1>> :> Zero @@ <<2>> :> One),
                      (<<1>> :> One @@ <<2>> :> Zero),
                      (<<1>> :> One @@ <<1, 1>> :> Zero)}}
Values == Scalars \cup Compounds

\* One member that is as the README says.
Listed(key) == IF key \in BoolOptions THEN Bool(TRUE) ELSE Number("int", 3)

Combined ==
  {"WAL_ttl_seconds", "increase_parallelism", "max_write_buffer_number",
   "no_such_option", "optimize_level_style_compaction",
   "optimize_universal_style_compaction", "paranoid_checks", "use_fsync"}

Databases(values) == {[is_cf |-> b, options |-> v] : b \in BOOLEAN, v \in values}

AllFiles ==
  Databases({Absent, Null, Array(<<Bool(TRUE)>>), Object(<< >>)} \cup
            {Object(k :> v) : k \in {Sorting[i] : i \in 1..Len(Sorting)},
                              v \in EveryKind} \cup
            {Object("no_such_option" :> v) : v \in Values} \cup
            {Object([k \in K |-> Listed(k)]) : K \in SUBSET Combined})

-----------------------------------------------------------------------------
(* Texts.                                                                  *)

\* What comes back of a value: an unsigned integer that Int64 holds is an Int64.
RECURSIVE Back(_)
Back(v) ==
  CASE v.type = "uint" /\ v.n <= MaxInt64 -> Number("int", v.n)
    [] v.type = "array" -> Array([i \in DOMAIN v.a |-> Back(v.a[i])])
    [] v.type = "object" -> Object([k \in DOMAIN v.o |-> Back(v.o[k])])
    [] OTHER -> v

RECURSIVE Depth(_)
Depth(v) ==
  LET inner == IF v.type = "array" THEN {Depth(v.a[i]) : i \in DOMAIN v.a}
               ELSE IF v.type = "object" THEN {Depth(v.o[k]) : k \in DOMAIN v.o}
               ELSE {} IN
  1 + Max(inner \cup {0})

\* Strings that are UTF-8 come back as they were; of others, only that the text
\* can be read.
RECURSIVE IsText(_)
IsText(v) ==
  CASE v.type = "string" -> v.s \notin Garbled
    [] v.type = "array" -> \A i \in DOMAIN v.a : IsText(v.a[i])
    [] v.type = "object" -> \A k \in DOMAIN v.o : IsText(v.o[k])
    [] OTHER -> TRUE

\* The values of a file, once.
Fresh == IF phase = "reading" /\ members # {} THEN Given ELSE {}

\* What is written is read back as the value it was, with a comment anywhere or
\* not at all, and throws exactly when it is nested deeper than stackLimit
\* (json_writer.cc:276-355, json_reader.cc:1056-1140).
WrittenIsRead ==
  \A v \in Fresh :
    LET text == Tokens(v)
        result == parse(text) IN
    /\ result.ok <=> Depth(v) <= StackLimit
    /\ ~result.ok => result.v = Throws
    /\ result.ok /\ IsText(v) => result.v = Back(v) /\ result.next = Len(text) + 1
    /\ \A i \in 1..(Len(text) + 1) :
         LET commented == parse(InsertAt(text, i, Sym("comment"))) IN
         commented.ok => commented.v = result.v

\* The value that JSON's grammar gives a text, by splitting it at the commas that
\* are in no brackets; a comma may come last (allowTrailingCommas).
Opens(text, i) == Cardinality({j \in 1..i : text[j].t \in {"{", "["}})
Closes(text, i) == Cardinality({j \in 1..i : text[j].t \in {"}", "]"}})

\* The first comma outside of brackets, or the place after the end.
Cut(text) ==
  Min({i \in 1..Len(text) : text[i].t = "," /\ Opens(text, i) = Closes(text, i)}
      \cup {Len(text) + 1})

RECURSIVE Means(_), Pieces(_)
Pieces(text) ==
  IF text = << >> THEN << >>
  ELSE <<SubSeq(text, 1, Cut(text) - 1)>> \o Pieces(SubSeq(text, Cut(text) + 1, Len(text)))

Means(text) ==
  LET first == text[1].t
      inner == SubSeq(text, 2, Len(text) - 1)
      pieces == Pieces(inner)
      Member(p) == Len(p) > 2 /\ p[1].t = "string" /\ p[2].t = ":"
      Name(i) == decodeString(pieces[i][1].chars)
      Of(p) == Means(SubSeq(p, 3, Len(p))) IN
  IF text = << >> THEN Throws
  ELSE IF Len(text) = 1
  THEN IF first \in {"{", "}", "[", "]", ",", ":"} THEN Throws ELSE parse(text).v
  ELSE IF first = "[" /\ Last(text).t = "]" /\ \A i \in DOMAIN pieces : Means(pieces[i]) # Throws
  THEN Array([i \in DOMAIN pieces |-> Means(pieces[i])])
  ELSE IF first = "{" /\ Last(text).t = "}" /\
          \A i \in DOMAIN pieces : Member(pieces[i]) /\ Of(pieces[i]) # Throws
  THEN Object([k \in {Name(i) : i \in DOMAIN pieces} |->
                 Of(pieces[Max({i \in DOMAIN pieces : Name(i) = k})])])
  ELSE Throws

\* Texts that are one token away from one that was written.
Spoilt(text) ==
  {RemoveAt(text, i) : i \in 1..Len(text)} \cup
  {InsertAt(text, i, Sym(t)) : i \in 1..(Len(text) + 1),
                               t \in {"{", "}", "[", "]", ",", ":"}}

\* Place i is in the braces of an object, after a member: that is where
\* readObject looks for a comma.
Level(text, k) == Opens(text, k) - Closes(text, k)
AfterMember(text, i) ==
  LET open == {j \in 1..(i - 1) : /\ text[j].t \in {"{", "["}
                                  /\ \A k \in j..(i - 1) : Level(text, k) >= Level(text, j)} IN
  open # {} /\ text[Max(open)].t = "{" /\ text[i - 1].t \notin {"{", ",", ":"}

\* What the reader takes a text for that has a comment at place i: after a member,
\* the next token that does not close the object is the comma, whatever it is
\* (json_reader.cc:1500-1507).
Taken(text, i) ==
  IF i <= Len(text) /\ AfterMember(text, i) /\ text[i].t # "}"
  THEN ReplaceAt(text, i, Sym(",")) ELSE text

\* Where no comment may be: before a colon, and where an array ends that has no
\* elements or a comma after the last.
NoComment(text, i) ==
  /\ i \in 2..Len(text) /\ Taken(text, i) = text
  /\ \/ text[i].t = ":"
     \/ text[i].t = "]" /\ text[i - 1].t \in {"[", ","}

\* The reader accepts what JSON's grammar does, and finds the same value, also
\* where a token of a written text is missing or one too many; what follows the
\* value is ignored (json_reader.cc:1446-1550).  With a comment in it, it accepts
\* what Taken says and nothing else.
GrammarIsKept ==
  \A v \in Fresh : Depth(v) < StackLimit =>
    \A text \in Spoilt(Tokens(v)) :
      LET result == parse(text)
          whole == {n \in 1..Len(text) : Means(SubSeq(text, 1, n)) # Throws}
          Commented(i) == parse(InsertAt(text, i, Sym("comment"))) IN
      /\ result.ok <=> whole # {}
      /\ result.ok => result.v = Means(SubSeq(text, 1, Min(whole)))
      /\ \A i \in 1..(Len(text) + 1) :
           IF NoComment(text, i) /\ i <= Min(whole \cup {Len(text)}) THEN ~Commented(i).ok
           ELSE /\ Commented(i).ok <=> parse(Taken(text, i)).ok
                /\ Commented(i).ok => Commented(i).v = parse(Taken(text, i)).v

\* A number in digits is an integer whenever one can hold it, and otherwise the
\* double of the same size (decodeNumber, json_reader.cc:1562-1640).
DigitsAreExact ==
  \A v \in Fresh :
    isNumeric(v) /\ IsIntegral(Twice(v)) =>
      LET n == Twice(v) \div 2
          result == parse(<<valueToString(Number("int", n))>>).v IN
      /\ Twice(result) = 2 * n
      /\ result.type = IF n \in MinInt64..MaxInt64 THEN "int"
                       ELSE IF n \in 0..MaxUInt64 THEN "uint" ELSE "real"
=============================================================================
