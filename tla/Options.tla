------------------------------ MODULE Options ------------------------------
(***************************************************************************)
(* The options of a database: options_from_json (options_json.cc) reads    *)
(* the member "options" of the config file, read_config (server.cc) adds   *)
(* two calls of its own, and config::open() uses the result, or does not.  *)
(*                                                                         *)
(* Each step is one iteration of a loop.  An option holds the number that  *)
(* it was set to and the name of who set it: a member of the file, one of  *)
(* RocksDB's functions that set many at once, or RocksDB's default.        *)
(***************************************************************************)
EXTENDS JsonValue

CONSTANTS
  KeyOrder,    \* all keys, in the order of CZString::operator<
  Files,       \* what the config file may say about a database
  Functions    \* Functions[m]: the options that a function of RocksDB sets

VARIABLES
  file,      \* the members of the database in the config file
  members,   \* keys of its "options" that the loop has still to reach
  options,   \* the Options object
  phase,     \* "reading", "read", "open", or "failed": an exception left main
  opened     \* the options of each DB::Open that open() calls

optionVars == <<file, members, options, phase, opened>>

IntOptions ==
  {"max_open_files", "num_levels", "level0_file_num_compaction_trigger",
   "level0_slowdown_writes_trigger", "level0_stop_writes_trigger",
   "target_file_size_multiplier", "max_write_buffer_number",
   "min_write_buffer_number_to_merge", "max_write_buffer_number_to_maintain",
   "max_background_compactions", "max_background_flushes",
   "table_cache_numshardbits"}

\* Read as an int, and then a bool.
FlagOptions == {"use_fsync", "disable_auto_compactions", "report_bg_io_stats"}

EnumOptions == {"info_log_level", "access_hint_on_compaction_start", "compression"}

BoolOptions ==
  {"create_if_missing", "create_missing_column_families", "error_if_exists",
   "paranoid_checks", "allow_mmap_reads", "allow_mmap_writes",
   "is_fd_close_on_exec", "advise_random_on_open", "use_adaptive_mutex",
   "inplace_update_support"}

UInt64Options ==
  {"max_total_wal_size", "target_file_size_base", "max_bytes_for_level_base",
   "WAL_ttl_seconds", "WAL_size_limit_MB", "bytes_per_sync",
   "max_sequential_skip_in_iterations", "delete_obsolete_files_period_micros"}

Plain == IntOptions \cup FlagOptions \cup EnumOptions \cup BoolOptions \cup
         UInt64Options

\* increase_parallelism takes an int, the three others a uint64.
Calls == {"increase_parallelism", "optimize_for_point_lookup",
          "optimize_level_style_compaction", "optimize_universal_style_compaction"}

\* Everything that an Options object holds.
Fields == Plain \cup UNION {Functions[c] : c \in Calls}

\* A database without the member "options", which is not the same as null.
Absent == [type |-> "absent"]

\* What a member may be: a scalar, or something that no option takes.
IsGiven(v) ==
  (IsScalar(v) \/ v.type \in {"array", "object"}) /\ TextOf(v) # Throws

ASSUME OptionsAssumption ==
  /\ DOMAIN Functions = Calls
  /\ KeyOrder \in Seq(STRING)
  /\ 9 <= MaxInt               \* every label of an enum is an Int
  /\ \A o \in Files : o.options.type = "object" =>
       /\ DOMAIN o.options.o \subseteq {KeyOrder[i] : i \in 1..Len(KeyOrder)}
       /\ \A k \in DOMAIN o.options.o : IsGiven(o.options.o[k])

Default == [f \in Fields |-> [by |-> "default", n |-> 0]]

-----------------------------------------------------------------------------
(* options_from_json.                                                      *)

\* The lambdas int2enum: numbers that are out of range give the default label.
int2enum(key, n) ==
  LET last == [info_log_level |-> 5, access_hint_on_compaction_start |-> 3,
               compression |-> 9] IN
  IF n \in 0..last[key] THEN n
  ELSE IF key = "access_hint_on_compaction_start" THEN 1 ELSE 0

BoolNumber(b) == IF b = Throws THEN Throws ELSE IF b THEN 1 ELSE 0

\* Seeded fault: every number is read as an int.
ConvertedNarrowly(key, v) ==
  IF key \in BoolOptions THEN BoolNumber(asBool(v)) ELSE asInt(v)

\* What a member converts its value to.
Converted(key, v) ==
  CASE key \in IntOptions \cup {"increase_parallelism", "compaction_style"} -> asInt(v)
    [] key \in FlagOptions ->
         IF asInt(v) = Throws THEN Throws ELSE BoolNumber(asInt(v) # 0)
    [] key \in EnumOptions ->
         IF asInt(v) = Throws THEN Throws ELSE int2enum(key, asInt(v))
    [] key \in BoolOptions -> BoolNumber(asBool(v))
    [] key \in UInt64Options \cup (Calls \ {"increase_parallelism"}) -> asUInt64(v)
    [] OTHER -> 0

\* A function of RocksDB sets its options from its argument.
Call(o, function, n) ==
  [f \in Fields |-> IF f \in Functions[function]
                    THEN [by |-> function, n |-> n] ELSE o[f]]

\* One branch of the chain of ifs; compaction_style and unknown keys set
\* nothing.
Assign(o, key, n) ==
  CASE key \in Calls -> Call(o, key, n)
    [] key \in Plain -> [o EXCEPT ![key] = [by |-> key, n |-> n]]
    [] OTHER -> o

\* begin() to end() of anything but an object has no key that names an option.
Keys(v) == IF v.type = "object" THEN DOMAIN v.o ELSE {}

Position(k) == CHOOSE i \in 1..Len(KeyOrder) : KeyOrder[i] = k
Before(j, k) == Position(j) < Position(k)

\* Seeded fault for Least: the map from its end.
Greatest(keys) == CHOOSE k \in keys : \A j \in keys \ {k} : Before(j, k)

\* begin() to end(): the map is sorted by its keys.
Least(keys) == CHOOSE k \in keys : \A j \in keys \ {k} : Before(k, j)

Init ==
  /\ file \in Files
  /\ members = Keys(file.options)
  /\ options = Default
  /\ phase = "reading"
  /\ opened = << >>

ReadMember ==
  /\ phase = "reading" /\ members # {}
  /\ LET key == Least(members)
         n == Converted(key, file.options.o[key]) IN
       IF n = Throws
       THEN phase' = "failed" /\ UNCHANGED options
       ELSE options' = Assign(options, key, n) /\ UNCHANGED phase
  /\ members' = members \ {Least(members)}
  /\ UNCHANGED <<file, opened>>

-----------------------------------------------------------------------------
(* read_config, and open() later.                                          *)

\* IncreaseParallelism() and OptimizeLevelStyleCompaction(), with their default
\* arguments, after the options of the file.
ReadConfig ==
  /\ phase = "reading" /\ members = {}
  /\ phase' = "read"
  /\ options' =
       IF file.options = Absent THEN options
       ELSE Call(Call(options, "increase_parallelism", 16),
                 "optimize_level_style_compaction", 512)
  /\ UNCHANGED <<file, members, opened>>

\* A database with column families is created by an Options of its own and
\* opened with a DBOptions of its own.
Open ==
  /\ phase = "read"
  /\ phase' = "open"
  /\ \E exists \in BOOLEAN :
       opened' =
         IF ~file.is_cf THEN <<options>>
         ELSE IF exists THEN <<Default>>
         ELSE <<[Default EXCEPT !["create_if_missing"] = [by |-> "open", n |-> 1]], Default>>
  /\ UNCHANGED <<file, members, options>>

Next == ReadMember \/ ReadConfig \/ Open

Spec == Init /\ [][Next]_optionVars

-----------------------------------------------------------------------------
(* Properties.                                                             *)

\* The file gives an option in the form that the README lists (README.md:18-80).
\* A key that it does not list is invalid, and ignored, in every form.
AsListed(key, v) ==
  LET IsNumber(S) == v \in [type : {"int", "uint"}, n : S] IN
  CASE key \in BoolOptions -> v.type = "boolean"
    [] key = "info_log_level" -> IsNumber(0..5)
    [] key = "access_hint_on_compaction_start" -> IsNumber(0..4)
    [] key = "compression" -> IsNumber(0..9)
    [] key \in IntOptions \cup FlagOptions \cup {"increase_parallelism"} ->
         IsNumber(MinInt..MaxInt)
    [] key \in UInt64Options \cup (Calls \ {"increase_parallelism"}) ->
         IsNumber(0..MaxUInt64)
    [] OTHER -> TRUE

\* What it says that such an option means.  It allows a hint of 4, and has a
\* label for 0 to 3.
Described(key, v) ==
  CASE key \in FlagOptions -> {IF v.n = 0 THEN 0 ELSE 1}
    [] key \in BoolOptions -> {IF v.b THEN 1 ELSE 0}
    [] key = "access_hint_on_compaction_start" -> IF v.n = 4 THEN 0..3 ELSE {v.n}
    [] OTHER -> {v.n}

\* Who sets option f last: the greatest key of the file that sets it
\* (options_json.cc:10), and after that the calls of read_config
\* (server.cc:251).
SettersAmong(keys, f) ==
  {k \in keys : (k = f /\ k \in Plain) \/ (k \in Calls /\ f \in Functions[k])}
OwnCall(c, f) ==
  phase \in {"read", "open"} /\ file.options # Absent /\ f \in Functions[c]
LastSetterAmong(keys, f) ==
  IF OwnCall("optimize_level_style_compaction", f) THEN "optimize_level_style_compaction"
  ELSE IF OwnCall("increase_parallelism", f) THEN "increase_parallelism"
  ELSE IF SettersAmong(keys, f) = {} THEN "default"
  ELSE Greatest(SettersAmong(keys, f))
LastSetter(f) == LastSetterAmong(Keys(file.options), f)

\* Whatever combination of options and functions the file names, each option
\* ends up with the value of the last one that sets it in the order of the
\* keys, and a plain one with the value that the README describes; no member
\* reaches the option of another (options_json.cc:16-217).  Every DB::Open of a
\* database without families is given that, and one of a database with families
\* none of it (server.cc:62, 69, 99).
LastSetterWins ==
  /\ members = {} /\ phase # "failed" =>
       \A f \in Fields :
         /\ options[f].by = LastSetter(f)
         /\ f \in Plain /\ LastSetter(f) = f /\ AsListed(f, file.options.o[f]) =>
              options[f].n \in Described(f, file.options.o[f])
  /\ \A i \in DOMAIN opened, f \in Fields :
       IF file.is_cf THEN opened[i][f].by \in {"default", "open"}
       ELSE opened[i][f] = options[f] /\ opened[i][f].by = LastSetter(f)

\* What keeps the service from starting (options_json.cc: asInt, asBool and
\* asUInt64 throw) is an option that is not in the form of the README, with one
\* exception: compaction_style, which the README does not list and the code reads
\* and drops (options_json.cc:128-130), although "Invalid option keys are ignored"
\* (README.md:18).
ListedOptionsStart ==
  phase = "failed" =>
    \E k \in Keys(file.options) :
      \/ ~AsListed(k, file.options.o[k])
      \/ k = "compaction_style" /\ ~isConvertibleTo(file.options.o[k], "int")

\* The values of the file.
Given == {file.options.o[k] : k \in Keys(file.options)}

\* What a number is, doubled.
Twice(v) == IF v.type = "real" THEN v.n ELSE 2 * v.n

\* A conversion throws exactly when isConvertibleTo says so, and one that
\* isInt, isUInt, isInt64 or isUInt64 promises loses nothing.  What is left is
\* the double just past the largest integer of 64 bits (json_value.cc:708,729):
\* it passes the range test and its conversion is undefined.
ConversionsAgree ==
  \A v \in Given :
    /\ isConvertibleTo(v, "int") <=> asInt(v) # Throws
    /\ isConvertibleTo(v, "uint") <=> asUInt(v) # Throws
    /\ isConvertibleTo(v, "boolean") <=> asBool(v) # Throws
    /\ isConvertibleTo(v, "string") <=> asString(v) # Throws
    /\ isInt(v) => 2 * asInt(v) = Twice(v)
    /\ isUInt(v) => 2 * asUInt(v) = Twice(v)
    /\ isInt64(v) => 2 * asInt64(v) = Twice(v)
    /\ isUInt64(v) => 2 * asUInt64(v) = Twice(v)
    /\ Wild \notin {asInt(v), asUInt(v)}
    /\ Wild \in {asInt64(v), asUInt64(v)} =>
         v \in {Number("real", 2 * (MaxInt64 + 1)), Number("real", 2 * (MaxUInt64 + 1))}

=============================================================================
