------------------------------ MODULE Database ------------------------------
(***************************************************************************)
(* The databases of the service (server.cc): struct config with its open() *)
(* and its operations, exec_json, the handler that main installs for       *)
(* signals, and the end and restart of the process.                        *)
(*                                                                         *)
(* All of it runs on one thread, so a request is served to its end before  *)
(* anything else happens in the process.  A request still takes several    *)
(* steps here, one for each change that RocksDB makes on disk, because the *)
(* process may die between any two of them.                                *)
(*                                                                         *)
(* RocksDB is not part of the repository.  A database on disk is a         *)
(* directory, a set of column families (empty while the directory holds no *)
(* database) and their contents; opening one takes its lock, and succeeds  *)
(* when the families asked for are the ones that exist.                    *)
(***************************************************************************)
EXTENDS Integers, Sequences

CONSTANTS
  Names,         \* names of the databases: the members of "dbs"
  Paths,         \* values of their "dbname"
  path,          \* path[n] is the one of n
  Families,      \* names of column families
  Default,       \* ... and kDefaultColumnFamilyName, one of them
  FamilyLists,   \* FamilyLists[n]: what "column_family" of n may be
  NoFamilies,    \* ... one of them: the member is missing
  CreateMissing, \* databases whose options say create_if_missing
  Keys, Values,
  Unparsed,      \* in place of a dbname: the request is not JSON
  Empty,         \* the empty dbname
  Unknown,       \* a dbname that the config file does not have
  Bad,           \* a value that asString throws on: an array or object; or a
                 \* text nested so deep that the reader throws
  NotFound, Nothing,
  Requests,      \* the requests that clients make
  MaxCrashes,    \* bound: how often the process is killed
  MaxStarts      \* bound: how often it is started

Request ==
  [op : {"put", "get", "put_cf", "get_cf", "write_batch", "other", Bad},
   dbname : Names \cup {Unparsed, Empty, Unknown, Bad},
   column : Families \cup {Bad},
   key    : Keys \cup {Bad},
   value  : Values \cup {Bad},
   items  : UNION {[K -> Values \cup {Bad}] : K \in SUBSET Keys}]

ASSUME DatabaseAssumption ==
  /\ path \in [Names -> Paths]
  /\ Default \in Families
  /\ \A n \in Names : FamilyLists[n] \subseteq Seq(Families) \cup {NoFamilies}
  /\ NoFamilies \notin Seq(Families)
  /\ CreateMissing \subseteq Names
  /\ Requests \subseteq Request
  /\ {Unparsed, Empty, Unknown, Bad, Nothing} \cap Names = {}
  /\ {Bad, Nothing} \cap Families = {}
  /\ Nothing \notin Requests
  /\ {Bad, NotFound, Nothing} \cap Values = {}
  /\ Bad \notin Keys \cup {Unparsed, Empty, Unknown}
  /\ {MaxCrashes, MaxStarts} \subseteq Nat

VARIABLES
  column_family, \* what the config file says about the families of each n
  is_open, db, handles,   \* the members of struct config, for each n
  dirs,      \* paths that exist on disk
  families,  \* column families of the database at each path
  data,      \* their contents
  lock,      \* which n holds the database at a path open
  pc,        \* where exec_json is
  req,       \* the request that exec_json works on
  next,      \* the loop over cf_names in open()
  reply,     \* what exec_json returned for the last request
  proc,      \* "running", "stopped" or "crashed"
  crashes,   \* how often the process was killed
  starts     \* how often it was started

confVars == <<is_open, db, handles>>
diskVars == <<dirs, families, data>>
callVars == <<pc, req, next, reply>>
procVars == <<column_family, proc, crashes, starts>>
vars     == <<confVars, diskVars, lock, callVars, procVars>>

Running == proc = "running"

-----------------------------------------------------------------------------
(* Configuration.                                                          *)

\* The names in s but the default one, in their order: read_config and open()
\* have a loop each that leaves it out.
Others(s) ==
  LET kept[i \in 0..Len(s)] ==
        IF i = 0 THEN << >>
        ELSE IF s[i] = Default THEN kept[i - 1] ELSE Append(kept[i - 1], s[i])
  IN  kept[Len(s)]

\* read_config: the default family is added, in front, and only once.
cf_names(n) ==
  IF column_family[n] = NoFamilies THEN << >>
  ELSE <<Default>> \o Others(column_family[n])

is_cf(n) == cf_names(n) # << >>

\* Seeded faults: the default family asked for twice, or not at all.
column_familiesTwice(n) == <<Default>> \o cf_names(n)
column_familiesNoDefault(n) == Others(cf_names(n))

\* What open() asks RocksDB for.
column_families(n) == <<Default>> \o Others(cf_names(n))

\* What the file may say.
Configurations ==
  {c \in [Names -> UNION {FamilyLists[n] : n \in Names}] :
     \A n \in Names : c[n] \in FamilyLists[n]}

Unlocked == [p \in Paths |-> Nothing]
Empties  == [p \in Paths |-> [f \in Families |-> [k \in Keys |-> NotFound]]]

Init ==
  /\ column_family \in Configurations
  /\ is_open  = [n \in Names |-> FALSE]
  /\ db       = [n \in Names |-> "uninit"]   \* config() leaves db alone
  /\ handles  = [n \in Names |-> << >>]
  /\ dirs     = {}
  /\ families = [p \in Paths |-> {}]
  /\ data     = Empties
  /\ lock     = Unlocked
  /\ pc = "idle" /\ req = Nothing /\ next = 0 /\ reply = Nothing
  /\ proc = "running" /\ crashes = 0 /\ starts = 1

-----------------------------------------------------------------------------
(* exec_json up to the call of open().                                     *)

Receive(r) ==
  /\ Running /\ pc = "idle"
  /\ req' = r
  /\ reply' = Nothing
  /\ pc' = "find"
  /\ UNCHANGED <<confVars, diskVars, lock, next, procVars>>

Return(error, value) ==
  /\ reply' = [error |-> error, value |-> value]
  /\ pc' = "idle"
  /\ req' = Nothing

\* An exception leaves exec_json, io_context::run() and main; the process ends,
\* as it does when it is killed, and RocksDB's locks with it.
Die ==
  /\ proc' = "crashed"
  /\ pc' = "idle"
  /\ req' = Nothing
  /\ reply' = Nothing
  /\ lock' = Unlocked

\* Seeded fault: the comparison with configs.end() is missing.
FindUnchecked ==
  /\ Running /\ pc = "find"
  /\ req.dbname \notin {Unparsed, Empty, Bad}
  /\ pc' = "open"
  /\ UNCHANGED <<confVars, diskVars, lock, req, next, reply, procVars>>

\* exec_json up to the config that the request names.
Find ==
  LET n == req.dbname IN
  /\ Running /\ pc = "find"
  /\ \/ n = Bad /\ Die
     \/ n \in Names /\ pc' = "open" /\ UNCHANGED <<req, reply, proc, lock>>
     \/ /\ n \notin Names \cup {Bad}
        /\ Return(IF n = Unparsed THEN 1 ELSE IF n = Empty THEN 6 ELSE 3,
                  Nothing)
        /\ UNCHANGED <<proc, lock>>
  /\ UNCHANGED <<confVars, diskVars, next, column_family, crashes, starts>>

-----------------------------------------------------------------------------
(* config::open().                                                         *)

\* DB::Open succeeded, or it did not; it sets db to null then.
Opened(n, cfs, hs) ==
  /\ is_open' = [is_open EXCEPT ![n] = TRUE]
  /\ db' = [db EXCEPT ![n] = "live"]
  /\ handles' = [handles EXCEPT ![n] = hs]
  /\ families' = [families EXCEPT ![path[n]] = cfs]
  /\ lock' = [lock EXCEPT ![path[n]] = n]
  /\ pc' = "op"
  /\ UNCHANGED <<req, reply>>

NotOpened(n, hs) ==
  /\ db' = [db EXCEPT ![n] = "null"]
  /\ handles' = [handles EXCEPT ![n] = hs]
  /\ Return(4, Nothing)
  /\ UNCHANGED <<is_open, families, lock>>

\* DB::Open(options, path, &db), which knows only the default family.
OpenPlain(n) ==
  LET p == path[n] IN
  /\ dirs' = dirs \cup {p}
  /\ IF /\ lock[p] = Nothing
        /\ families[p] = {Default} \/ (families[p] = {} /\ n \in CreateMissing)
     THEN Opened(n, {Default}, handles[n])
     ELSE NotOpened(n, handles[n])

open ==
  LET n == req.dbname IN
  /\ Running /\ pc = "open"
  /\ \/ /\ is_open[n]
        /\ pc' = "op"
        /\ UNCHANGED <<confVars, diskVars, lock, req, reply>>
     \/ /\ ~is_open[n] /\ ~is_cf(n)
        /\ OpenPlain(n)
        /\ UNCHANGED data
     \/ /\ ~is_open[n] /\ is_cf(n)
        /\ pc' = IF path[n] \in dirs THEN "openAll" ELSE "bootstrap"
        /\ dirs' = dirs \cup {path[n]}   \* DB::Open creates it first
        /\ UNCHANGED <<confVars, families, data, lock, req, reply>>
  /\ UNCHANGED <<next, procVars>>

\* DB::Open with create_if_missing in the directory made for it.
Bootstrap ==
  LET n == req.dbname IN
  /\ Running /\ pc = "bootstrap"
  /\ families' = [families EXCEPT ![path[n]] = {Default}]
  /\ lock' = [lock EXCEPT ![path[n]] = n]
  /\ db' = [db EXCEPT ![n] = "live"]
  /\ pc' = "create"
  /\ next' = 1
  /\ UNCHANGED <<is_open, handles, dirs, data, req, reply, procVars>>

\* Seeded fault: the test for the default family is missing.
CreateFamilyEvery ==
  LET n == req.dbname IN
  /\ Running /\ pc = "create" /\ next \in 1..Len(cf_names(n))
  /\ cf_names(n)[next] \in families[path[n]]
  /\ Die
  /\ UNCHANGED <<confVars, diskVars, next, column_family, crashes, starts>>

\* CreateColumnFamily, for each name but the default; one that exists already
\* is an error, and the assertion after it fails.
CreateFamily ==
  LET n == req.dbname
      f == cf_names(n)[next] IN
  /\ Running /\ pc = "create"
  /\ next \in 1..Len(cf_names(n))
  /\ \/ /\ f = Default \/ f \notin families[path[n]]
        /\ families' = [families EXCEPT ![path[n]] = @ \cup {f}]
        /\ next' = next + 1
        /\ UNCHANGED <<lock, pc, req, reply, proc>>
     \/ /\ f # Default /\ f \in families[path[n]]
        /\ Die
        /\ UNCHANGED <<families, next>>
  /\ UNCHANGED <<confVars, dirs, data, column_family, crashes, starts>>

\* delete db; the handles that CreateColumnFamily returned are lost.
CloseBootstrap ==
  LET n == req.dbname IN
  /\ Running /\ pc = "create"
  /\ next > Len(cf_names(n))
  /\ db' = [db EXCEPT ![n] = "deleted"]
  /\ lock' = [lock EXCEPT ![path[n]] = Nothing]
  /\ pc' = "openAll"
  /\ UNCHANGED <<is_open, handles, diskVars, req, next, reply, procVars>>

\* DB::Open(DBOptions(), path, column_families, &handles, &db)
OpenAll ==
  LET n == req.dbname
      p == path[n]
      cfs == column_families(n) IN
  /\ Running /\ pc = "openAll"
  /\ IF lock[p] = Nothing /\ families[p] = {cfs[i] : i \in 1..Len(cfs)}
     THEN Opened(n, families[p], cfs)
     ELSE NotOpened(n, << >>)
  /\ UNCHANGED <<dirs, data, next, procVars>>

-----------------------------------------------------------------------------
(* The operations.                                                         *)

NoHandle == Nothing

\* The handle at the position where std::find finds the name.
get_handle(n, f) ==
  LET at == {i \in 1..Len(cf_names(n)) : cf_names(n)[i] = f} IN
  IF at = {} THEN NoHandle
  ELSE handles[n][CHOOSE i \in at : \A j \in at : i <= j]

\* Seeded fault: the items are put one by one, and one of them fails.
WriteOneByOne(n, f, items) ==
  \E K \in SUBSET DOMAIN items :
    /\ data' = [data EXCEPT ![path[n]][f] =
                  [k \in Keys |-> IF k \in K THEN items[k] ELSE @[k]]]
    /\ Return(IF K = DOMAIN items THEN 0 ELSE -2, Nothing)

\* DB::Put, and DB::Write of a batch: all of it is done, or none.
Write(n, f, items) ==
  \/ /\ data' = [data EXCEPT ![path[n]][f] =
                   [k \in Keys |-> IF k \in DOMAIN items THEN items[k]
                                   ELSE @[k]]]
     /\ Return(0, Nothing)
  \/ /\ Return(-2, Nothing)
     /\ UNCHANGED data

Get(n, f, k) ==
  LET v == data[path[n]][f][k] IN
  /\ IF v = NotFound THEN Return(-2, Nothing) ELSE Return(0, v)
  /\ UNCHANGED data

\* put_cf and get_cf look their handle up; the others use the default family.
Handle(n) == IF req.op \in {"put_cf", "get_cf"} THEN get_handle(n, req.column)
             ELSE Default

\* The members that each operation converts with asString.
Arguments == {req.op} \cup
  CASE req.op = "put"    -> {req.key, req.value}
    [] req.op = "get"    -> {req.key}
    [] req.op = "put_cf" -> {req.column, req.key, req.value}
    [] req.op = "get_cf" -> {req.column, req.key}
    [] req.op = "write_batch" -> {req.items[k] : k \in DOMAIN req.items}
    [] OTHER -> {}

\* write_batch looks at the db before it converts.
Throws == /\ Bad \in Arguments
          /\ ~(req.op = "write_batch" /\ db[req.dbname] = "null")

Put == [k \in {req.key} |-> req.value]

Serve(n) ==
  \/ /\ req.op = "other" \/ db[n] = "null" \/ Handle(n) = NoHandle
     /\ Return(IF req.op # "other" /\ db[n] = "null" THEN -1 ELSE 7, Nothing)
     /\ UNCHANGED data
  \/ /\ req.op # "other" /\ db[n] # "null" /\ Handle(n) # NoHandle
     /\ \/ req.op \in {"put", "put_cf"} /\ Write(n, Handle(n), Put)
        \/ req.op = "write_batch" /\ Write(n, Handle(n), req.items)
        \/ req.op \in {"get", "get_cf"} /\ Get(n, Handle(n), req.key)

exec_op ==
  /\ Running /\ pc = "op"
  /\ \/ Throws /\ Die /\ UNCHANGED data
     \/ ~Throws /\ Serve(req.dbname) /\ UNCHANGED <<proc, lock>>
  /\ UNCHANGED <<confVars, dirs, families, next, column_family, crashes, starts>>

-----------------------------------------------------------------------------
(* The end of the process, and its restart.                                *)

\* The handler of main: delete item.db for every item, whatever it holds.
SignalHandler ==
  /\ Running /\ pc = "idle"
  /\ \/ /\ is_open' = [n \in Names |-> FALSE]
        /\ db' = [n \in Names |-> "deleted"]
        /\ proc' = "stopped"
        /\ lock' = Unlocked
        /\ UNCHANGED <<pc, req, reply>>
     \/ /\ \E n \in Names : db[n] = "uninit"
        /\ Die
        /\ UNCHANGED <<is_open, db>>
  /\ UNCHANGED <<handles, diskVars, next, column_family, crashes, starts>>

\* The process is killed, in the middle of a request or not.
Crash ==
  /\ Running
  /\ crashes < MaxCrashes
  /\ crashes' = crashes + 1
  /\ Die
  /\ UNCHANGED <<confVars, diskVars, next, column_family, starts>>

Restart ==
  /\ ~Running
  /\ starts < MaxStarts
  /\ starts' = starts + 1
  /\ proc' = "running"
  /\ column_family' \in Configurations
  /\ is_open' = [n \in Names |-> FALSE]
  /\ db'      = [n \in Names |-> "uninit"]
  /\ handles' = [n \in Names |-> << >>]
  /\ next'    = 0
  /\ reply'   = Nothing
  /\ UNCHANGED <<diskVars, lock, pc, req, crashes>>

Next ==
  \/ \E r \in Requests : Receive(r)
  \/ Find \/ open \/ Bootstrap \/ CreateFamily \/ CloseBootstrap \/ OpenAll
  \/ exec_op
  \/ SignalHandler \/ Crash \/ Restart

Spec == Init /\ [][Next]_vars

-----------------------------------------------------------------------------
(* Properties.                                                             *)

\* Every variable has its type, and a request is there while it is served.
TypeOK ==
  /\ \A n \in Names : column_family[n] \in FamilyLists[n]
  /\ is_open \in [Names -> BOOLEAN]
  /\ db \in [Names -> {"uninit", "null", "live", "deleted"}]
  /\ handles \in [Names -> Seq(Families)]
  /\ dirs \subseteq Paths
  /\ families \in [Paths -> SUBSET Families]
  /\ data \in [Paths -> [Families -> [Keys -> Values \cup {NotFound}]]]
  /\ lock \in [Paths -> Names \cup {Nothing}]
  /\ pc \in {"idle", "find", "open", "bootstrap", "create", "openAll", "op"}
  /\ req \in Requests \cup {Nothing}
  /\ pc = "idle" <=> req = Nothing
  /\ pc \notin {"idle", "find"} => req.dbname \in Names
  /\ next \in Nat
  /\ reply \in {Nothing} \cup
       [error : {-2, -1, 0, 1, 3, 4, 6, 7}, value : Values \cup {Nothing}]
  /\ proc \in {"running", "stopped", "crashed"}
  /\ {crashes, starts} \subseteq Nat

\* While is_open holds, the operations (server.cc:109-226) use a database that
\* is really open, which no other config holds, and the handle that get_handle
\* finds at the position of a name is the handle of that family: cf_names of
\* read_config and column_families of open() list the same names.
OpenIsUsable ==
  \A n \in Names : Running /\ is_open[n] =>
    /\ db[n] = "live"
    /\ lock[path[n]] = n
    /\ \A f \in Families : get_handle(n, f) \in {f, NoHandle}
    /\ \A f \in families[path[n]] : is_cf(n) => get_handle(n, f) = f

\* No config file names a family twice, but for the default one.
NamedOnce ==
  \A n \in Names : \A s \in FamilyLists[n] \ {NoFamilies} :
    \A i, j \in 1..Len(s) : s[i] = s[j] /\ s[i] # Default => i = j

\* The families a list names, with the one that is always there.
Listed(s) == {Default} \cup {s[i] : i \in 1..Len(s)}

\* Each database has a path of its own, and a plain one may be created; the
\* config file is edited between two runs only to name the families of the
\* others in another order.
KeptConfig ==
  /\ NamedOnce
  /\ \A m, n \in Names : path[m] = path[n] => m = n
  /\ \A n \in Names :
       \/ FamilyLists[n] = {NoFamilies} /\ n \in CreateMissing
       \/ /\ NoFamilies \notin FamilyLists[n]
          /\ \A s, t \in FamilyLists[n] : Listed(s) = Listed(t)

\* The assertion after CreateColumnFamily (server.cc:80) never fails, where the
\* config file is NamedOnce.
AssertionHolds == [][CreateFamily => proc' # "crashed"]_vars

\* README: "The config file lists all the databases that are meant to be open
\* by the server": no request is answered with error 4, "unable to open db".
AlwaysOpens == reply # Nothing => reply.error # 4

\* What is left of that: while nothing kills the process, open() finds on disk
\* what an earlier open() made, in whatever order the file names the families,
\* which are KeptConfig (server.cc:66-107).
OpensUnlessKilled == crashes = 0 => AlwaysOpens

\* "Register signal handlers so that the daemon may be shut down"
\* (server.cc:261): the handler ends the process in an orderly way.
SignalStops == [][SignalHandler => proc' = "stopped"]_vars

\* The requests for data, where they belong, and what they write.
WellFormed ==
  {r \in Requests : /\ r.dbname \in Names
                    /\ r.op \in {"put_cf", "get_cf"} => r.column \in Families
                    /\ r.op # "write_batch" => r.key \in Keys
                    /\ r.op \in {"put", "put_cf"} => r.value \in Values
                    /\ r.op = "write_batch" =>
                         \A k \in DOMAIN r.items : r.items[k] \in Values}

KvReads == {r \in WellFormed : r.op \in {"get", "get_cf"}}

KvPlace ==
  [r \in WellFormed |->
     <<path[r.dbname], IF r.op \in {"put_cf", "get_cf"} THEN r.column
                       ELSE Default>>]

KvWrites ==
  [r \in {r \in WellFormed : r.op \in {"put", "put_cf", "write_batch"}} |->
     IF r.op = "write_batch" THEN r.items
     ELSE [k \in {r.key} |-> r.value]]

Abstract == INSTANCE KvStore WITH
  Place <- KvPlace, Writes <- KvWrites, Reads <- KvReads,
  Store0 <- Empties, store <- data, asked <- req, answer <- reply

\* exec_json over open(), get_handle and the operations is the store of
\* KvStore: whatever opening, creating families, killing and restarting went
\* on, a request works on the family and database it names, as a whole or not
\* at all, a read finds what was written last, and nobody is answered -1.
ImplementsKvStore == Abstract!KvSpec

=============================================================================
