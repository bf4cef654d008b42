----------------------------- MODULE LuaBinding -----------------------------
(***************************************************************************)
(* The objects of the Lua binding and their lifetimes: databases (db_open  *)
(* and cf), iterators (iter) and batches (writebatch, writebatch_cf).  A   *)
(* Lua program holds a userdata for each and may call their functions in   *)
(* any order; the C++ object in it may have ended before the userdata      *)
(* does.  Iterators and batches hold the DB pointer of the database that   *)
(* made them.                                                              *)
(*                                                                         *)
(* A call succeeds, raises a Lua error, or is undefined in C++, after      *)
(* which nothing is known and the model stops.                             *)
(***************************************************************************)
EXTENDS Integers

CONSTANTS Databases, WithFamilies, Iterators, Batches, NoDatabase

ASSUME LuaAssumption ==
  /\ WithFamilies \subseteq Databases
  /\ NoDatabase \notin Databases
  /\ Databases \cap Iterators = {}

VARIABLES
  db,      \* the member db of each database: a live DB, null, or dangling
  iter,    \* the member iter of each iterator, in the same way
  batch,   \* each batch: "absent", "live" or "destroyed"
  of,      \* the database that made an iterator or a batch
  freed,   \* how often the object of each of them was deleted
  outcome  \* "ok", "error" or "undefined"

luaVars == <<db, iter, batch, of, freed, outcome>>

Made == Iterators \cup Batches

Init ==
  /\ db = [d \in Databases |-> "absent"]
  /\ iter = [i \in Iterators |-> "absent"]
  /\ batch = [b \in Batches |-> "absent"]
  /\ of = [m \in Made |-> NoDatabase]
  /\ freed = [o \in Databases \cup Iterators |-> 0]
  /\ outcome = "ok"

Live(d) == d # NoDatabase /\ db[d] = "live"
OkIf(condition) == outcome' = IF condition THEN "ok" ELSE "undefined"

Defined == outcome # "undefined"

-----------------------------------------------------------------------------
(* Databases.                                                              *)

\* open_db and open_cf; DB::Open may fail, and raise an error.
Open(d) ==
  /\ Defined /\ db[d] = "absent"
  /\ \/ db' = [db EXCEPT ![d] = "live"] /\ outcome' = "ok"
     \/ outcome' = "error" /\ UNCHANGED db
  /\ UNCHANGED <<iter, batch, of, freed>>

\* get_handle gives null for a name that is not among the families, and RocksDB
\* goes through it; a batch takes null for the default family.
UnknownFamily(d) == d \in WithFamilies /\ outcome' = "undefined"

\* get, put, remove and backup go through d->db without a look at it; put and
\* remove raise an error when RocksDB does.
Use(d) ==
  /\ Defined /\ db[d] # "absent"
  /\ \/ OkIf(db[d] = "live")
     \/ db[d] = "live" /\ outcome' = "error"
     \/ UnknownFamily(d)
  /\ UNCHANGED <<db, iter, batch, of, freed>>

\* Seeded fault: ~rocks_db leaves the pointer as it is.
ClosePlainDangling(d) ==
  /\ Defined /\ d \notin WithFamilies /\ db[d] # "absent"
  /\ freed' = [freed EXCEPT ![d] = @ + 1]
  /\ db' = [db EXCEPT ![d] = "dangling"]
  /\ outcome' = "ok"
  /\ UNCHANGED <<iter, batch, of>>

\* close of db_open.cc: ~rocks_db sets db to null, and is run only if it was not.
ClosePlain(d) ==
  /\ Defined /\ d \notin WithFamilies /\ db[d] # "absent"
  /\ freed' = [freed EXCEPT ![d] = IF db[d] = "null" THEN @ ELSE @ + 1]
  /\ db' = [db EXCEPT ![d] = "null"]
  /\ outcome' = "ok"
  /\ UNCHANGED <<iter, batch, of>>

\* close of cf.cc: ~rocks_cf destroys the handles and deletes db, and leaves
\* the pointer as it is.
CloseFamilies(d) ==
  /\ Defined /\ d \in WithFamilies /\ db[d] # "absent"
  /\ IF db[d] = "null"
     THEN outcome' = "error" /\ UNCHANGED <<db, freed>>
     ELSE /\ OkIf(db[d] = "live")
          /\ freed' = [freed EXCEPT ![d] = @ + 1]
          /\ db' = [db EXCEPT ![d] = "dangling"]
  /\ UNCHANGED <<iter, batch, of>>

-----------------------------------------------------------------------------
(* Iterators.                                                              *)

MakeIterator(d, i) ==
  /\ Defined /\ iter[i] = "absent" /\ db[d] # "absent"
  /\ iter' = [iter EXCEPT ![i] = "live"]
  /\ of' = [of EXCEPT ![i] = d]
  /\ OkIf(Live(d)) \/ UnknownFamily(d)
  /\ UNCHANGED <<db, batch, freed>>

\* valid, seek_to_first, seek_to_last, seek, next, prev, key and value, after
\* get_iter; key and value raise an error when the iterator is not valid.
Iterate(i) ==
  /\ Defined /\ iter[i] # "absent"
  /\ IF iter[i] = "null" THEN outcome' = "error"
     ELSE OkIf(Live(of[i])) \/ (Live(of[i]) /\ outcome' = "error")
  /\ UNCHANGED <<db, iter, batch, of, freed>>

\* Seeded fault: the pointer is not set to null after delete.
DestroyIteratorDangling(i) ==
  /\ Defined /\ iter[i] # "absent"
  /\ OkIf(Live(of[i]))
  /\ freed' = [freed EXCEPT ![i] = @ + 1]
  /\ UNCHANGED <<db, iter, batch, of>>

DestroyIterator(i) ==
  /\ Defined /\ iter[i] # "absent"
  /\ IF iter[i] = "null" THEN outcome' = "error" /\ UNCHANGED <<iter, freed>>
     ELSE /\ OkIf(Live(of[i]))
          /\ freed' = [freed EXCEPT ![i] = @ + 1]
          /\ iter' = [iter EXCEPT ![i] = "null"]
  /\ UNCHANGED <<db, batch, of>>

-----------------------------------------------------------------------------
(* Batches: get_writebatch only looks at the userdata.                     *)

\* A batch with a family needs its handle from the vector of rocks_cf.
MakeBatch(d, b) ==
  /\ Defined /\ batch[b] = "absent" /\ db[d] # "absent"
  /\ batch' = [batch EXCEPT ![b] = "live"]
  /\ of' = [of EXCEPT ![b] = d]
  /\ OkIf(d \in WithFamilies => Live(d))
  /\ UNCHANGED <<db, iter, freed>>

\* put and merge use the handle of the family, clear and count nothing.
ChangeBatch(b) ==
  /\ Defined /\ batch[b] # "absent"
  /\ \/ OkIf(batch[b] = "live")
     \/ OkIf(batch[b] = "live" /\ (of[b] \in WithFamilies => Live(of[b])))
  /\ UNCHANGED <<db, iter, batch, of, freed>>

WriteBatch(b) ==
  /\ Defined /\ batch[b] # "absent"
  /\ OkIf(batch[b] = "live" /\ Live(of[b]))
  /\ UNCHANGED <<db, iter, batch, of, freed>>

\* The destructor is run, and nothing remembers that it was.
DestroyBatch(b) ==
  /\ Defined /\ batch[b] # "absent"
  /\ OkIf(batch[b] = "live")
  /\ batch' = [batch EXCEPT ![b] = "destroyed"]
  /\ UNCHANGED <<db, iter, of, freed>>

Next ==
  \/ \E d \in Databases :
       \/ Open(d) \/ Use(d) \/ ClosePlain(d) \/ CloseFamilies(d)
       \/ \E i \in Iterators : MakeIterator(d, i)
       \/ \E b \in Batches : MakeBatch(d, b)
  \/ \E i \in Iterators : Iterate(i) \/ DestroyIterator(i)
  \/ \E b \in Batches : ChangeBatch(b) \/ WriteBatch(b) \/ DestroyBatch(b)

Spec == Init /\ [][Next]_luaVars

-----------------------------------------------------------------------------
(* Properties.                                                             *)

\* Whatever a Lua program calls, and in whatever order, a plain database
\* (db_open.cc:50-53, 61) and an iterator (iter.cc:114-117) are deleted at most
\* once, also when the one outlives the other.
DeletedOnce ==
  \A o \in (Databases \ WithFamilies) \cup Iterators : freed[o] <= 1

=============================================================================
