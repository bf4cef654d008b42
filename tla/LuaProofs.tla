----------------------------- MODULE LuaProofs -----------------------------
(***************************************************************************)
(* That LuaBinding deletes plain databases and iterators at most once, for *)
(* any number of objects.                                                  *)
(***************************************************************************)
EXTENDS LuaBinding, TLAPS

\* What DeletedOnce rests on: the pointer of a plain database or an iterator is
\* null exactly after its object was deleted, and never dangles, so that the
\* test for null that each deletion makes (db_open.cc:50-53, get_iter of
\* iter.cc) is enough.
Lifetimes ==
  /\ db \in [Databases -> {"absent", "live", "null", "dangling"}]
  /\ iter \in [Iterators -> {"absent", "live", "null"}]
  /\ freed \in [Databases \cup Iterators -> Nat]
  /\ \A d \in Databases \ WithFamilies :
       /\ db[d] # "dangling"
       /\ freed[d] = IF db[d] = "null" THEN 1 ELSE 0
  /\ \A i \in Iterators : freed[i] = IF iter[i] = "null" THEN 1 ELSE 0

\* Nothing exists at the beginning.
LEMMA InitLifetimes == Init => Lifetimes
  BY LuaAssumption DEF Init, Lifetimes

\* Opening a database, and closing one of either kind, keep Lifetimes.
LEMMA DatabaseStep ==
  ASSUME NEW d \in Databases, Lifetimes,
         Open(d) \/ Use(d) \/ ClosePlain(d) \/ CloseFamilies(d)
  PROVE  Lifetimes'
<1>1. CASE Open(d)
  BY <1>1, LuaAssumption DEF Lifetimes, Open
<1>2. CASE Use(d)
  BY <1>2 DEF Lifetimes, Use
<1>3. CASE ClosePlain(d)
  <2> USE <1>3 DEF ClosePlain
  <2>1. /\ db' \in [Databases -> {"absent", "live", "null", "dangling"}]
        /\ freed' \in [Databases \cup Iterators -> Nat]
    BY DEF Lifetimes
  <2>2. ASSUME NEW e \in Databases \ WithFamilies
        PROVE  db'[e] # "dangling" /\ freed'[e] = IF db'[e] = "null" THEN 1 ELSE 0
    BY DEF Lifetimes
  <2>3. ASSUME NEW i \in Iterators
        PROVE  freed'[i] = IF iter'[i] = "null" THEN 1 ELSE 0
    BY LuaAssumption DEF Lifetimes
  <2> QED
    BY <2>1, <2>2, <2>3 DEF Lifetimes
<1>4. CASE CloseFamilies(d)
  <2> USE <1>4 DEF CloseFamilies
  <2>1. /\ db' \in [Databases -> {"absent", "live", "null", "dangling"}]
        /\ freed' \in [Databases \cup Iterators -> Nat]
    BY DEF Lifetimes
  <2>2. ASSUME NEW e \in Databases \ WithFamilies
        PROVE  db'[e] # "dangling" /\ freed'[e] = IF db'[e] = "null" THEN 1 ELSE 0
    BY DEF Lifetimes
  <2>3. ASSUME NEW i \in Iterators
        PROVE  freed'[i] = IF iter'[i] = "null" THEN 1 ELSE 0
    BY LuaAssumption DEF Lifetimes
  <2> QED
    BY <2>1, <2>2, <2>3 DEF Lifetimes
<1> QED
  BY <1>1, <1>2, <1>3, <1>4

\* So do making, using and destroying an iterator.
LEMMA IteratorStep ==
  ASSUME NEW i \in Iterators, Lifetimes,
         (\E d \in Databases : MakeIterator(d, i)) \/ Iterate(i) \/ DestroyIterator(i)
  PROVE  Lifetimes'
<1>1. ASSUME NEW d \in Databases, MakeIterator(d, i)
      PROVE  Lifetimes'
  BY <1>1, LuaAssumption DEF Lifetimes, MakeIterator
<1>2. CASE Iterate(i)
  BY <1>2 DEF Lifetimes, Iterate
<1>3. CASE DestroyIterator(i)
  <2> USE <1>3 DEF DestroyIterator
  <2>1. /\ iter' \in [Iterators -> {"absent", "live", "null"}]
        /\ freed' \in [Databases \cup Iterators -> Nat]
    BY DEF Lifetimes
  <2>2. ASSUME NEW e \in Databases \ WithFamilies
        PROVE  db'[e] # "dangling" /\ freed'[e] = IF db'[e] = "null" THEN 1 ELSE 0
    BY LuaAssumption DEF Lifetimes
  <2>3. ASSUME NEW j \in Iterators
        PROVE  freed'[j] = IF iter'[j] = "null" THEN 1 ELSE 0
    BY DEF Lifetimes
  <2> QED
    BY <2>1, <2>2, <2>3 DEF Lifetimes
<1> QED
  BY <1>1, <1>2, <1>3

\* Batches touch none of it.
LEMMA BatchStep ==
  ASSUME NEW b \in Batches, Lifetimes,
         \/ \E d \in Databases : MakeBatch(d, b)
         \/ ChangeBatch(b) \/ WriteBatch(b) \/ DestroyBatch(b)
  PROVE  Lifetimes'
  BY DEF Lifetimes, MakeBatch, ChangeBatch, WriteBatch, DestroyBatch

\* Lifetimes is inductive.
THEOREM LifetimesKept == Spec => []Lifetimes
<1>1. Lifetimes /\ [Next]_luaVars => Lifetimes'
  <2> SUFFICES ASSUME Lifetimes, [Next]_luaVars PROVE Lifetimes'
    OBVIOUS
  <2>1. CASE UNCHANGED luaVars
    BY <2>1 DEF Lifetimes, luaVars
  <2>2. CASE Next
    BY <2>2, DatabaseStep, IteratorStep, BatchStep DEF Next
  <2> QED
    BY <2>1, <2>2
<1> QED
  BY <1>1, InitLifetimes, PTL DEF Spec

\* Whatever a Lua program calls, a plain database and an iterator are deleted at
\* most once (db_open.cc:50-53, 61; iter.cc:114-117).
THEOREM PlainDeletedOnce == Spec => []DeletedOnce
<1>1. Lifetimes => DeletedOnce
  BY DEF Lifetimes, DeletedOnce
<1> QED
  BY <1>1, LifetimesKept, PTL
=============================================================================
