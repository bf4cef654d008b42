--------------------------- MODULE DatabaseProofs ---------------------------
(***************************************************************************)
(* Proofs about Database, for every value of its constants: any number of  *)
(* databases, paths, families, crashes and restarts.                       *)
(*                                                                         *)
(* The first part is about Others, the loop that drops the default family; *)
(* it is a recursive function, and what it computes is shown by induction  *)
(* over the set of the lengths for which it holds.                         *)
(***************************************************************************)
EXTENDS Database, SequenceTheorems, NaturalsInduction, WellFoundedInduction, TLAPS

-----------------------------------------------------------------------------
(* Natural numbers.                                                        *)

\* A set of numbers that is not empty has a least one.
LEMMA LeastOf ==
  ASSUME NEW T, T \subseteq Nat, T # {}
  PROVE  \E k \in T : \A j \in T : k <= j
<1>1. PICK k \in T : \A j \in T : ~ (<<j, k>> \in OpToRel(<, Nat))
  BY NatLessThanWellFounded, WFMin
<1>2. OpToRel(<, Nat) = {ss \in Nat \X Nat : ss[1] < ss[2]}
  BY DEF OpToRel
<1>3. \A j \in T : ~ (j < k)
  BY <1>1, <1>2
<1> QED
  BY <1>3

\* Induction, over a set.
LEMMA AllNumbers ==
  ASSUME NEW T, T \subseteq Nat, 0 \in T, \A k \in T : k + 1 \in T
  PROVE  T = Nat
<1>1. SUFFICES ASSUME Nat \ T # {}
               PROVE  FALSE
  OBVIOUS
<1>2. PICK k \in Nat \ T : \A j \in Nat \ T : k <= j
  BY <1>1, LeastOf
<1>3. k # 0 /\ k - 1 \in Nat
  BY <1>2
<1>4. k - 1 \in T
  BY <1>2, <1>3
<1>5. (k - 1) + 1 = k
  BY <1>2
<1> QED
  BY <1>2, <1>4, <1>5

-----------------------------------------------------------------------------
(* The families of a database.                                             *)

\* f[i] is what the loop of Others has kept after i of the names in s.
IsKept(s, f, k) ==
  f = [i \in 0..k |-> IF i = 0 THEN << >>
                      ELSE IF s[i] = Default THEN f[i - 1]
                      ELSE Append(f[i - 1], s[i])]

\* Such an f exists, for every length.
LEMMA KeptExists ==
  ASSUME NEW s, NEW n \in Nat
  PROVE  \E f : IsKept(s, f, n)
<1> DEFINE T == {k \in Nat : \E f : IsKept(s, f, k)}
<1>1. 0 \in T
  <2>1. IsKept(s, [i \in 0..0 |-> << >>], 0)
    BY DEF IsKept
  <2> QED
    BY <2>1
<1>2. ASSUME NEW k \in T
      PROVE  k + 1 \in T
  <2>1. PICK f : IsKept(s, f, k)
    OBVIOUS
  <2> DEFINE g == [i \in 0..(k + 1) |->
                     IF i = k + 1 THEN IF s[i] = Default THEN f[k]
                                       ELSE Append(f[k], s[i])
                     ELSE f[i]]
  <2>2. \A i \in 0..k : f[i] = IF i = 0 THEN << >>
                               ELSE IF s[i] = Default THEN f[i - 1]
                               ELSE Append(f[i - 1], s[i])
    BY <2>1 DEF IsKept
  <2>3. \A i \in 0..(k + 1) : g[i] = IF i = 0 THEN << >>
                                     ELSE IF s[i] = Default THEN g[i - 1]
                                     ELSE Append(g[i - 1], s[i])
    BY <2>2
  <2>4. IsKept(s, g, k + 1)
    BY <2>3 DEF IsKept
  <2> QED
    BY <2>4
<1>3. T = Nat
  <2> HIDE DEF T
  <2>1. T \subseteq Nat
    BY DEF T
  <2> QED
    BY <1>1, <1>2, <2>1, AllNumbers
<1> QED
  BY <1>3

\* Others returns what the loop has kept at its end.
LEMMA OthersKept ==
  ASSUME NEW s, Len(s) \in Nat
  PROVE  \E f : /\ Others(s) = f[Len(s)]
                /\ f[0] = << >>
                /\ \A i \in 1..Len(s) :
                     f[i] = IF s[i] = Default THEN f[i - 1]
                            ELSE Append(f[i - 1], s[i])
<1> DEFINE kept == CHOOSE f : IsKept(s, f, Len(s))
<1>1. IsKept(s, kept, Len(s))
  BY KeptExists
<1>2. Others(s) = kept[Len(s)]
  BY Zenon DEF Others, IsKept
<1> HIDE DEF kept
<1>3. \A i \in 0..Len(s) :
        kept[i] = IF i = 0 THEN << >>
                  ELSE IF s[i] = Default THEN kept[i - 1]
                  ELSE Append(kept[i - 1], s[i])
  BY <1>1 DEF IsKept
<1> QED
  BY <1>2, <1>3

\* No name but the default one is twice among the first k of s.
Single(s, k) == \A i, j \in 1..k : s[i] = s[j] /\ s[i] # Default => i = j

\* u is what is left of the first k of s.
Left(u, s, k) ==
  /\ u \in Seq(Families)
  /\ \A x : (\E i \in 1..Len(u) : u[i] = x)
              <=> x # Default /\ \E i \in 1..k : s[i] = x
  /\ Single(s, k) => Single(u, Len(u))

\* The round of the loop with the default name changes nothing.
LEMMA LeftSkip ==
  ASSUME NEW u, NEW s, NEW k \in Nat, Left(u, s, k), s[k + 1] = Default
  PROVE  Left(u, s, k + 1)
<1>1. \A x : x # Default => ((\E i \in 1..(k + 1) : s[i] = x) <=> \E i \in 1..k : s[i] = x)
  OBVIOUS
<1>2. Single(s, k + 1) => Single(s, k)
  BY DEF Single
<1> QED
  BY <1>1, <1>2 DEF Left

\* The round with another name appends it.
LEMMA LeftAppend ==
  ASSUME NEW u, NEW s, NEW k \in Nat, Left(u, s, k),
         s[k + 1] \in Families \ {Default}
  PROVE  Left(Append(u, s[k + 1]), s, k + 1)
<1> DEFINE y == s[k + 1]
           t == Append(u, y)
<1>1. u \in Seq(Families) /\ y \in Families /\ y # Default /\ Len(u) \in Nat
  BY DEF Left
<1>2. /\ t \in Seq(Families)
      /\ Len(t) = Len(u) + 1
      /\ \A i \in 1..Len(u) : t[i] = u[i]
      /\ t[Len(u) + 1] = y
  BY <1>1, AppendProperties
<1> HIDE DEF t
<1>3. \A x : (\E i \in 1..Len(t) : t[i] = x) <=> (x = y \/ \E i \in 1..Len(u) : u[i] = x)
  BY <1>1, <1>2
<1>4. \A x : (\E i \in 1..(k + 1) : s[i] = x) <=> (x = y \/ \E i \in 1..k : s[i] = x)
  OBVIOUS
<1>5. ASSUME Single(s, k + 1)
      PROVE  Single(t, Len(t))
  <2>1. Single(u, Len(u))
    BY <1>5 DEF Left, Single
  <2>2. ~ \E i \in 1..k : s[i] = y
    BY <1>1, <1>5 DEF Single
  <2>3. ~ \E i \in 1..Len(u) : u[i] = y
    BY <2>2 DEF Left
  <2>4. \A i \in 1..Len(u) : t[i] # y
    BY <1>2, <2>3
  <2>5. \A i, j \in 1..Len(u) : t[i] = t[j] /\ t[i] # Default => i = j
    BY <1>2, <2>1 DEF Single
  <2>6. \A i \in 1..Len(t) : i \in 1..Len(u) \/ i = Len(u) + 1
    BY <1>1, <1>2
  <2> QED
    BY <1>2, <2>4, <2>5, <2>6 DEF Single
<1>6. \A x : (\E i \in 1..Len(t) : t[i] = x)
               <=> x # Default /\ \E i \in 1..(k + 1) : s[i] = x
  BY <1>1, <1>3, <1>4 DEF Left
<1>7. Left(t, s, k + 1)
  BY <1>2, <1>5, <1>6 DEF Left
<1> QED
  BY <1>7 DEF t

\* Others keeps the names that are not the default one.
LEMMA OthersNames ==
  ASSUME NEW s \in Seq(Families)
  PROVE  Left(Others(s), s, Len(s))
<1>1. PICK f : /\ Others(s) = f[Len(s)]
               /\ f[0] = << >>
               /\ \A i \in 1..Len(s) :
                    f[i] = IF s[i] = Default THEN f[i - 1]
                           ELSE Append(f[i - 1], s[i])
  BY OthersKept
<1> DEFINE T == {k \in Nat : k <= Len(s) => Left(f[k], s, k)}
<1>2. 0 \in T
  <2>1. << >> \in Seq(Families) /\ Len(<< >>) = 0
    OBVIOUS
  <2>2. Left(<< >>, s, 0)
    BY <2>1 DEF Left, Single
  <2> QED
    BY <1>1, <2>2
<1>3. ASSUME NEW k \in T
      PROVE  k + 1 \in T
  <2>1. SUFFICES ASSUME k + 1 <= Len(s)
                 PROVE  Left(f[k + 1], s, k + 1)
    OBVIOUS
  <2>2. /\ k \in Nat
        /\ Left(f[k], s, k)
        /\ s[k + 1] \in Families
        /\ f[k + 1] = IF s[k + 1] = Default THEN f[k]
                      ELSE Append(f[k], s[k + 1])
    BY <1>1, <2>1
  <2> QED
    BY <2>2, LeftSkip, LeftAppend
<1>4. T = Nat
  <2> HIDE DEF T
  <2>1. T \subseteq Nat
    BY DEF T
  <2> QED
    BY <1>2, <1>3, <2>1, AllNumbers
<1> QED
  BY <1>1, <1>4

\* Behind the default name it finds them all, if that is not among them.
LEMMA OthersBehindDefault ==
  ASSUME NEW t \in Seq(Families), \A i \in 1..Len(t) : t[i] # Default
  PROVE  Others(<<Default>> \o t) = t
<1> DEFINE s == <<Default>> \o t
<1>1. /\ s \in Seq(Families)
      /\ Len(s) = Len(t) + 1
      /\ s[1] = Default
      /\ \A i \in 1..Len(t) : s[i + 1] = t[i]
  <2>1. <<Default>> \in Seq(Families)
    BY DatabaseAssumption
  <2> QED
    BY <2>1, ConcatProperties
<1> HIDE DEF s
<1>2. PICK f : /\ Others(s) = f[Len(s)]
               /\ f[0] = << >>
               /\ \A i \in 1..Len(s) :
                    f[i] = IF s[i] = Default THEN f[i - 1]
                           ELSE Append(f[i - 1], s[i])
  BY <1>1, OthersKept
<1> DEFINE T == {k \in Nat : k <= Len(t) =>
                   /\ f[k + 1] \in Seq(Families)
                   /\ Len(f[k + 1]) = k
                   /\ \A i \in 1..k : f[k + 1][i] = t[i]}
<1>3. 0 \in T
  <2>1. f[1] = << >>
    BY <1>1, <1>2
  <2>2. << >> \in Seq(Families) /\ Len(<< >>) = 0
    OBVIOUS
  <2>3. f[0 + 1] = << >>
    BY <2>1
  <2>4. /\ f[0 + 1] \in Seq(Families)
        /\ Len(f[0 + 1]) = 0
        /\ \A i \in 1..0 : f[0 + 1][i] = t[i]
    BY <2>2, <2>3
  <2> QED
    BY <2>4
<1>4. ASSUME NEW k \in T
      PROVE  k + 1 \in T
  <2>1. SUFFICES ASSUME k + 1 <= Len(t)
                 PROVE  /\ f[(k + 1) + 1] \in Seq(Families)
                        /\ Len(f[(k + 1) + 1]) = k + 1
                        /\ \A i \in 1..(k + 1) : f[(k + 1) + 1][i] = t[i]
    OBVIOUS
  <2>2. /\ k \in Nat
        /\ f[k + 1] \in Seq(Families)
        /\ Len(f[k + 1]) = k
        /\ \A i \in 1..k : f[k + 1][i] = t[i]
    BY <2>1
  <2>3. /\ t[k + 1] \in Families
        /\ f[(k + 1) + 1] = Append(f[k + 1], t[k + 1])
    <3>1. (k + 1) + 1 \in 1..Len(s) /\ s[(k + 1) + 1] = t[k + 1] /\ t[k + 1] # Default
      BY <1>1, <2>1, <2>2
    <3>2. ((k + 1) + 1) - 1 = k + 1
      BY <2>2
    <3>3. f[(k + 1) + 1] = Append(f[((k + 1) + 1) - 1], s[(k + 1) + 1])
      BY <1>2, <3>1
    <3>4. t[k + 1] \in Families
      BY <2>1, <2>2, ElementOfSeq
    <3> QED
      BY <3>1, <3>2, <3>3, <3>4
  <2> QED
    BY <2>2, <2>3, AppendProperties
<1>5. T = Nat
  <2> HIDE DEF T
  <2>1. T \subseteq Nat
    BY DEF T
  <2> QED
    BY <1>3, <1>4, <2>1, AllNumbers
<1>6. /\ f[Len(t) + 1] \in Seq(Families)
      /\ Len(f[Len(t) + 1]) = Len(t)
      /\ \A i \in 1..Len(t) : f[Len(t) + 1][i] = t[i]
  BY <1>5
<1>7. f[Len(t) + 1] = t
  BY <1>6, SeqEqual
<1> QED
  BY <1>1, <1>2, <1>7 DEF s

\* open() asks RocksDB for the names that read_config left, each at its place.
LEMMA SameFamilies ==
  ASSUME NEW n \in Names, column_family[n] \in FamilyLists[n]
  PROVE  /\ cf_names(n) \in Seq(Families)
         /\ column_families(n) \in Seq(Families)
         /\ is_cf(n) <=> column_family[n] # NoFamilies
         /\ is_cf(n) => /\ column_families(n) = cf_names(n)
                        /\ {cf_names(n)[i] : i \in 1..Len(cf_names(n))}
                             = Listed(column_family[n])
                        /\ Len(cf_names(n)) \in Nat \ {0}
                        /\ cf_names(n)[1] = Default
                        /\ NamedOnce => \A i, j \in 1..Len(cf_names(n)) :
                                          cf_names(n)[i] = cf_names(n)[j] => i = j
<1> DEFINE s == column_family[n]
           t == Others(s)
           c == <<Default>> \o t
<1>1. <<Default>> \in Seq(Families) /\ s \in Seq(Families) \cup {NoFamilies}
  BY DatabaseAssumption
<1>2. CASE s = NoFamilies
  <2>1. cf_names(n) = << >>
    BY <1>2 DEF cf_names
  <2>2. Others(<< >>) \in Seq(Families)
    <3>1. << >> \in Seq(Families)
      OBVIOUS
    <3> QED
      BY <3>1, OthersNames DEF Left
  <2> QED
    BY <1>1, <1>2, <2>1, <2>2, ConcatProperties DEF is_cf, column_families
<1>3. CASE s # NoFamilies
  <2>1. s \in Seq(Families) /\ cf_names(n) = c
    BY <1>1, <1>3 DEF cf_names
  <2>2. Left(t, s, Len(s))
    BY <2>1, OthersNames
  <2> HIDE DEF t
  <2>3. t \in Seq(Families) /\ \A i \in 1..Len(t) : t[i] # Default
    BY <2>2 DEF Left
  <2>4. /\ c \in Seq(Families)
        /\ Len(c) = Len(t) + 1
        /\ c[1] = Default
        /\ \A i \in 1..Len(t) : c[i + 1] = t[i]
    BY <1>1, <2>3, ConcatProperties
  <2>5. Others(c) = t
    BY <2>3, OthersBehindDefault
  <2> HIDE DEF c
  <2>6. c # << >> /\ Len(c) \in Nat \ {0}
    BY <2>3, <2>4
  <2>7. column_families(n) = c
    BY <2>1, <2>5 DEF column_families, c
  <2>8. \A j \in 1..Len(c) : j = 1 \/ (j - 1 \in 1..Len(t) /\ c[j] = t[j - 1])
    <3>1. SUFFICES ASSUME NEW j \in 1..Len(c), j # 1
                   PROVE  j - 1 \in 1..Len(t) /\ c[j] = t[j - 1]
      OBVIOUS
    <3>2. j - 1 \in 1..Len(t) /\ (j - 1) + 1 = j
      BY <2>3, <2>4, <3>1
    <3> QED
      BY <2>4, <3>2
  <2>9. \A x : (\E i \in 1..Len(c) : c[i] = x) <=> x \in Listed(s)
    <3>1. \A x : (\E i \in 1..Len(c) : c[i] = x) <=> (x = Default \/ \E i \in 1..Len(t) : t[i] = x)
      <4>1. 1 \in 1..Len(c) /\ \A i \in 1..Len(t) : i + 1 \in 1..Len(c)
        BY <2>3, <2>4
      <4> QED
        BY <2>4, <2>8, <4>1, ZenonT(40)
    <3>2. \A x : (\E i \in 1..Len(t) : t[i] = x) <=> x # Default /\ \E i \in 1..Len(s) : s[i] = x
      BY <2>2 DEF Left
    <3> QED
      BY <3>1, <3>2 DEF Listed
  <2>10. NamedOnce => \A i, j \in 1..Len(c) : c[i] = c[j] => i = j
    <3>1. SUFFICES ASSUME NamedOnce, NEW i \in 1..Len(c), NEW j \in 1..Len(c), c[i] = c[j]
                   PROVE  i = j
      OBVIOUS
    <3>2. Single(t, Len(t))
      BY <1>3, <2>2, <3>1 DEF NamedOnce, Left, Single
    <3>3. \A k, l \in 1..Len(t) : t[k] = t[l] => k = l
      BY <2>3, <3>2 DEF Single
    <3>4. \A k \in 1..Len(c) : c[k] = Default => k = 1
      BY <2>3, <2>8
    <3>5. CASE i = 1 \/ j = 1
      BY <2>4, <3>1, <3>4, <3>5
    <3>6. CASE i # 1 /\ j # 1
      <4>1. i - 1 \in 1..Len(t) /\ j - 1 \in 1..Len(t) /\ t[i - 1] = t[j - 1]
        BY <2>8, <3>1, <3>6
      <4>2. i - 1 = j - 1
        BY <3>3, <4>1
      <4> QED
        BY <4>2
    <3> QED
      BY <3>5, <3>6
  <2>11. {c[i] : i \in 1..Len(c)} = Listed(s)
    BY <2>9
  <2> QED
    BY <1>3, <2>1, <2>4, <2>6, <2>7, <2>10, <2>11 DEF is_cf
<1> QED
  BY <1>2, <1>3

-----------------------------------------------------------------------------
(* The invariant.  TypeOK and OpenIsUsable do not say what is open at each *)
(* step of open(), nor who holds a lock; its steps rely on that.           *)

\* The names of n, as a set.
CfSet(n) == {cf_names(n)[i] : i \in 1..Len(cf_names(n))}

\* The names of n that CreateColumnFamily has been called for.
Created(n) == {Default} \cup {cf_names(n)[i] : i \in 1..(next - 1)}

\* With the process, its requests and its locks end.
EndedClean == ~Running => pc = "idle" /\ lock = Unlocked

\* Where open() is: what is open, locked and created then.
OpenSteps ==
  LET n == req.dbname IN
  /\ pc \in {"bootstrap", "create", "openAll"} =>
       ~is_open[n] /\ is_cf(n) /\ path[n] \in dirs
  /\ pc = "bootstrap" => lock[path[n]] = Nothing
  /\ pc = "create" => /\ lock[path[n]] = n
                      /\ next \in 1..(Len(cf_names(n)) + 1)
                      /\ families[path[n]] = Created(n)
  /\ pc = "op" => is_open[n]

\* A lock is held by a database that is open, or that is being created.
LocksAreHeld ==
  \A p \in Paths : lock[p] # Nothing =>
    /\ p \in dirs
    /\ path[lock[p]] = p
    /\ is_open[lock[p]] \/ (pc = "create" /\ req.dbname = lock[p])

\* What is open has its lock, its families and a handle for each.
OpenHasAll ==
  \A n \in Names : Running /\ is_open[n] =>
    /\ db[n] = "live"
    /\ lock[path[n]] = n
    /\ is_cf(n) => /\ handles[n] = cf_names(n)
                   /\ families[path[n]] = CfSet(n)

IInv == TypeOK /\ EndedClean /\ OpenSteps /\ LocksAreHeld /\ OpenHasAll

\* The families that open() asks for.
Wanted(n) == IF column_family[n] = NoFamilies THEN {Default}
             ELSE Listed(column_family[n])

\* Before the first kill, a path holds what open() asks for, unless it is about
\* to be made.
MadeAsWanted ==
  crashes = 0 => \A n \in Names :
    families[path[n]] =
      IF path[n] \notin dirs \/ (pc = "bootstrap" /\ req.dbname = n) THEN {}
      ELSE IF pc = "create" /\ req.dbname = n THEN Created(n)
      ELSE Wanted(n)

\* It holds at the start.
LEMMA InitIInv == Init => IInv
<1> SUFFICES ASSUME Init
             PROVE  IInv
  OBVIOUS
<1>1. TypeOK
  BY DatabaseAssumption DEF Init, TypeOK, Configurations, Unlocked, Empties
<1>2. EndedClean /\ OpenSteps /\ LocksAreHeld /\ OpenHasAll
  BY DEF Init, EndedClean, OpenSteps, LocksAreHeld, OpenHasAll, Running, Unlocked
<1> QED
  BY <1>1, <1>2 DEF IInv

\* What the file says stays, and with it the names that are read off it.
LEMMA SameConfig ==
  ASSUME column_family' = column_family
  PROVE  \A n : /\ cf_names(n)' = cf_names(n)
                /\ is_cf(n)' = is_cf(n)
                /\ CfSet(n)' = CfSet(n)
                /\ next' = next => Created(n)' = Created(n)
BY DEF cf_names, is_cf, CfSet, Created

\* An abnormal end leaves nothing open and nothing locked.
LEMMA DieKeeps ==
  ASSUME Die
  PROVE  EndedClean' /\ OpenSteps' /\ LocksAreHeld' /\ OpenHasAll'
BY DEF Die, EndedClean, OpenSteps, LocksAreHeld, OpenHasAll, Running, Unlocked

\* The same, of a step that changes nothing else on the way.
LEMMA DieAlone ==
  ASSUME IInv, Die, crashes' \in Nat,
         UNCHANGED <<confVars, diskVars, next, column_family, starts>>
  PROVE  IInv'
<1>1. TypeOK'
  BY DEF IInv, TypeOK, Die, Unlocked, confVars, diskVars
<1> QED
  BY <1>1, DieKeeps DEF IInv

\* A request that comes in keeps the invariant.
LEMMA ReceiveIInv ==
  ASSUME IInv, NEW r \in Requests, Receive(r)
  PROVE  IInv'
<1> USE DEF IInv, Receive, Running, confVars, diskVars, procVars
<1>1. TypeOK'
  BY DatabaseAssumption DEF TypeOK
<1>2. EndedClean' /\ OpenSteps' /\ LocksAreHeld' /\ OpenHasAll'
  BY SameConfig DEF EndedClean, OpenSteps, LocksAreHeld, OpenHasAll
<1> QED
  BY <1>1, <1>2

\* An answer that leaves all the rest as it is.
LEMMA ReturnAlone ==
  ASSUME IInv, Running, pc \notin {"create", "idle"},
         NEW e \in {-2, -1, 0, 1, 3, 4, 6, 7}, NEW v \in Values \cup {Nothing},
         Return(e, v), data' \in [Paths -> [Families -> [Keys -> Values \cup {NotFound}]]],
         UNCHANGED <<confVars, dirs, families, lock, next, procVars>>
  PROVE  IInv'
<1> USE DEF IInv, Return, Running, confVars, procVars
<1>1. TypeOK'
  BY DEF TypeOK
<1>2. EndedClean' /\ OpenSteps' /\ LocksAreHeld' /\ OpenHasAll'
  BY SameConfig DEF EndedClean, OpenSteps, LocksAreHeld, OpenHasAll
<1> QED
  BY <1>1, <1>2

\* So does finding the database (server.cc, exec_json), or throwing.
LEMMA FindIInv ==
  ASSUME IInv, Find
  PROVE  IInv'
<1> DEFINE n == req.dbname
<1>1. /\ Running /\ pc = "find"
      /\ UNCHANGED <<confVars, diskVars, next, column_family, crashes, starts>>
  BY DEF Find
<1>2. CASE n = Bad /\ Die
  BY <1>1, <1>2, DieAlone DEF IInv, TypeOK
<1>3. CASE n \in Names /\ pc' = "open" /\ UNCHANGED <<req, reply, proc, lock>>
  <2> USE <1>1, <1>3 DEF IInv, Running, confVars, diskVars
  <2>1. TypeOK'
    BY DatabaseAssumption DEF TypeOK
  <2>2. EndedClean' /\ OpenSteps' /\ LocksAreHeld' /\ OpenHasAll'
    BY SameConfig DEF EndedClean, OpenSteps, LocksAreHeld, OpenHasAll
  <2> QED
    BY <2>1, <2>2
<1>4. CASE /\ n \notin Names \cup {Bad}
           /\ Return(IF n = Unparsed THEN 1 ELSE IF n = Empty THEN 6 ELSE 3, Nothing)
           /\ UNCHANGED <<proc, lock>>
  <2>1. PICK e \in {1, 3, 6} : Return(e, Nothing)
    BY <1>4
  <2>2. data' \in [Paths -> [Families -> [Keys -> Values \cup {NotFound}]]]
    BY <1>1 DEF IInv, TypeOK, diskVars
  <2> QED
    BY <1>1, <1>4, <2>1, <2>2, ReturnAlone DEF procVars, diskVars
<1> QED
  BY <1>2, <1>3, <1>4 DEF Find

\* DB::Open succeeds for n, whose path is not locked.
LEMMA OpenedIInv ==
  ASSUME IInv, Running, NEW n \in Names, n = req.dbname,
         pc \in {"open", "openAll"}, ~is_open[n], lock[path[n]] = Nothing,
         NEW cfs \in SUBSET Families, NEW hs \in Seq(Families),
         is_cf(n) => /\ hs = cf_names(n)
                     /\ cfs = CfSet(n),
         Opened(n, cfs, hs), dirs' = dirs \cup {path[n]},
         UNCHANGED <<data, next, procVars>>
  PROVE  IInv'
<1> USE DEF IInv, Opened, Running, procVars
<1>1. path[n] \in Paths /\ n # Nothing
  BY DatabaseAssumption
<1>2. TypeOK'
  BY <1>1 DEF TypeOK
<1>3. /\ is_open'[n] /\ db'[n] = "live" /\ handles'[n] = hs
      /\ \A m \in Names \ {n} : /\ is_open'[m] = is_open[m]
                                /\ db'[m] = db[m]
                                /\ handles'[m] = handles[m]
  BY DEF TypeOK
<1>4. /\ families'[path[n]] = cfs /\ lock'[path[n]] = n
      /\ \A p \in Paths \ {path[n]} : families'[p] = families[p] /\ lock'[p] = lock[p]
  BY <1>1 DEF TypeOK
<1>5. EndedClean' /\ OpenSteps'
  BY <1>3 DEF EndedClean, OpenSteps
<1>6. LocksAreHeld'
  <2>1. SUFFICES ASSUME NEW p \in Paths, lock'[p] # Nothing
                 PROVE  p \in dirs' /\ path[lock'[p]] = p /\ is_open'[lock'[p]]
    BY DEF LocksAreHeld
  <2>2. CASE p = path[n]
    BY <1>3, <1>4, <2>2
  <2>3. CASE p # path[n]
    <3>1. lock'[p] = lock[p] /\ lock[p] \in Names
      BY <1>4, <2>1, <2>3 DEF TypeOK
    <3> QED
      BY <1>3, <2>1, <3>1 DEF LocksAreHeld
  <2> QED
    BY <2>2, <2>3
<1>7. OpenHasAll'
  <2>1. SUFFICES ASSUME NEW m \in Names, is_open'[m]
                 PROVE  /\ db'[m] = "live"
                        /\ lock'[path[m]] = m
                        /\ is_cf(m) => /\ handles'[m] = cf_names(m)
                                       /\ families'[path[m]] = CfSet(m)
    BY SameConfig DEF OpenHasAll
  <2>2. CASE m = n
    BY <1>3, <1>4, <2>2
  <2>3. CASE m # n
    <3>1. is_open[m] /\ lock[path[m]] = m /\ m # Nothing
      BY <1>3, <2>1, <2>3, DatabaseAssumption DEF OpenHasAll
    <3>2. path[m] # path[n] /\ path[m] \in Paths
      BY <3>1, DatabaseAssumption
    <3> QED
      BY <1>3, <1>4, <2>3, <3>1, <3>2 DEF OpenHasAll
  <2> QED
    BY <2>2, <2>3
<1> QED
  BY <1>2, <1>5, <1>6, <1>7

\* DB::Open fails for n, which is not open.
LEMMA NotOpenedIInv ==
  ASSUME IInv, Running, NEW n \in Names, n = req.dbname,
         pc \in {"open", "openAll"}, ~is_open[n],
         NEW hs \in Seq(Families), NotOpened(n, hs),
         dirs' = dirs \cup {path[n]}, UNCHANGED <<data, next, procVars>>
  PROVE  IInv'
<1> USE DEF IInv, NotOpened, Return, Running, procVars
<1>1. path[n] \in Paths
  BY DatabaseAssumption
<1>2. TypeOK'
  BY <1>1 DEF TypeOK
<1>3. \A m \in Names \ {n} : db'[m] = db[m] /\ handles'[m] = handles[m]
  BY DEF TypeOK
<1>4. OpenHasAll'
  <2>1. \A m \in Names : is_open[m] => m # n
    OBVIOUS
  <2> QED
    BY <1>3, <2>1, SameConfig DEF OpenHasAll
<1>5. EndedClean' /\ OpenSteps' /\ LocksAreHeld'
  BY DEF EndedClean, OpenSteps, LocksAreHeld
<1> QED
  BY <1>2, <1>4, <1>5

\* So does opening it, with the families that it should have or without.
LEMMA OpenIInv ==
  ASSUME IInv, open
  PROVE  IInv'
<1> DEFINE n == req.dbname
           p == path[n]
<1>1. /\ Running /\ pc = "open" /\ n \in Names /\ p \in Paths
      /\ UNCHANGED <<next, procVars>>
  BY DatabaseAssumption DEF open, IInv, TypeOK
<1>2. CASE /\ is_open[n]
           /\ pc' = "op"
           /\ UNCHANGED <<confVars, diskVars, lock, req, reply>>
  <2> USE <1>1, <1>2 DEF IInv, Running, confVars, diskVars, procVars
  <2>1. TypeOK'
    BY DEF TypeOK
  <2>2. EndedClean' /\ OpenSteps' /\ LocksAreHeld' /\ OpenHasAll'
    BY SameConfig DEF EndedClean, OpenSteps, LocksAreHeld, OpenHasAll
  <2> QED
    BY <2>1, <2>2
<1>3. CASE ~is_open[n] /\ ~is_cf(n) /\ OpenPlain(n) /\ UNCHANGED data
  <2>1. dirs' = dirs \cup {p} /\ handles[n] \in Seq(Families)
    BY <1>1, <1>3 DEF OpenPlain, IInv, TypeOK
  <2>2. CASE lock[p] = Nothing /\ Opened(n, {Default}, handles[n])
    <3>1. {Default} \in SUBSET Families
      BY DatabaseAssumption
    <3> QED
      BY <1>1, <1>3, <2>1, <2>2, <3>1, OpenedIInv
  <2>3. CASE NotOpened(n, handles[n])
    BY <1>1, <1>3, <2>1, <2>3, NotOpenedIInv
  <2> QED
    BY <1>3, <2>2, <2>3 DEF OpenPlain
<1>4. CASE /\ ~is_open[n] /\ is_cf(n)
           /\ pc' = IF p \in dirs THEN "openAll" ELSE "bootstrap"
           /\ dirs' = dirs \cup {p}
           /\ UNCHANGED <<confVars, families, data, lock, req, reply>>
  <2> USE <1>1, <1>4 DEF IInv, Running, confVars, procVars
  <2>1. TypeOK'
    BY DEF TypeOK
  <2>2. p \notin dirs => lock[p] = Nothing
    BY DEF LocksAreHeld
  <2>3. OpenSteps'
    BY <2>2, SameConfig DEF OpenSteps
  <2>4. EndedClean' /\ LocksAreHeld' /\ OpenHasAll'
    BY SameConfig DEF EndedClean, LocksAreHeld, OpenHasAll
  <2> QED
    BY <2>1, <2>3, <2>4
<1> QED
  BY <1>2, <1>3, <1>4 DEF open

\* So does opening with the default family, to create the others.
LEMMA BootstrapIInv ==
  ASSUME IInv, Bootstrap
  PROVE  IInv'
<1> DEFINE n == req.dbname
           p == path[n]
<1>1. /\ Running /\ pc = "bootstrap" /\ n \in Names /\ p \in Paths
      /\ n # Nothing /\ Default \in Families
      /\ ~is_open[n] /\ is_cf(n) /\ lock[p] = Nothing /\ p \in dirs
  BY DatabaseAssumption DEF Bootstrap, IInv, TypeOK, OpenSteps
<1>2. /\ families' = [families EXCEPT ![p] = {Default}]
      /\ lock' = [lock EXCEPT ![p] = n]
      /\ db' = [db EXCEPT ![n] = "live"]
      /\ pc' = "create" /\ next' = 1
      /\ UNCHANGED <<is_open, handles, dirs, data, req, reply, procVars>>
  BY DEF Bootstrap
<1> USE DEF IInv, Running, procVars
<1>3. TypeOK'
  BY <1>1, <1>2 DEF TypeOK
<1>4. /\ families'[p] = {Default} /\ lock'[p] = n
      /\ \A q \in Paths \ {p} : families'[q] = families[q] /\ lock'[q] = lock[q]
      /\ \A m \in Names \ {n} : db'[m] = db[m]
  BY <1>1, <1>2 DEF TypeOK
<1>5. EndedClean'
  BY <1>1, <1>2 DEF EndedClean
<1>6. OpenSteps'
  <2>1. Created(n)' = {Default} /\ n' = n
    BY <1>2 DEF Created
  <2>2. Len(cf_names(n)) \in Nat \ {0}
    BY <1>1, SameFamilies DEF TypeOK
  <2> QED
    BY <1>1, <1>2, <1>4, <2>1, <2>2, SameConfig DEF OpenSteps
<1>7. LocksAreHeld'
  <2>1. SUFFICES ASSUME NEW q \in Paths, lock'[q] # Nothing
                 PROVE  /\ q \in dirs
                        /\ path[lock'[q]] = q
                        /\ is_open[lock'[q]] \/ n = lock'[q]
    BY <1>2 DEF LocksAreHeld
  <2> QED
    BY <1>1, <1>4, <2>1 DEF LocksAreHeld
<1>8. OpenHasAll'
  <2>1. ASSUME NEW m \in Names, is_open[m]
        PROVE  m # n /\ path[m] \in Paths \ {p}
    BY <1>1, <2>1, DatabaseAssumption DEF OpenHasAll
  <2> QED
    BY <1>2, <1>4, <2>1, SameConfig DEF OpenHasAll
<1> QED
  BY <1>3, <1>5, <1>6, <1>7, <1>8

\* So does CreateColumnFamily, for one family after the other.
LEMMA CreateFamilyIInv ==
  ASSUME IInv, CreateFamily
  PROVE  IInv'
<1> DEFINE n == req.dbname
           p == path[n]
           f == cf_names(n)[next]
<1>1. /\ Running /\ pc = "create" /\ n \in Names /\ p \in Paths
      /\ n # Nothing /\ ~is_open[n] /\ is_cf(n) /\ lock[p] = n
      /\ next \in 1..Len(cf_names(n)) /\ families[p] = Created(n)
      /\ cf_names(n) \in Seq(Families)
  BY DatabaseAssumption, SameFamilies DEF CreateFamily, IInv, TypeOK, OpenSteps
<1>2. CASE f # Default /\ f \in families[p] /\ Die /\ UNCHANGED <<families, next>>
  <2>1. /\ UNCHANGED <<confVars, diskVars, next, column_family, starts>>
        /\ crashes' \in Nat
    BY <1>2 DEF CreateFamily, diskVars, IInv, TypeOK
  <2> QED
    BY <1>2, <2>1, DieAlone
<1>3. CASE /\ families' = [families EXCEPT ![p] = @ \cup {f}]
           /\ next' = next + 1
           /\ UNCHANGED <<lock, pc, req, reply, proc>>
  <2> USE DEF IInv, Running, confVars
  <2>1. /\ f \in Families
        /\ UNCHANGED <<confVars, dirs, data, column_family, crashes, starts>>
    BY <1>1, ElementOfSeq DEF CreateFamily
  <2>2. TypeOK'
    BY <1>1, <1>3, <2>1 DEF TypeOK
  <2>3. /\ families'[p] = families[p] \cup {f}
        /\ \A q \in Paths \ {p} : families'[q] = families[q]
    BY <1>1, <1>3 DEF TypeOK
  <2>4. OpenSteps'
    <3>1. \A x : (x \in {cf_names(n)[i] : i \in 1..((next + 1) - 1)})
                   <=> x \in {cf_names(n)[i] : i \in 1..(next - 1)} \cup {f}
      BY <1>1 DEF TypeOK
    <3>2. Created(n)' = {Default} \cup {cf_names(n)[i] : i \in 1..((next + 1) - 1)}
      BY <1>3, <2>1, SameConfig DEF Created
    <3>3. Created(n)' = families'[p]
      BY <1>1, <2>3, <3>1, <3>2 DEF Created
    <3> QED
      BY <1>1, <1>3, <2>1, <3>3, SameConfig DEF OpenSteps
  <2>5. EndedClean' /\ LocksAreHeld'
    BY <1>1, <1>3, <2>1 DEF EndedClean, LocksAreHeld
  <2>6. OpenHasAll'
    <3>1. ASSUME NEW m \in Names, is_open[m]
          PROVE  m # n /\ path[m] \in Paths \ {p}
      BY <1>1, <3>1, DatabaseAssumption DEF OpenHasAll
    <3> QED
      BY <1>1, <1>3, <2>1, <2>3, <3>1, SameConfig DEF OpenHasAll
  <2> QED
    BY <2>2, <2>4, <2>5, <2>6
<1> QED
  BY <1>2, <1>3 DEF CreateFamily

\* So does closing the database that was opened to create families.
LEMMA CloseBootstrapIInv ==
  ASSUME IInv, CloseBootstrap
  PROVE  IInv'
<1> DEFINE n == req.dbname
           p == path[n]
<1>1. /\ Running /\ pc = "create" /\ n \in Names /\ p \in Paths
      /\ n # Nothing /\ ~is_open[n] /\ is_cf(n) /\ lock[p] = n
  BY DatabaseAssumption DEF CloseBootstrap, IInv, TypeOK, OpenSteps
<1>2. /\ db' = [db EXCEPT ![n] = "deleted"]
      /\ lock' = [lock EXCEPT ![p] = Nothing]
      /\ pc' = "openAll"
      /\ UNCHANGED <<is_open, handles, diskVars, req, next, reply, procVars>>
  BY DEF CloseBootstrap
<1> USE DEF IInv, Running, diskVars, procVars
<1>3. TypeOK'
  BY <1>1, <1>2 DEF TypeOK
<1>4. /\ lock'[p] = Nothing
      /\ \A q \in Paths \ {p} : lock'[q] = lock[q]
      /\ \A m \in Names \ {n} : db'[m] = db[m]
  BY <1>1, <1>2 DEF TypeOK
<1>5. EndedClean' /\ OpenSteps'
  BY <1>1, <1>2, SameConfig DEF EndedClean, OpenSteps
<1>6. LocksAreHeld'
  <2>1. \A q \in Paths : lock[q] = n => q = p
    BY <1>1 DEF LocksAreHeld
  <2> QED
    BY <1>1, <1>2, <1>4, <2>1 DEF LocksAreHeld
<1>7. OpenHasAll'
  <2>1. ASSUME NEW m \in Names, is_open[m]
        PROVE  m # n /\ path[m] \in Paths \ {p}
    BY <1>1, <2>1, DatabaseAssumption DEF OpenHasAll
  <2> QED
    BY <1>1, <1>2, <1>4, <2>1, SameConfig DEF OpenHasAll
<1> QED
  BY <1>3, <1>5, <1>6, <1>7

\* So does opening with all families.
LEMMA OpenAllIInv ==
  ASSUME IInv, OpenAll
  PROVE  IInv'
<1> DEFINE n == req.dbname
           p == path[n]
           cfs == column_families(n)
<1>1. /\ Running /\ pc = "openAll" /\ n \in Names /\ p \in Paths
      /\ ~is_open[n] /\ is_cf(n)
      /\ dirs' = dirs \cup {p} /\ UNCHANGED <<data, next, procVars>>
  BY DatabaseAssumption DEF OpenAll, IInv, TypeOK, OpenSteps
<1>2. cfs = cf_names(n) /\ cfs \in Seq(Families)
  BY <1>1, SameFamilies DEF IInv, TypeOK
<1>3. CASE /\ lock[p] = Nothing /\ families[p] = {cfs[i] : i \in 1..Len(cfs)}
           /\ Opened(n, families[p], cfs)
  <2>1. families[p] = CfSet(n) /\ families[p] \in SUBSET Families
    BY <1>1, <1>2, <1>3 DEF CfSet, IInv, TypeOK
  <2> HIDE DEF cfs
  <2> QED
    BY <1>1, <1>2, <1>3, <2>1, OpenedIInv
<1>4. CASE NotOpened(n, << >>)
  <2>1. << >> \in Seq(Families)
    OBVIOUS
  <2> QED
    BY <1>1, <1>4, <2>1, NotOpenedIInv
<1> QED
  BY <1>3, <1>4 DEF OpenAll

\* The handle that get_handle finds is the one of the name it looked for.
LEMMA FoundHandle ==
  ASSUME IInv, Running, NEW n \in Names, is_open[n], NEW f
  PROVE  /\ get_handle(n, f) \in {f, NoHandle}
         /\ get_handle(n, f) # NoHandle => f \in Families
         /\ is_cf(n) /\ f \in families[path[n]] => get_handle(n, f) = f
<1> DEFINE at == {i \in 1..Len(cf_names(n)) : cf_names(n)[i] = f}
<1>1. cf_names(n) \in Seq(Families)
  BY SameFamilies DEF IInv, TypeOK
<1>2. CASE at = {}
  <2>1. get_handle(n, f) = NoHandle
    BY <1>2 DEF get_handle
  <2>2. f \notin CfSet(n)
    BY <1>2 DEF CfSet
  <2> QED
    BY <2>1, <2>2 DEF IInv, OpenHasAll
<1>3. CASE at # {}
  <2>1. at \subseteq Nat
    OBVIOUS
  <2>2. \E i \in at : \A j \in at : i <= j
    BY <1>3, <2>1, LeastOf
  <2> DEFINE i == CHOOSE i \in at : \A j \in at : i <= j
  <2>3. i \in at
    BY <2>2
  <2>4. get_handle(n, f) = handles[n][i]
    BY <1>3 DEF get_handle
  <2> HIDE DEF i
  <2>5. cf_names(n)[i] = f /\ f \in Families
    BY <1>1, <2>3, ElementOfSeq
  <2>6. is_cf(n)
    BY <1>1, <2>3 DEF is_cf
  <2>7. handles[n] = cf_names(n)
    BY <2>6 DEF IInv, OpenHasAll
  <2> QED
    BY <2>4, <2>5, <2>7
<1> QED
  BY <1>2, <1>3

\* Where it is served, the request has the members that its operation converts.
LEMMA ServedArguments ==
  ASSUME IInv, Running, pc = "op", ~Throws
  PROVE  /\ req \in Request /\ req.dbname \in Names
         /\ is_open[req.dbname] /\ db[req.dbname] = "live"
         /\ req.op \in {"put", "put_cf", "get", "get_cf"} => req.key \in Keys
         /\ req.op \in {"put", "put_cf"} => req.value \in Values
         /\ req.op \in {"put_cf", "get_cf"} => req.column \in Families
         /\ DOMAIN req.items \subseteq Keys
         /\ req.op = "write_batch" => \A k \in DOMAIN req.items : req.items[k] \in Values
<1>1. /\ req \in Requests /\ req \in Request /\ req.dbname \in Names
      /\ is_open[req.dbname]
  BY DatabaseAssumption DEF IInv, TypeOK, OpenSteps
<1>2. db[req.dbname] = "live"
  BY <1>1 DEF IInv, OpenHasAll
<1>3. Bad \notin Arguments
  BY <1>2 DEF Throws
<1>4. /\ req.key \in Keys \cup {Bad} /\ req.value \in Values \cup {Bad}
      /\ req.column \in Families \cup {Bad}
  BY <1>1 DEF Request
<1>5. PICK K \in SUBSET Keys : req.items \in [K -> Values \cup {Bad}]
  BY <1>1 DEF Request
<1>6. DOMAIN req.items = K
  BY <1>5
<1>7. req.op = "write_batch" => \A k \in DOMAIN req.items : req.items[k] # Bad
  BY <1>3 DEF Arguments
<1>8. req.op \in {"put", "put_cf", "get", "get_cf"} => req.key # Bad
  BY <1>3 DEF Arguments
<1>9. req.op \in {"put", "put_cf"} => req.value # Bad
  BY <1>3 DEF Arguments
<1>10. req.op \in {"put_cf", "get_cf"} => req.column # Bad
  BY <1>3 DEF Arguments
<1> QED
  BY <1>1, <1>2, <1>4, <1>5, <1>6, <1>7, <1>8, <1>9, <1>10

\* What serving a request amounts to: a refusal, a write or a read, of the
\* family that the request names.
PlaceOf(r) == IF r.op \in {"put_cf", "get_cf"} THEN r.column ELSE Default
ItemsOf(r) == IF r.op = "write_batch" THEN r.items ELSE [k \in {r.key} |-> r.value]

\* An operation that does not throw is refused, writes or reads.
LEMMA ServeCases ==
  ASSUME IInv, Running, pc = "op", ~Throws, Serve(req.dbname)
  PROVE  \/ Return(7, Nothing) /\ UNCHANGED data
         \/ /\ req.op \in {"put", "put_cf", "write_batch"}
            /\ PlaceOf(req) \in Families
            /\ Write(req.dbname, PlaceOf(req), ItemsOf(req))
         \/ /\ req.op \in {"get", "get_cf"}
            /\ PlaceOf(req) \in Families
            /\ Get(req.dbname, PlaceOf(req), req.key)
<1> DEFINE n == req.dbname
<1>1. n \in Names /\ is_open[n] /\ db[n] = "live"
  BY ServedArguments
<1>2. ASSUME Handle(n) # NoHandle
      PROVE  Handle(n) = PlaceOf(req) /\ PlaceOf(req) \in Families
  BY <1>1, <1>2, FoundHandle, DatabaseAssumption DEF Handle, PlaceOf
<1>3. CASE Return(IF req.op # "other" /\ db[n] = "null" THEN -1 ELSE 7, Nothing) /\ UNCHANGED data
  BY <1>1, <1>3
<1>4. CASE /\ Handle(n) # NoHandle
           /\ \/ req.op \in {"put", "put_cf"} /\ Write(n, Handle(n), Put)
              \/ req.op = "write_batch" /\ Write(n, Handle(n), req.items)
              \/ req.op \in {"get", "get_cf"} /\ Get(n, Handle(n), req.key)
  BY <1>2, <1>4 DEF ItemsOf, Put
<1> QED
  BY <1>3, <1>4 DEF Serve

\* So does the operation that the request asked for.
LEMMA ExecIInv ==
  ASSUME IInv, exec_op
  PROVE  IInv'
<1> DEFINE n == req.dbname
           D == [Paths -> [Families -> [Keys -> Values \cup {NotFound}]]]
<1>1. /\ Running /\ pc = "op"
      /\ UNCHANGED <<confVars, dirs, families, next, column_family, crashes, starts>>
      /\ data \in D
  BY DEF exec_op, IInv, TypeOK
<1>2. CASE Throws /\ Die /\ UNCHANGED data
  <2>1. crashes' \in Nat /\ UNCHANGED diskVars
    BY <1>1, <1>2 DEF diskVars, IInv, TypeOK
  <2> QED
    BY <1>1, <1>2, <2>1, DieAlone
<1>3. CASE ~Throws /\ Serve(n) /\ UNCHANGED <<proc, lock>>
  <2>1. /\ n \in Names /\ path[n] \in Paths
        /\ PlaceOf(req) \in Families => data[path[n]][PlaceOf(req)] \in [Keys -> Values \cup {NotFound}]
    BY <1>1, <1>3, ServedArguments, DatabaseAssumption
  <2>2. ASSUME NEW e \in {-2, -1, 0, 1, 3, 4, 6, 7}, NEW v \in Values \cup {Nothing},
               Return(e, v), data' \in D
        PROVE  IInv'
    BY <1>1, <1>3, <2>2, ReturnAlone DEF procVars
  <2>3. CASE Return(7, Nothing) /\ UNCHANGED data
    BY <1>1, <2>2, <2>3
  <2>4. CASE /\ req.op \in {"put", "put_cf", "write_batch"}
             /\ PlaceOf(req) \in Families
             /\ Write(n, PlaceOf(req), ItemsOf(req))
    <3> DEFINE F == [k \in Keys |-> IF k \in DOMAIN ItemsOf(req) THEN ItemsOf(req)[k]
                                    ELSE data[path[n]][PlaceOf(req)][k]]
    <3>1. \A k \in DOMAIN ItemsOf(req) : ItemsOf(req)[k] \in Values
      BY <1>1, <1>3, <2>4, ServedArguments DEF ItemsOf
    <3>2. F \in [Keys -> Values \cup {NotFound}]
      BY <2>1, <2>4, <3>1
    <3>3. CASE data' = [data EXCEPT ![path[n]][PlaceOf(req)] = F] /\ Return(0, Nothing)
      <4> HIDE DEF F
      <4>1. data' \in D
        BY <1>1, <2>1, <2>4, <3>2, <3>3
      <4> QED
        BY <2>2, <3>3, <4>1
    <3>4. CASE Return(-2, Nothing) /\ UNCHANGED data
      BY <1>1, <2>2, <3>4
    <3> QED
      BY <2>4, <3>3, <3>4 DEF Write
  <2>5. CASE /\ req.op \in {"get", "get_cf"}
             /\ PlaceOf(req) \in Families
             /\ Get(n, PlaceOf(req), req.key)
    <3>1. data[path[n]][PlaceOf(req)][req.key] \in Values \cup {NotFound}
      BY <1>1, <1>3, <2>1, <2>5, ServedArguments
    <3>2. \E e \in {-2, 0}, v \in Values \cup {Nothing} : Return(e, v) /\ UNCHANGED data
      BY <2>5, <3>1 DEF Get
    <3> QED
      BY <1>1, <2>2, <3>2
  <2> QED
    BY <1>1, <1>3, <2>3, <2>4, <2>5, ServeCases
<1> QED
  BY <1>2, <1>3 DEF exec_op

\* So does the signal handler, which closes the databases.
LEMMA SignalIInv ==
  ASSUME IInv, SignalHandler
  PROVE  IInv'
<1>1. /\ Running /\ pc = "idle"
      /\ UNCHANGED <<handles, diskVars, next, column_family, crashes, starts>>
  BY DEF SignalHandler
<1>2. CASE Die /\ UNCHANGED <<is_open, db>>
  <2>1. crashes' \in Nat /\ UNCHANGED confVars
    BY <1>1, <1>2 DEF confVars, IInv, TypeOK
  <2> QED
    BY <1>1, <1>2, <2>1, DieAlone
<1>3. CASE /\ is_open' = [n \in Names |-> FALSE]
           /\ db' = [n \in Names |-> "deleted"]
           /\ proc' = "stopped"
           /\ lock' = Unlocked
           /\ UNCHANGED <<pc, req, reply>>
  <2>1. TypeOK'
    BY <1>1, <1>3 DEF IInv, TypeOK, Unlocked, diskVars
  <2>2. EndedClean' /\ OpenSteps' /\ LocksAreHeld' /\ OpenHasAll'
    BY <1>1, <1>3 DEF EndedClean, OpenSteps, LocksAreHeld, OpenHasAll, Running, Unlocked
  <2> QED
    BY <2>1, <2>2 DEF IInv
<1> QED
  BY <1>2, <1>3 DEF SignalHandler

\* So does being killed.
LEMMA CrashIInv ==
  ASSUME IInv, Crash
  PROVE  IInv'
BY DieAlone DEF Crash, IInv, TypeOK

\* So does a start with another configuration.
LEMMA RestartIInv ==
  ASSUME IInv, Restart
  PROVE  IInv'
<1> USE DEF IInv, Restart, Running
<1>1. pc = "idle" /\ lock = Unlocked
  BY DEF EndedClean
<1>2. TypeOK'
  <2>1. \A n \in Names : column_family'[n] \in FamilyLists[n]
    BY DEF Configurations
  <2>2. handles' \in [Names -> Seq(Families)]
    OBVIOUS
  <2> QED
    BY <2>1, <2>2 DEF TypeOK, diskVars
<1>3. EndedClean' /\ OpenSteps' /\ LocksAreHeld' /\ OpenHasAll'
  BY <1>1 DEF EndedClean, OpenSteps, LocksAreHeld, OpenHasAll, Unlocked
<1> QED
  BY <1>2, <1>3

\* Every step keeps it.
LEMMA NextIInv == IInv /\ [Next]_vars => IInv'
<1> SUFFICES ASSUME IInv, [Next]_vars
             PROVE  IInv'
  OBVIOUS
<1>1. CASE UNCHANGED vars
  <2> USE <1>1 DEF IInv, vars, confVars, diskVars, callVars, procVars, Running
  <2>1. TypeOK'
    BY DEF TypeOK
  <2>2. EndedClean' /\ OpenSteps' /\ LocksAreHeld' /\ OpenHasAll'
    BY SameConfig DEF EndedClean, OpenSteps, LocksAreHeld, OpenHasAll
  <2> QED
    BY <2>1, <2>2
<1>2. CASE Next
  BY <1>2, ReceiveIInv, FindIInv, OpenIInv, BootstrapIInv, CreateFamilyIInv,
     CloseBootstrapIInv, OpenAllIInv, ExecIInv, SignalIInv, CrashIInv, RestartIInv
     DEF Next
<1> QED
  BY <1>1, <1>2

\* IInv holds in every state that is reached.
LEMMA Invariant == Spec => []IInv
<1> QED
  BY InitIInv, NextIInv, PTL DEF Spec

\* Every variable keeps its type, a request is there exactly while it is served,
\* and every answer is one that exec_json can give (server.cc:305-366).
THEOREM TypeCorrect == Spec => []TypeOK
<1>1. IInv => TypeOK
  BY DEF IInv
<1> QED
  BY <1>1, Invariant, PTL

\* What the operations use while is_open holds is open, locked for its config,
\* and each handle is the one of the family that get_handle was asked for,
\* whatever the file says, however often it is edited, the process killed and
\* started (server.cc:54-107, 109-226).
THEOREM OpenIsSafe == Spec => []OpenIsUsable
<1>1. IInv => OpenIsUsable
  <2> SUFFICES ASSUME IInv, NEW n \in Names, Running, is_open[n]
               PROVE  /\ db[n] = "live"
                      /\ lock[path[n]] = n
                      /\ \A f \in Families : get_handle(n, f) \in {f, NoHandle}
                      /\ \A f \in families[path[n]] : is_cf(n) => get_handle(n, f) = f
    BY DEF OpenIsUsable
  <2> QED
    BY FoundHandle DEF IInv, OpenHasAll
<1> QED
  BY <1>1, Invariant, PTL

-----------------------------------------------------------------------------
(* The families that open() makes.                                         *)

\* No name is created twice.
LEMMA CreatedOnce ==
  ASSUME NamedOnce, IInv, CreateFamily
  PROVE  proc' # "crashed"
<1> DEFINE n == req.dbname
           f == cf_names(n)[next]
<1>1. /\ Running /\ n \in Names /\ is_cf(n)
      /\ next \in 1..Len(cf_names(n)) /\ families[path[n]] = Created(n)
      /\ next \in Nat
  BY DEF CreateFamily, IInv, TypeOK, OpenSteps
<1>2. \A i, j \in 1..Len(cf_names(n)) : cf_names(n)[i] = cf_names(n)[j] => i = j
  BY <1>1, SameFamilies DEF IInv, TypeOK
<1>3. SUFFICES ASSUME f # Default, f \in families[path[n]]
               PROVE  FALSE
  BY <1>1 DEF CreateFamily, Running
<1>4. PICK i \in 1..(next - 1) : cf_names(n)[i] = f
  BY <1>1, <1>3 DEF Created
<1>5. i \in 1..Len(cf_names(n)) /\ i # next
  BY <1>1, <1>4
<1> QED
  BY <1>1, <1>2, <1>4, <1>5

\* CreateColumnFamily is not called for a family that exists, so the assertion
\* after it holds, if no member "column_family" has a name twice but for the
\* default one (server.cc:75-83).
THEOREM NeverAsserts ==
  ASSUME NamedOnce
  PROVE  Spec => AssertionHolds
<1>1. IInv /\ [Next]_vars => [CreateFamily => proc' # "crashed"]_vars
  BY CreatedOnce
<1> QED
  BY <1>1, Invariant, PTL DEF Spec, AssertionHolds

\* The configs that a database can be opened by do not share its path.
LEMMA OwnLock ==
  ASSUME KeptConfig, IInv, NEW n \in Names, ~is_open[n],
         ~(pc = "create" /\ req.dbname = n)
  PROVE  lock[path[n]] = Nothing
<1>1. path[n] \in Paths /\ lock[path[n]] \in Names \cup {Nothing}
  BY DatabaseAssumption DEF IInv, TypeOK
<1>2. SUFFICES ASSUME lock[path[n]] # Nothing
               PROVE  FALSE
  OBVIOUS
<1>3. lock[path[n]] = n
  BY <1>1, <1>2 DEF KeptConfig, IInv, LocksAreHeld
<1> QED
  BY <1>1, <1>2, <1>3 DEF IInv, LocksAreHeld

\* What is wanted does not depend on when the file was read.
LEMMA WantedStays ==
  ASSUME KeptConfig, IInv, IInv'
  PROVE  \A n \in Names : Wanted(n)' = Wanted(n)
<1> SUFFICES ASSUME NEW n \in Names
             PROVE  Wanted(n)' = Wanted(n)
  OBVIOUS
<1>1. column_family[n] \in FamilyLists[n] /\ column_family'[n] \in FamilyLists[n]
  BY DEF IInv, TypeOK
<1>2. CASE FamilyLists[n] = {NoFamilies}
  BY <1>1, <1>2 DEF Wanted
<1>3. CASE /\ NoFamilies \notin FamilyLists[n]
           /\ \A s, t \in FamilyLists[n] : Listed(s) = Listed(t)
  BY <1>1, <1>3 DEF Wanted
<1> QED
  BY <1>2, <1>3 DEF KeptConfig

\* Steps that have nothing to do with the families on disk.
LEMMA MadeBefore ==
  ASSUME KeptConfig, IInv, IInv', MadeAsWanted, crashes = 0,
         UNCHANGED <<families, dirs>>,
         {pc, pc'} \cap {"bootstrap", "create"} = {}
  PROVE  MadeAsWanted'
BY WantedStays DEF MadeAsWanted

\* Steps of open() that change the families of its own path at most.
LEMMA MadeByOne ==
  ASSUME KeptConfig, IInv, IInv', MadeAsWanted, crashes = 0,
         NEW n \in Names, req.dbname = n, req'.dbname = n \/ pc' \notin {"bootstrap", "create"},
         \A p \in Paths \ {path[n]} : families'[p] = families[p],
         dirs' = dirs \cup {path[n]},
         families'[path[n]] = IF pc' = "bootstrap" THEN {}
                              ELSE IF pc' = "create" THEN Created(n)'
                              ELSE Wanted(n)
  PROVE  MadeAsWanted'
<1> SUFFICES ASSUME NEW m \in Names
             PROVE  families'[path[m]] =
                      IF path[m] \notin dirs' \/ (pc' = "bootstrap" /\ req'.dbname = m) THEN {}
                      ELSE IF pc' = "create" /\ req'.dbname = m THEN Created(m)'
                      ELSE Wanted(m)'
  BY DEF MadeAsWanted
<1>1. CASE m = n
  BY <1>1, WantedStays
<1>2. CASE m # n
  <2>1. path[m] \in Paths \ {path[n]}
    BY <1>2, DatabaseAssumption DEF KeptConfig
  <2>2. families[path[m]] = IF path[m] \notin dirs THEN {} ELSE Wanted(m)
    BY <1>2 DEF MadeAsWanted
  <2> QED
    BY <1>2, <2>1, <2>2, WantedStays
<1> QED
  BY <1>1, <1>2

\* The first open leaves the directory as the configuration wants it, or creates it.
LEMMA OpenMakes ==
  ASSUME KeptConfig, IInv, IInv', MadeAsWanted, OpensUnlessKilled, crashes = 0, open
  PROVE  MadeAsWanted' /\ OpensUnlessKilled'
<1> DEFINE n == req.dbname
           p == path[n]
<1>1. /\ Running /\ pc = "open" /\ n \in Names /\ p \in Paths
      /\ UNCHANGED <<next, procVars>>
      /\ families[p] = IF p \notin dirs THEN {} ELSE Wanted(n)
  BY DatabaseAssumption DEF open, IInv, TypeOK, MadeAsWanted
<1>2. CASE /\ is_open[n]
           /\ pc' = "op"
           /\ UNCHANGED <<confVars, diskVars, lock, req, reply>>
  <2>1. MadeAsWanted'
    BY <1>1, <1>2, MadeBefore DEF diskVars
  <2>2. OpensUnlessKilled'
    BY <1>1, <1>2 DEF OpensUnlessKilled, AlwaysOpens, procVars
  <2> QED
    BY <2>1, <2>2
<1>3. CASE ~is_open[n] /\ ~is_cf(n) /\ OpenPlain(n) /\ UNCHANGED data
  <2>1. column_family[n] = NoFamilies /\ Wanted(n) = {Default}
    BY <1>1, <1>3, SameFamilies DEF IInv, TypeOK, Wanted
  <2>2. n \in CreateMissing
    BY <1>1, <2>1 DEF KeptConfig, IInv, TypeOK
  <2>3. lock[p] = Nothing
    BY <1>1, <1>3, OwnLock
  <2>4. Opened(n, {Default}, handles[n]) /\ dirs' = dirs \cup {p}
    BY <1>1, <1>3, <2>1, <2>2, <2>3 DEF OpenPlain
  <2>5. /\ families'[p] = Wanted(n)
        /\ \A q \in Paths \ {p} : families'[q] = families[q]
        /\ pc' = "op" /\ UNCHANGED reply
    BY <1>1, <2>1, <2>4 DEF Opened, IInv, TypeOK
  <2>6. MadeAsWanted'
    BY <1>1, <2>4, <2>5, MadeByOne
  <2> QED
    BY <1>1, <2>5, <2>6 DEF OpensUnlessKilled, AlwaysOpens, procVars
<1>4. CASE /\ ~is_open[n] /\ is_cf(n)
           /\ pc' = IF p \in dirs THEN "openAll" ELSE "bootstrap"
           /\ dirs' = dirs \cup {p}
           /\ UNCHANGED <<confVars, families, data, lock, req, reply>>
  <2>1. MadeAsWanted'
    BY <1>1, <1>4, MadeByOne
  <2> QED
    BY <1>1, <1>4, <2>1 DEF OpensUnlessKilled, AlwaysOpens, procVars
<1> QED
  BY <1>2, <1>3, <1>4 DEF open

\* The steps that create families go on towards the wanted ones.
LEMMA CreationMakes ==
  ASSUME KeptConfig, IInv, IInv', MadeAsWanted, OpensUnlessKilled, crashes = 0,
         Bootstrap \/ CreateFamily \/ CloseBootstrap
  PROVE  MadeAsWanted' /\ OpensUnlessKilled'
<1> DEFINE n == req.dbname
           p == path[n]
<1>1. /\ Running /\ pc \in {"bootstrap", "create"} /\ n \in Names /\ p \in Paths
      /\ dirs' = dirs /\ dirs' = dirs \cup {p}
      /\ is_cf(n)
  BY DatabaseAssumption
     DEF Bootstrap, CreateFamily, CloseBootstrap, IInv, TypeOK, OpenSteps, diskVars
<1>2. NamedOnce
  BY DEF KeptConfig
<1>3. UNCHANGED <<reply, crashes>> /\ UNCHANGED req
  BY <1>2, CreatedOnce DEF Bootstrap, CreateFamily, CloseBootstrap, Die, procVars
<1>4. OpensUnlessKilled'
  BY <1>3 DEF OpensUnlessKilled, AlwaysOpens
<1>5. \A q \in Paths \ {p} : families'[q] = families[q]
  BY <1>1, <1>2, CreatedOnce
     DEF Bootstrap, CreateFamily, CloseBootstrap, Die, IInv, TypeOK, diskVars
<1>6. CASE Bootstrap \/ CreateFamily
  <2>1. pc' = "create"
    BY <1>2, <1>6, CreatedOnce DEF Bootstrap, CreateFamily, Die
  <2>2. families'[p] = Created(n)'
    BY <1>3, <2>1 DEF IInv, OpenSteps
  <2> QED
    BY <1>1, <1>3, <1>4, <1>5, <2>1, <2>2, MadeByOne
<1>7. CASE CloseBootstrap
  <2>1. /\ pc' = "openAll" /\ families' = families
        /\ pc = "create" /\ next > Len(cf_names(n)) /\ next \in Nat
        /\ next \in 1..(Len(cf_names(n)) + 1)
        /\ families[p] = Created(n)
    BY <1>7 DEF CloseBootstrap, diskVars, IInv, OpenSteps, TypeOK
  <2>2. /\ Len(cf_names(n)) \in Nat
        /\ CfSet(n) = Listed(column_family[n])
        /\ column_family[n] # NoFamilies
    BY <1>1, SameFamilies DEF IInv, TypeOK, CfSet
  <2>3. next - 1 = Len(cf_names(n))
    BY <2>1, <2>2
  <2>4. Created(n) = {Default} \cup CfSet(n)
    BY <2>3 DEF Created, CfSet
  <2>5. families'[p] = Wanted(n)
    BY <2>1, <2>2, <2>4 DEF Wanted, Listed
  <2> QED
    BY <1>1, <1>3, <1>4, <1>5, <2>1, <2>5, MadeByOne
<1> QED
  BY <1>6, <1>7

\* With all families there, the database opens.
LEMMA OpenAllMakes ==
  ASSUME KeptConfig, IInv, IInv', MadeAsWanted, OpensUnlessKilled, crashes = 0, OpenAll
  PROVE  MadeAsWanted' /\ OpensUnlessKilled'
<1> DEFINE n == req.dbname
           p == path[n]
           cfs == column_families(n)
<1>1. /\ Running /\ pc = "openAll" /\ n \in Names /\ p \in Paths
      /\ ~is_open[n] /\ is_cf(n) /\ p \in dirs
      /\ UNCHANGED <<dirs, data, next, procVars>>
  BY DatabaseAssumption DEF OpenAll, IInv, TypeOK, OpenSteps
<1>2. cfs = cf_names(n) /\ CfSet(n) = Listed(column_family[n]) /\ column_family[n] # NoFamilies
  BY <1>1, SameFamilies DEF IInv, TypeOK, CfSet
<1>3. families[p] = CfSet(n)
  BY <1>1, <1>2 DEF MadeAsWanted, Wanted
<1>4. lock[p] = Nothing
  BY <1>1, OwnLock
<1>5. families[p] = {cfs[i] : i \in 1..Len(cfs)}
  BY <1>2, <1>3 DEF CfSet
<1>6. Opened(n, families[p], cfs)
  BY <1>4, <1>5 DEF OpenAll
<1>7. families' = families /\ pc' = "op" /\ UNCHANGED reply
  BY <1>1, <1>6 DEF Opened, IInv, TypeOK
<1>8. MadeAsWanted'
  BY <1>1, <1>7, MadeBefore
<1> QED
  BY <1>1, <1>7, <1>8 DEF OpensUnlessKilled, AlwaysOpens, procVars

\* The steps outside of open() give other answers than 4.
LEMMA OthersAnswer ==
  ASSUME IInv, OpensUnlessKilled, crashes = 0,
         \/ \E r \in Requests : Receive(r)
         \/ Find \/ exec_op \/ SignalHandler \/ Restart
  PROVE  OpensUnlessKilled' /\ UNCHANGED <<families, dirs>> /\ crashes' = crashes
<1> SUFFICES /\ reply' \in {Nothing, reply} \/ reply'.error # 4
             /\ UNCHANGED <<families, dirs, crashes>>
  BY DEF OpensUnlessKilled, AlwaysOpens
<1>1. CASE \E r \in Requests : Receive(r)
  BY <1>1 DEF Receive, diskVars, procVars
<1>2. CASE Find
  BY <1>2 DEF Find, Die, Return, diskVars
<1>3. CASE exec_op
  <2>1. Running /\ pc = "op" /\ UNCHANGED <<families, dirs, crashes>>
    BY <1>3 DEF exec_op
  <2>2. CASE Die
    BY <2>1, <2>2 DEF Die
  <2>3. CASE ~Throws /\ Serve(req.dbname)
    BY <2>1, <2>3, ServeCases DEF Return, Write, Get
  <2> QED
    BY <1>3, <2>2, <2>3 DEF exec_op
<1>4. CASE SignalHandler
  BY <1>4 DEF SignalHandler, Die, diskVars
<1>5. CASE Restart
  BY <1>5 DEF Restart, diskVars
<1> QED
  BY <1>1, <1>2, <1>3, <1>4, <1>5

\* While the process is not killed, open() does not fail, whichever order the
\* file names the families in, and however often signals and requests that
\* asString throws on end the process: neither can come in the middle of open().
\* The config file has to be KeptConfig (server.cc:54-107).
THEOREM OpensTheorem ==
  ASSUME KeptConfig
  PROVE  Spec => []OpensUnlessKilled
<1>1. Init => MadeAsWanted /\ OpensUnlessKilled
  BY DatabaseAssumption DEF Init, MadeAsWanted, OpensUnlessKilled, AlwaysOpens
<1>2. ASSUME IInv, IInv', MadeAsWanted, OpensUnlessKilled, [Next]_vars
      PROVE  MadeAsWanted' /\ OpensUnlessKilled'
  <2>1. CASE crashes # 0
    <3>1. crashes' # 0
      BY <1>2, <2>1
         DEF vars, procVars, Next, Receive, Find, open, Bootstrap, CreateFamily,
             CloseBootstrap, OpenAll, exec_op, SignalHandler, Crash, Restart, IInv, TypeOK
    <3> QED
      BY <3>1 DEF MadeAsWanted, OpensUnlessKilled
  <2>2. CASE crashes = 0 /\ UNCHANGED vars
    <3>1. \A n : Created(n)' = Created(n) /\ Wanted(n)' = Wanted(n)
      BY <2>2, SameConfig DEF vars, callVars, procVars, Wanted
    <3> QED
      BY <1>2, <2>2, <3>1
         DEF vars, diskVars, callVars, procVars, MadeAsWanted, OpensUnlessKilled, AlwaysOpens
  <2>3. CASE /\ crashes = 0
             /\ \/ \E r \in Requests : Receive(r)
                \/ Find \/ exec_op \/ SignalHandler \/ Restart
    <3>1. {pc, pc'} \cap {"bootstrap", "create"} = {}
      BY <1>2, <2>3
         DEF Receive, Find, exec_op, Serve, Write, Get, SignalHandler, Restart, Die, Return,
             IInv, EndedClean
    <3> QED
      BY <1>2, <2>3, <3>1, OthersAnswer, MadeBefore
  <2>4. CASE crashes = 0 /\ Crash
    <3>1. crashes' # 0
      BY <2>4 DEF Crash
    <3> QED
      BY <3>1 DEF MadeAsWanted, OpensUnlessKilled
  <2> QED
    BY <1>2, <2>1, <2>2, <2>3, <2>4, OpenMakes, CreationMakes, OpenAllMakes DEF Next
<1> QED
  BY <1>1, <1>2, Invariant, PTL DEF Spec

-----------------------------------------------------------------------------
(* Database implements KvStore: the data, the request and the reply are    *)
(* its variables; opening, creating families and restarting are stutters.  *)

\* A step that is not seen, one with which the request is lost, and a refusal.
LEMMA UnseenStep ==
  ASSUME UNCHANGED <<data, req, reply>>
  PROVE  UNCHANGED Abstract!kvVars
BY DEF Abstract!kvVars

\* A request that is lost is one in the abstract store too.
LEMMA LostStep ==
  ASSUME req' = Nothing, reply' = Nothing, data' = data
  PROVE  Abstract!KvNext
BY DEF Abstract!KvNext, Abstract!Lose

\* A refusal of exec_json is one of the abstract store.
LEMMA RefusedStep ==
  ASSUME req \in Requests, NEW e \in {1, 3, 4, 6, 7}, Return(e, Nothing), data' = data
  PROVE  Abstract!Refuse
BY DEF Return, Abstract!Refuse, Abstract!Refusals, Abstract!Plain

\* A request for data that is served is WellFormed.
LEMMA ServedWellFormed ==
  ASSUME IInv, Running, pc = "op", ~Throws,
         req.op \in {"put", "put_cf", "get", "get_cf", "write_batch"}
  PROVE  /\ req \in WellFormed
         /\ KvPlace[req] = <<path[req.dbname], PlaceOf(req)>>
<1>1. req \in Requests
  BY DEF IInv, TypeOK
<1>2. req \in WellFormed
  BY <1>1, ServedArguments DEF WellFormed
<1> QED
  BY <1>2 DEF KvPlace, PlaceOf

\* DB::Put and DB::Write are the abstract write, or its refusal.
LEMMA WriteStep ==
  ASSUME IInv, Running, pc = "op", ~Throws,
         req.op \in {"put", "put_cf", "write_batch"}, PlaceOf(req) \in Families,
         Write(req.dbname, PlaceOf(req), ItemsOf(req))
  PROVE  Abstract!Write \/ Abstract!Refuse
<1> DEFINE p == path[req.dbname]
           f == PlaceOf(req)
<1>1. /\ req \in Requests /\ req \in WellFormed
      /\ KvPlace[req] = <<p, f>>
  BY ServedWellFormed DEF IInv, TypeOK
<1>2. req \in DOMAIN KvWrites /\ KvWrites[req] = ItemsOf(req)
  BY <1>1 DEF KvWrites, ItemsOf
<1>3. p \in Paths /\ DOMAIN data[p][f] = Keys
  BY ServedArguments, DatabaseAssumption DEF IInv, TypeOK
<1>4. CASE Return(-2, Nothing) /\ UNCHANGED data
  BY <1>1, <1>2, <1>4
     DEF Return, Abstract!Refuse, Abstract!Refusals, Abstract!Plain, Abstract!Writers
<1>5. CASE /\ data' = [data EXCEPT ![p][f] =
                         [k \in Keys |-> IF k \in DOMAIN ItemsOf(req) THEN ItemsOf(req)[k]
                                         ELSE @[k]]]
           /\ Return(0, Nothing)
  <2> DEFINE P == KvPlace[req]
             W == KvWrites[req]
  <2>1. data' = [data EXCEPT ![P[1]][P[2]] =
                   [k \in DOMAIN @ |-> IF k \in DOMAIN W THEN W[k] ELSE @[k]]]
    <3>1. P[1] = p /\ P[2] = f /\ W = ItemsOf(req)
      BY <1>1, <1>2
    <3>2. [k \in Keys |-> IF k \in DOMAIN ItemsOf(req) THEN ItemsOf(req)[k]
                          ELSE data[p][f][k]]
          = [k \in DOMAIN data[p][f] |->
               IF k \in DOMAIN W THEN W[k] ELSE data[p][f][k]]
      BY <1>3, <3>1
    <3> HIDE DEF p, f, P, W
    <3> QED
      BY <1>5, <3>1, <3>2
  <2> QED
    BY <1>2, <1>5, <2>1 DEF Return, Abstract!Write, Abstract!Plain, Abstract!Writers
<1> QED
  BY <1>4, <1>5 DEF Write

\* DB::Get is the abstract read.
LEMMA ReadStep ==
  ASSUME IInv, Running, pc = "op", ~Throws,
         req.op \in {"get", "get_cf"}, Get(req.dbname, PlaceOf(req), req.key)
  PROVE  Abstract!Read
<1>1. req \in WellFormed /\ KvPlace[req] = <<path[req.dbname], PlaceOf(req)>>
  BY ServedWellFormed
<1>2. req \in KvReads
  BY <1>1 DEF KvReads
<1> QED
  BY <1>1, <1>2 DEF Get, Return, Abstract!Read, Abstract!Plain

\* A step of exec_json ends with the process, or is not seen, or answers.
LEMMA ExecOutcome ==
  ASSUME IInv,
         Find \/ open \/ Bootstrap \/ CreateFamily \/ CloseBootstrap \/ OpenAll \/ exec_op
  PROVE  \/ Die /\ data' = data
         \/ UNCHANGED <<data, req, reply, proc>>
         \/ /\ UNCHANGED proc
            /\ Abstract!Write \/ Abstract!Read \/ Abstract!Refuse
<1>1. CASE Find
  <2>1. req \in Requests /\ data' = data
    BY <1>1 DEF Find, diskVars, IInv, TypeOK
  <2>2. ASSUME NEW e \in {1, 3, 6}, Return(e, Nothing)
        PROVE  Abstract!Refuse
    BY <2>1, <2>2, RefusedStep
  <2> QED
    BY <1>1, <2>1, <2>2 DEF Find
<1>2. CASE open \/ OpenAll
  <2>1. req \in Requests /\ data' = data /\ UNCHANGED proc
    BY <1>2 DEF open, OpenAll, diskVars, procVars, IInv, TypeOK
  <2>2. CASE Return(4, Nothing)
    BY <2>1, <2>2, RefusedStep
  <2> QED
    BY <1>2, <2>1, <2>2 DEF open, OpenPlain, OpenAll, Opened, NotOpened
<1>3. CASE Bootstrap \/ CreateFamily \/ CloseBootstrap
  BY <1>3 DEF Bootstrap, CreateFamily, CloseBootstrap, diskVars, procVars
<1>4. CASE exec_op
  <2>1. Running /\ pc = "op" /\ req \in Requests
    BY <1>4 DEF exec_op, IInv, TypeOK
  <2>2. CASE ~Throws /\ Serve(req.dbname) /\ UNCHANGED <<proc, lock>>
    BY <2>1, <2>2, ServeCases, RefusedStep, WriteStep, ReadStep
  <2> QED
    BY <1>4, <2>2 DEF exec_op
<1> QED
  BY <1>1, <1>2, <1>3, <1>4

\* Every step of Database is a step of KvStore, or not seen there.
LEMMA KvStep ==
  ASSUME IInv, [Next]_vars
  PROVE  [Abstract!KvNext]_(Abstract!kvVars)
<1>1. CASE UNCHANGED vars
  BY <1>1, UnseenStep DEF vars, diskVars, callVars
<1>2. ASSUME NEW r \in Requests, Receive(r)
      PROVE  Abstract!KvNext
  <2>1. Abstract!Ask
    BY <1>2 DEF Receive, diskVars, IInv, TypeOK, Abstract!Ask
  <2> QED
    BY <2>1 DEF Abstract!KvNext
<1>3. CASE Die /\ data' = data
  BY <1>3, LostStep DEF Die
<1>4. CASE UNCHANGED <<data, req, reply>>
  BY <1>4, UnseenStep
<1>5. CASE Abstract!Write \/ Abstract!Read \/ Abstract!Refuse
  BY <1>5 DEF Abstract!KvNext
<1>6. CASE SignalHandler \/ Crash
  BY <1>3, <1>4, <1>6 DEF SignalHandler, Crash, diskVars
<1>7. CASE Restart
  <2>1. req = Nothing
    BY <1>7 DEF Restart, IInv, EndedClean, TypeOK
  <2> QED
    BY <1>7, <2>1, LostStep DEF Restart, diskVars
<1> QED
  BY <1>1, <1>2, <1>3, <1>4, <1>5, <1>6, <1>7, ExecOutcome DEF Next

\* exec_json over open(), get_handle and the operations is a store that serves
\* one request at a time, as a whole or not at all, and is the same after a
\* crash (server.cc:54-226, 305-366).
THEOREM StoreImplemented == Spec => ImplementsKvStore
<1>1. Init => Abstract!KvInit
  BY DEF Init, Abstract!KvInit
<1>2. IInv /\ [Next]_vars => [Abstract!KvNext]_(Abstract!kvVars)
  BY KvStep
<1> QED
  BY <1>1, <1>2, Invariant, PTL DEF Spec, ImplementsKvStore, Abstract!KvSpec

=============================================================================
