-------------------------- MODULE SchedulerProofs --------------------------
(***************************************************************************)
(* Proofs about Scheduler: an operation is in one place, the work is       *)
(* counted, and no wakeup is lost, for any number of threads and of        *)
(* operations.                                                             *)
(***************************************************************************)
EXTENDS Scheduler, FiniteSetTheorems, SequenceTheorems, NaturalsInduction, TLAPS

-----------------------------------------------------------------------------
(* The inductive invariant.  Where a thread is, in the words of the code.  *)

InReactor(t) == pc[t] \in {"task", "taskDone"} \/ (pc[t] = "signal" /\ after[t] = "task")

InHandler(t) ==
  t \in Threads /\ \/ pc[t] \in {"handler", "posting"}
                   \/ pc[t] \in {"signal", "stopping"} /\ after[t] = "handler"

Completing(t) == pc[t] = "complete" \/ (pc[t] = "signal" /\ after[t] = "complete")
Counting(t) == InHandler(t) \/ pc[t] = "cleanup"

InQueue(o) == o \in Range(op_queue_)

\* A thread has an operation, in its private queue or about to be pushed or
\* completed.
Has(t, o) == \/ o \in Range(private_op_queue[t]) \/ posting[t] = o
             \/ Completing(t) /\ current[t] = o

\* What each place in the code says about the registers of a thread.
Controls ==
  /\ \A t \in Others : pc[t] \in {"out", "posting", "signal"} /\ after[t] = "out"
  /\ \A t \in Threads :
       /\ pc[t] = "signal" => after[t] \in {"task", "complete", "handler"}
       /\ pc[t] = "stopping" => after[t] \in {"done", "handler", "pushing"}
  /\ \A t \in Actors : waits[t] # "no" <=> pc[t] = "asleep"
  /\ \A t \in Actors : posting[t] # Nobody <=> pc[t] = "posting"
  /\ \A t \in Actors : Completing(t) \/ Counting(t) => current[t] \in Ops

\* The reactor is in the queue or with one thread.
TaskOnce ==
  /\ \A t, u \in Actors : InReactor(t) /\ InReactor(u) => t = u
  /\ \A t \in Actors : InReactor(t) => ~InQueue(Task)
  /\ task_ <=> InQueue(Task) \/ \E t \in Actors : InReactor(t)

\* An operation runs in one handler.
RunsOnce ==
  /\ \A t \in Actors : InHandler(t) => stage[current[t]] = "running"
  /\ \A t, u \in Actors : InHandler(t) /\ InHandler(u) /\ current[t] = current[u] => t = u

\* The private queue and the private count of a thread go together until
\* work_cleanup.
PrivateUse ==
  \A t \in Actors :
    /\ private_op_queue[t] # << >> =>
         \/ pc[t] \in {"taskDone", "pushing"} \/ Counting(t)
         \/ pc[t] = "stopping" /\ after[t] = "pushing"
    /\ InHandler(t) => private_outstanding_work[t] = Len(private_op_queue[t])
    /\ pc[t] = "cleanup" =>
         \/ private_outstanding_work[t] = Len(private_op_queue[t])
         \/ private_outstanding_work[t] = 1 /\ private_op_queue[t] = << >>
    /\ ~Counting(t) => private_outstanding_work[t] = 0

\* What came from the reactor is in the queue before it, and what was posted
\* may be anywhere.
Ordered(q, st) ==
  \A i \in 1..Len(q) : q[i] # Task =>
    /\ st[q[i]] # "new"
    /\ st[q[i]] # "posted" => \E j \in 1..Len(q) : i < j /\ q[j] = Task

\* Where an operation is says how far it is: in a private queue, ...
PrivateStages ==
  \A t \in Actors : \A o \in Range(private_op_queue[t]) :
    IF pc[t] = "taskDone" THEN stage[o] \in {"waits", "running", "done"}
                          ELSE stage[o] = "posted"

\* ... or in the hands of the reactor or of a thread.
PlaceStages ==
  /\ \A o \in ready : stage[o] \in {"waits", "running", "done"}
  /\ \A t \in Actors : pc[t] = "posting" => stage[posting[t]] = "posted"
  /\ \A t \in Actors : Completing(t) => stage[current[t]] # "new"

Stages == Ordered(op_queue_, stage) /\ PrivateStages /\ PlaceStages

\* What was posted is in one place until its handler runs.
PostedOnce ==
  \A o \in Ops : stage[o] = "posted" =>
    /\ \A t \in Actors : Has(t, o) => ~InQueue(o)
    /\ \A t \in Actors : o \in Range(private_op_queue[t]) =>
         posting[t] # o /\ ~(Completing(t) /\ current[t] = o)
    /\ \A t, u \in Actors : Has(t, o) /\ Has(u, o) => t = u

QueuesDistinct ==
  IsInjective(op_queue_) /\ \A t \in Actors : IsInjective(private_op_queue[t])

\* The thread in epoll that would stay there.
Blocked(t) == pc[t] = "task" /\ blocks[t] /\ ~interrupted /\ ready = {}

\* Why no wakeup is lost: who has the mutex from one step to the next is in the
\* loop; the event is signalled, unless whoever filled the queue still has the
\* mutex; ...
HeldInLoop == holder # Nobody => pc[holder] = "loop"

SignalledOrHeld ==
  op_queue_ # << >> /\ ~stopped_ /\ ~signalled => holder # Nobody

\* ... a task that was interrupted is on its way back, and one that lets other
\* threads have their signal first does not block; ...
InterruptArrives ==
  \A t \in Actors :
    /\ InReactor(t) /\ pc[t] # "taskDone" /\ task_interrupted_ => interrupted \/ ~blocks[t]
    /\ pc[t] = "signal" /\ after[t] = "task" => ~blocks[t]

\* ... a thread that sleeps has one before it that is in the loop, about to
\* signal or woken; and one that blocks in epoll has one in the loop, or one
\* that waits and so is covered by the others.
SleeperIsWatched ==
  op_queue_ # << >> /\ ~stopped_ /\ (\E t \in Actors : waits[t] = "asleep") =>
    \E t \in Actors : pc[t] \in {"loop", "signal"} \/ waits[t] = "woken"

BlockedIsWatched ==
  op_queue_ # << >> /\ ~stopped_ /\ (\E t \in Actors : Blocked(t)) =>
    \E t \in Actors : pc[t] = "loop" \/ waits[t] # "no"

Waking == HeldInLoop /\ SignalledOrHeld /\ InterruptArrives /\ SleeperIsWatched
            /\ BlockedIsWatched

-----------------------------------------------------------------------------
(* Sums over the threads.                                                  *)

\* Of numbers, one is the least.
LEMMA LeastOf ==
  ASSUME NEW T, T \subseteq Nat, T # {}
  PROVE  \E k \in T : \A j \in T : k <= j
<1>1. PICK k \in T : \A j \in T : ~ (<<j, k>> \in OpToRel(<, Nat))
  BY NatLessThanWellFounded, WFMin
<1>2. OpToRel(<, Nat) = {ss \in Nat \X Nat : ss[1] < ss[2]}
  BY DEF OpToRel
<1>3. \A j \in T : ~ (j < k)
  BY <1>1, <1>2
<1> QED
  BY <1>3

\* Induction, over a set of numbers.
LEMMA AllNumbers ==
  ASSUME NEW T, T \subseteq Nat, 0 \in T, \A k \in T : k + 1 \in T
  PROVE  T = Nat
<1>1. SUFFICES ASSUME Nat \ T # {}
               PROVE  FALSE
  OBVIOUS
<1>2. PICK k \in Nat \ T : \A j \in Nat \ T : k <= j
  BY <1>1, LeastOf
<1>3. k # 0 /\ k - 1 \in Nat
  BY <1>2
<1>4. k - 1 \in T
  BY <1>2, <1>3
<1>5. (k - 1) + 1 = k
  BY <1>2
<1> QED
  BY <1>2, <1>4, <1>5

\* The element that SumFunction takes next.
First(s) == CHOOSE x \in s : TRUE

\* A set without one of its elements is smaller.
LEMMA RestIsSmaller ==
  ASSUME NEW D, IsFiniteSet(D), NEW s \in SUBSET D, s # {}
  PROVE  /\ First(s) \in s /\ s \ {First(s)} \in SUBSET D
         /\ IsFiniteSet(s) /\ Cardinality(s) \in Nat
         /\ Cardinality(s \ {First(s)}) = Cardinality(s) - 1
<1>1. First(s) \in s
  BY DEF First
<1>2. IsFiniteSet(s) /\ Cardinality(s) \in Nat
  BY FS_Subset, FS_CardinalityType
<1>3. Cardinality(s \ {First(s)}) = Cardinality(s) - 1
  BY <1>1, <1>2, FS_RemoveElement
<1> QED
  BY <1>1, <1>2, <1>3

\* Induction over the subsets of a finite set, in the order of SumFunction.
LEMMA AllSubsets ==
  ASSUME NEW D, IsFiniteSet(D), NEW T, {} \in T,
         \A s \in SUBSET D : s # {} /\ s \ {First(s)} \in T => s \in T
  PROVE  SUBSET D \subseteq T
<1> DEFINE Counts == {n \in Nat : \E s \in SUBSET D : s \notin T /\ Cardinality(s) = n}
<1>1. SUFFICES ASSUME NEW s \in SUBSET D, s \notin T
               PROVE  FALSE
  OBVIOUS
<1>2. Cardinality(s) \in Counts
  BY <1>1, FS_Subset, FS_CardinalityType
<1>3. PICK k \in Counts : \A j \in Counts : k <= j
  BY <1>2, LeastOf
<1>4. PICK r \in SUBSET D : r \notin T /\ Cardinality(r) = k
  BY <1>3
<1>5. r # {} /\ r \ {First(r)} \notin T
  BY <1>4
<1>6. r \ {First(r)} \in SUBSET D /\ Cardinality(r \ {First(r)}) = k - 1
  BY <1>4, <1>5, RestIsSmaller
<1>7. k - 1 \in Nat
  BY <1>4, <1>5, <1>6, FS_Subset, FS_CardinalityType
<1>8. k - 1 \in Counts
  BY <1>5, <1>6, <1>7
<1> QED
  BY <1>3, <1>8

\* g sums f over the sets in L, and takes no others.
Sums(f, L, g) ==
  g = [s \in L |-> IF s = {} THEN 0 ELSE f[First(s)] + g[s \ {First(s)}]]

UpTo(D, n) == {s \in SUBSET D : Cardinality(s) <= n}

\* There is a function of the sums over all subsets up to a size.
LEMMA SumsExist ==
  ASSUME NEW D, IsFiniteSet(D), NEW f \in [D -> Int], NEW n \in Nat
  PROVE  \E g \in [UpTo(D, n) -> Int] : Sums(f, UpTo(D, n), g)
<1> DEFINE T == {k \in Nat : \E g \in [UpTo(D, k) -> Int] : Sums(f, UpTo(D, k), g)}
<1>1. 0 \in T
  <2>1. \A s \in UpTo(D, 0) : s = {}
    BY FS_Subset, FS_EmptySet, FS_CardinalityType DEF UpTo
  <2> DEFINE g == [s \in UpTo(D, 0) |-> 0]
  <2>2. Sums(f, UpTo(D, 0), g)
    BY <2>1 DEF Sums
  <2> QED
    BY <2>2
<1>2. ASSUME NEW k \in T
      PROVE  k + 1 \in T
  <2>1. PICK g \in [UpTo(D, k) -> Int] : Sums(f, UpTo(D, k), g)
    OBVIOUS
  <2> DEFINE M == UpTo(D, k + 1)
             h == [s \in M |-> IF s = {} THEN 0 ELSE f[First(s)] + g[s \ {First(s)}]]
  <2>2. \A s \in M : s # {} => First(s) \in D /\ s \ {First(s)} \in UpTo(D, k)
    BY RestIsSmaller DEF UpTo
  <2>3. h \in [M -> Int]
    BY <2>2
  <2>4. UpTo(D, k) \subseteq M
    BY FS_Subset, FS_CardinalityType DEF UpTo
  <2>5. \A s \in UpTo(D, k) : g[s] = IF s = {} THEN 0 ELSE f[First(s)] + g[s \ {First(s)}]
    BY <2>1 DEF Sums
  <2>6. \A s \in UpTo(D, k) : h[s] = g[s]
    BY <2>4, <2>5
  <2>7. h = [s \in M |-> IF s = {} THEN 0 ELSE f[First(s)] + h[s \ {First(s)}]]
    BY <2>2, <2>6
  <2>8. Sums(f, M, h)
    BY <2>7, Zenon DEF Sums
  <2> HIDE DEF h
  <2> QED
    BY <2>3, <2>8
<1> QED
  BY <1>1, <1>2, AllNumbers

\* What SumFunction adds, over any part of its domain.
Sum(f, D) == CHOOSE g : Sums(f, SUBSET D, g)

Adds(f, D) ==
  /\ Sum(f, D) \in [SUBSET D -> Int]
  /\ Sum(f, D)[{}] = 0
  /\ \A s \in SUBSET D : s # {} =>
       Sum(f, D)[s] = f[First(s)] + Sum(f, D)[s \ {First(s)}]
  /\ SumFunction(f) = Sum(f, D)[D]

\* SumFunction is the sum that the recursion in the fold describes.
LEMMA SumIsRecursive ==
  ASSUME NEW D, IsFiniteSet(D), NEW f \in [D -> Int]
  PROVE  Adds(f, D)
<1>1. SumFunction(f) = Sum(f, D)[D]
  BY Zenon DEF SumFunction, SumFunctionOnSet, FoldFunctionOnSet, MapThenFoldSet, Sum,
               Sums, First
<1>2. Cardinality(D) \in Nat /\ UpTo(D, Cardinality(D)) = SUBSET D
  BY FS_Subset, FS_CardinalityType DEF UpTo
<1>3. \E g \in [SUBSET D -> Int] : Sums(f, SUBSET D, g)
  <2> DEFINE n == Cardinality(D)
  <2>1. n \in Nat /\ UpTo(D, n) = SUBSET D
    BY <1>2
  <2> HIDE DEF n
  <2>2. \E g \in [UpTo(D, n) -> Int] : Sums(f, UpTo(D, n), g)
    BY <2>1, SumsExist
  <2> QED
    BY <2>1, <2>2
<1>4. Sums(f, SUBSET D, Sum(f, D))
  BY <1>3 DEF Sum
<1> DEFINE S == Sum(f, D)
<1>5. /\ S[{}] = 0
      /\ \A s \in SUBSET D : s # {} => S[s] = f[First(s)] + S[s \ {First(s)}]
  BY <1>4 DEF Sums
<1>6. SUBSET D \subseteq {s \in SUBSET D : S[s] \in Int}
  <2> DEFINE T == {s \in SUBSET D : S[s] \in Int}
  <2>1. {} \in T
    BY <1>5
  <2>2. ASSUME NEW s \in SUBSET D, s # {}, s \ {First(s)} \in T
        PROVE  s \in T
    BY <1>5, <2>2 DEF First
  <2> HIDE DEF T
  <2>3. SUBSET D \subseteq T
    BY <2>1, <2>2, AllSubsets
  <2> QED
    BY <2>3 DEF T
<1>7. S \in [SUBSET D -> Int]
  BY <1>4, <1>6 DEF Sums
<1> QED
  BY <1>1, <1>5, <1>7 DEF Adds

\* A sum of zeros.
LEMMA SumOfZeros ==
  ASSUME NEW D, IsFiniteSet(D)
  PROVE  SumFunction([d \in D |-> 0]) = 0
<1> DEFINE f == [d \in D |-> 0]
           T == {s \in SUBSET D : Sum(f, D)[s] = 0}
<1>1. f \in [D -> Int] /\ \A d \in D : f[d] = 0
  OBVIOUS
<1> HIDE DEF f, T
<1>0. Adds(f, D)
  BY <1>1, SumIsRecursive
<1>2. {} \in T
  BY <1>0 DEF T, Adds
<1>3. ASSUME NEW s \in SUBSET D, s # {}, s \ {First(s)} \in T
      PROVE  s \in T
  <2>1. First(s) \in D /\ f[First(s)] = 0
    BY <1>1, <1>3 DEF First
  <2>2. Sum(f, D)[s] = f[First(s)] + Sum(f, D)[s \ {First(s)}]
    BY <1>0, <1>3 DEF Adds
  <2> QED
    BY <1>3, <2>1, <2>2 DEF T
<1>4. D \in T
  BY <1>2, <1>3, AllSubsets
<1> QED
  BY <1>0, <1>4 DEF T, Adds, f

\* One of the numbers changes.
LEMMA SumWithout ==
  ASSUME NEW D, IsFiniteSet(D), NEW f \in [D -> Int], NEW t \in D, NEW v \in Int
  PROVE  /\ SumFunction(f) \in Int
         /\ SumFunction([f EXCEPT ![t] = v]) = SumFunction(f) + v - f[t]
<1> DEFINE h == [f EXCEPT ![t] = v]
           T == {s \in SUBSET D :
                   Sum(h, D)[s] = Sum(f, D)[s] + (IF t \in s THEN v - f[t] ELSE 0)}
<1>1. h \in [D -> Int] /\ h[t] = v /\ \A d \in D : d # t => h[d] = f[d]
  OBVIOUS
<1> HIDE DEF h, T
<1>0. Adds(f, D) /\ Adds(h, D)
  BY <1>1, SumIsRecursive
<1>2. {} \in T
  <2>1. Sum(h, D)[{}] = 0 /\ Sum(f, D)[{}] = 0
    BY <1>0 DEF Adds
  <2> QED
    BY <2>1 DEF T
<1>3. ASSUME NEW s \in SUBSET D, s # {}, s \ {First(s)} \in T
      PROVE  s \in T
  <2> DEFINE x == First(s)
             r == s \ {First(s)}
  <2>1. x \in s /\ x \in D /\ r \in SUBSET D /\ x \notin r
    BY <1>3 DEF First
  <2>2. Sum(h, D)[s] = h[x] + Sum(h, D)[r]
    BY <1>0, <1>3 DEF Adds
  <2>3. Sum(f, D)[s] = f[x] + Sum(f, D)[r]
    BY <1>0, <1>3 DEF Adds
  <2>4. Sum(f, D)[r] \in Int /\ Sum(h, D)[r] \in Int
    BY <1>0, <2>1 DEF Adds
  <2>5. Sum(h, D)[r] = Sum(f, D)[r] + (IF t \in r THEN v - f[t] ELSE 0)
    BY <1>3 DEF T
  <2>6. f[x] \in Int /\ h[x] \in Int /\ f[t] \in Int
    BY <1>1, <2>1
  <2>7. (t \in s) <=> (t \in r \/ t = x)
    BY <2>1
  <2> HIDE DEF x, r
  <2>8. Sum(h, D)[s] = Sum(f, D)[s] + (IF t \in s THEN v - f[t] ELSE 0)
    <3>1. CASE t = x
      BY <1>1, <2>1, <2>2, <2>3, <2>4, <2>5, <2>6, <2>7, <3>1
    <3>2. CASE t # x
      <4>1. h[x] = f[x]
        BY <1>1, <2>1, <3>2
      <4> QED
        BY <2>2, <2>3, <2>4, <2>5, <2>6, <2>7, <3>2, <4>1
    <3> QED
      BY <3>1, <3>2
  <2> QED
    BY <2>8 DEF T
<1>4. D \in T
  BY <1>2, <1>3, AllSubsets
<1>5. SumFunction(f) = Sum(f, D)[D] /\ SumFunction(h) = Sum(h, D)[D]
      /\ Sum(f, D)[D] \in Int /\ f[t] \in Int
  BY <1>0 DEF Adds
<1> QED
  BY <1>4, <1>5 DEF T, h

\* Numbers that count parts of a set, no two with an element in common, are
\* together no more than its elements.
LEMMA SumIsBounded ==
  ASSUME NEW D, IsFiniteSet(D), NEW f \in [D -> Int],
         NEW U, IsFiniteSet(U), NEW Part \in [D -> SUBSET U],
         \A d \in D : f[d] <= Cardinality(Part[d]),
         \A d, e \in D : d # e => Part[d] \cap Part[e] = {}
  PROVE  SumFunction(f) <= Cardinality(U)
<1> DEFINE Under(s) == {u \in U : \E d \in s : u \in Part[d]}
           T == {s \in SUBSET D : Sum(f, D)[s] <= Cardinality(Under(s))}
<1>0. Adds(f, D)
  BY SumIsRecursive
<1>1. {} \in T
  <2>1. Under({}) = {}
    OBVIOUS
  <2>2. Cardinality(Under({})) = 0
    BY <2>1, FS_EmptySet
  <2>3. Sum(f, D)[{}] = 0
    BY <1>0 DEF Adds
  <2> QED
    BY <2>2, <2>3
<1>2. ASSUME NEW s \in SUBSET D, s # {}, s \ {First(s)} \in T
      PROVE  s \in T
  <2> DEFINE x == First(s)
             r == s \ {First(s)}
  <2>1. x \in s /\ x \in D /\ r \in SUBSET D /\ x \notin r /\ s = r \cup {x}
    BY <1>2 DEF First
  <2>2. Sum(f, D)[s] = f[x] + Sum(f, D)[r]
    BY <1>0, <1>2 DEF Adds
  <2>3. Sum(f, D)[r] \in Int /\ f[x] \in Int
    BY <1>0, <2>1 DEF Adds
  <2>4. Sum(f, D)[r] <= Cardinality(Under(r))
    BY <1>2
  <2> HIDE DEF x, r
  <2>5. Under(s) = Part[x] \cup Under(r) /\ Part[x] \cap Under(r) = {}
    BY <2>1
  <2>6. Part[x] \in SUBSET U /\ Under(r) \in SUBSET U
    BY <2>1
  <2> DEFINE A == Part[x]
             B == Under(r)
  <2>7. IsFiniteSet(A) /\ IsFiniteSet(B) /\ Cardinality(A) \in Nat /\ Cardinality(B) \in Nat
    BY <2>6, FS_Subset, FS_CardinalityType
  <2>8. A \cap B = {}
    BY <2>5
  <2> HIDE DEF A, B
  <2>9. Cardinality(A \cup B) = Cardinality(A) + Cardinality(B)
    <3>1. Cardinality(A \cup B) = Cardinality(A) + Cardinality(B) - Cardinality(A \cap B)
      BY <2>7, FS_Union
    <3>2. Cardinality(A \cap B) = 0
      BY <2>8, FS_EmptySet
    <3> QED
      BY <2>7, <3>1, <3>2
  <2>10. f[x] <= Cardinality(A)
    BY <2>1 DEF A
  <2>11. Sum(f, D)[s] <= Cardinality(A \cup B)
    BY <2>2, <2>3, <2>4, <2>7, <2>9, <2>10 DEF B
  <2> QED
    BY <2>5, <2>11 DEF A, B
<1> HIDE DEF T
<1>3. D \in T
  BY <1>1, <1>2, AllSubsets
<1>4. Under(D) \in SUBSET U
  OBVIOUS
<1>5. Cardinality(Under(D)) <= Cardinality(U) /\ Cardinality(Under(D)) \in Nat
      /\ Cardinality(U) \in Nat
  BY <1>4, FS_Subset, FS_CardinalityType
<1>6. SumFunction(f) = Sum(f, D)[D] /\ Sum(f, D)[D] \in Int
  BY <1>0 DEF Adds
<1> QED
  BY <1>3, <1>5, <1>6 DEF T

-----------------------------------------------------------------------------
(* What is in a queue.                                                     *)

\* Nothing is in the empty queue.
LEMMA RangeOfNone ==
  ASSUME NEW S
  PROVE  Range(<< >>) = {} /\ IsInjective(<< >>) /\ << >> \in Seq(S) /\ Len(<< >>) = 0
<1>1. << >> \in Seq(S) /\ Len(<< >>) = 0
  OBVIOUS
<1>2. DOMAIN << >> = {}
  OBVIOUS
<1> QED
  BY <1>1, <1>2 DEF Range, IsInjective

\* Without its head a queue has the rest of what it had.
LEMMA RangeOfTail ==
  ASSUME NEW S, NEW s \in Seq(S), s # << >>, IsInjective(s)
  PROVE  /\ s[1] \in Range(s) /\ Range(Tail(s)) = Range(s) \ {s[1]}
         /\ IsInjective(Tail(s))
<1>1. /\ Len(s) \in Nat \ {0} /\ DOMAIN s = 1..Len(s) /\ DOMAIN Tail(s) = 1..(Len(s) - 1)
      /\ \A i \in 1..(Len(s) - 1) : Tail(s)[i] = s[i + 1]
  BY HeadTailProperties, EmptySeq, LenProperties
<1>2. ASSUME NEW x \in Range(s), x # s[1]
      PROVE  x \in Range(Tail(s))
  <2>1. PICK i \in 1..Len(s) : s[i] = x
    BY <1>1 DEF Range
  <2>2. i # 1 /\ i - 1 \in 1..(Len(s) - 1) /\ (i - 1) + 1 = i
    BY <1>1, <1>2, <2>1
  <2>3. Tail(s)[i - 1] = x
    BY <1>1, <2>1, <2>2
  <2> QED
    BY <1>1, <2>2, <2>3 DEF Range
<1>3. ASSUME NEW x \in Range(Tail(s))
      PROVE  x \in Range(s) /\ x # s[1]
  <2>1. PICK i \in 1..(Len(s) - 1) : Tail(s)[i] = x
    BY <1>1 DEF Range
  <2>2. i + 1 \in 1..Len(s) /\ i + 1 # 1 /\ 1 \in 1..Len(s) /\ s[i + 1] = x
    BY <1>1, <2>1
  <2> QED
    BY <1>1, <2>2 DEF Range, IsInjective
<1>4. IsInjective(Tail(s))
  <2> SUFFICES ASSUME NEW i \in 1..(Len(s) - 1), NEW j \in 1..(Len(s) - 1),
                      Tail(s)[i] = Tail(s)[j]
               PROVE  i = j
    BY <1>1 DEF IsInjective
  <2>1. i + 1 \in 1..Len(s) /\ j + 1 \in 1..Len(s) /\ s[i + 1] = s[j + 1]
    BY <1>1
  <2>2. i + 1 = j + 1
    BY <1>1, <2>1 DEF IsInjective
  <2> QED
    BY <2>2
<1>5. s[1] \in Range(s)
  BY <1>1 DEF Range
<1> QED
  BY <1>2, <1>3, <1>4, <1>5

\* One queue behind the other.
LEMMA RangeOfBoth ==
  ASSUME NEW S, NEW s \in Seq(S), NEW r \in Seq(S)
  PROVE  /\ Range(s \o r) = Range(s) \cup Range(r)
         /\ IsInjective(s) /\ IsInjective(r) /\ Range(s) \cap Range(r) = {}
              => IsInjective(s \o r)
<1> DEFINE n == Len(s)
           m == Len(r)
           c == s \o r
<1>1. /\ n \in Nat /\ m \in Nat /\ DOMAIN s = 1..n /\ DOMAIN r = 1..m
      /\ c \in Seq(S) /\ Len(c) = n + m
      /\ \A i \in 1..(n + m) : c[i] = IF i <= n THEN s[i] ELSE r[i - n]
  BY ConcatProperties, LenProperties
<1>2. DOMAIN c = 1..(n + m)
  BY <1>1, LenProperties
<1> HIDE DEF n, m, c
<1>3. \A i \in 1..n : i \in 1..(n + m) /\ c[i] = s[i]
  BY <1>1
<1>4. \A i \in 1..m : n + i \in 1..(n + m) /\ c[n + i] = r[i]
  <2> TAKE i \in 1..m
  <2>1. n + i \in 1..(n + m) /\ ~(n + i <= n) /\ (n + i) - n = i
    BY <1>1
  <2> QED
    BY <1>1, <2>1
<1>5. \A i \in 1..(n + m) : i \in 1..n \/ (i - n \in 1..m /\ c[i] = r[i - n]
        /\ n + (i - n) = i)
  BY <1>1
<1>6. Range(c) = Range(s) \cup Range(r)
  <2>1. \A x \in Range(s) \cup Range(r) : x \in Range(c)
    <3>1. \A x \in Range(s) : x \in Range(c)
      BY <1>1, <1>2, <1>3 DEF Range
    <3>2. ASSUME NEW x \in Range(r)
          PROVE  x \in Range(c)
      <4>1. PICK i \in 1..m : r[i] = x
        BY <1>1 DEF Range
      <4>2. n + i \in 1..(n + m) /\ c[n + i] = x
        BY <1>4, <4>1
      <4> QED
        BY <1>2, <4>2 DEF Range
    <3> QED
      BY <3>1, <3>2
  <2>2. \A x \in Range(c) : x \in Range(s) \cup Range(r)
    BY <1>1, <1>2, <1>3, <1>5, ZenonT(40) DEF Range
  <2> QED
    BY <2>1, <2>2
<1>7. ASSUME IsInjective(s), IsInjective(r), Range(s) \cap Range(r) = {},
             NEW i \in 1..(n + m), NEW j \in 1..(n + m), c[i] = c[j]
      PROVE  i = j
  <2>1. CASE i \in 1..n /\ j \in 1..n
    BY <1>1, <1>3, <1>7, <2>1 DEF IsInjective
  <2>2. CASE i \notin 1..n /\ j \notin 1..n
    <3>1. i - n = j - n
      BY <1>1, <1>5, <1>7, <2>2, ZenonT(40) DEF IsInjective
    <3> QED
      BY <1>1, <3>1
  <2>3. \A k, l : k \in 1..n /\ l \in 1..m => s[k] # r[l]
    BY <1>1, <1>7 DEF Range
  <2>4. CASE i \in 1..n /\ j \notin 1..n
    <3>1. c[i] = s[i] /\ j - n \in 1..m /\ c[j] = r[j - n]
      BY <1>3, <1>5, <2>4
    <3> QED
      BY <1>7, <2>3, <2>4, <3>1
  <2>5. CASE i \notin 1..n /\ j \in 1..n
    <3>1. c[j] = s[j] /\ i - n \in 1..m /\ c[i] = r[i - n]
      BY <1>3, <1>5, <2>5
    <3> QED
      BY <1>7, <2>3, <2>5, <3>1
  <2> QED
    BY <2>1, <2>2, <2>4, <2>5
<1>8. (IsInjective(s) /\ IsInjective(r) /\ Range(s) \cap Range(r) = {}) => IsInjective(c)
  BY <1>2, <1>7 DEF IsInjective
<1> QED
  BY <1>6, <1>8 DEF c

\* One element more.
LEMMA RangeOfMore ==
  ASSUME NEW S, NEW s \in Seq(S), NEW x \in S
  PROVE  /\ Range(Append(s, x)) = Range(s) \cup {x}
         /\ IsInjective(s) /\ x \notin Range(s) => IsInjective(Append(s, x))
<1>1. <<x>> \in Seq(S) /\ Len(<<x>>) = 1 /\ <<x>>[1] = x
  OBVIOUS
<1>2. DOMAIN <<x>> = {1}
  BY <1>1
<1>3. Range(<<x>>) = {x} /\ IsInjective(<<x>>)
  BY <1>1, <1>2 DEF Range, IsInjective
<1>4. Append(s, x) = s \o <<x>>
  BY AppendIsConcat
<1>5. Range(s \o <<x>>) = Range(s) \cup Range(<<x>>)
  BY <1>1, RangeOfBoth, ZenonT(40)
<1>6. (IsInjective(s) /\ x \notin Range(s)) => IsInjective(s \o <<x>>)
  <2>1. (x \notin Range(s)) => Range(s) \cap Range(<<x>>) = {}
    BY <1>3
  <2> QED
    BY <1>1, <1>3, <2>1, RangeOfBoth
<1> QED
  BY <1>3, <1>4, <1>5, <1>6

\* One queue behind the other.
LEMMA OrderedBoth ==
  ASSUME NEW S, NEW s \in Seq(S), NEW r \in Seq(S), NEW st,
         Ordered(s, st), Ordered(r, st)
  PROVE  Ordered(s \o r, st)
<1> DEFINE n == Len(s)
           m == Len(r)
           c == s \o r
<1>1. /\ n \in Nat /\ m \in Nat /\ c \in Seq(S) /\ Len(c) = n + m
      /\ \A i \in 1..(n + m) : c[i] = IF i <= n THEN s[i] ELSE r[i - n]
  BY ConcatProperties, LenProperties
<1>2. \A i \in 1..n : s[i] # Task =>
        /\ st[s[i]] # "new"
        /\ st[s[i]] # "posted" => \E j \in 1..n : i < j /\ s[j] = Task
  BY DEF Ordered
<1>3. \A i \in 1..m : r[i] # Task =>
        /\ st[r[i]] # "new"
        /\ st[r[i]] # "posted" => \E j \in 1..m : i < j /\ r[j] = Task
  BY DEF Ordered
<1> HIDE DEF n, m, c
<1>4. ASSUME NEW i \in 1..(n + m), c[i] # Task
      PROVE  /\ st[c[i]] # "new"
             /\ st[c[i]] # "posted" => \E j \in 1..(n + m) : i < j /\ c[j] = Task
  <2>1. CASE i <= n
    <3>1. i \in 1..n /\ c[i] = s[i]
      BY <1>1, <2>1
    <3>2. \A j \in 1..n : j \in 1..(n + m) /\ c[j] = s[j]
      BY <1>1
    <3> QED
      BY <1>2, <1>4, <3>1, <3>2
  <2>2. CASE ~(i <= n)
    <3>1. i - n \in 1..m /\ c[i] = r[i - n]
      BY <1>1, <2>2
    <3>2. \A j \in 1..m : i - n < j => n + j \in 1..(n + m) /\ i < n + j /\ c[n + j] = r[j]
      <4> TAKE j \in 1..m
      <4> HAVE i - n < j
      <4>1. n + j \in 1..(n + m) /\ i < n + j /\ ~(n + j <= n) /\ (n + j) - n = j
        BY <1>1
      <4> QED
        BY <1>1, <4>1
    <3> QED
      BY <1>3, <1>4, <3>1, <3>2
  <2> QED
    BY <2>1, <2>2
<1> QED
  BY <1>1, <1>4 DEF Ordered, c

\* The reactor, or one that was posted, behind the queue.
LEMMA OrderedMore ==
  ASSUME NEW S, NEW s \in Seq(S), NEW x \in S, NEW st, Ordered(s, st),
         x = Task \/ st[x] = "posted"
  PROVE  Ordered(Append(s, x), st)
<1>1. <<x>> \in Seq(S) /\ Len(<<x>>) = 1 /\ <<x>>[1] = x
  OBVIOUS
<1>2. Ordered(<<x>>, st)
  BY <1>1 DEF Ordered
<1>3. Append(s, x) = s \o <<x>>
  BY AppendIsConcat
<1> QED
  BY <1>1, <1>2, <1>3, OrderedBoth

\* The reactor behind anything but what is new.
LEMMA OrderedTask ==
  ASSUME NEW S, NEW s \in Seq(S), Task \in S, NEW st,
         \A x \in Range(s) : st[x] # "new" \/ x = Task
  PROVE  Ordered(Append(s, Task), st)
<1> DEFINE n == Len(s)
           c == Append(s, Task)
<1>1. /\ n \in Nat /\ Len(c) = n + 1 /\ c[n + 1] = Task
      /\ \A i \in 1..n : c[i] = s[i] /\ s[i] \in Range(s)
  BY AppendProperties, LenProperties DEF Range
<1> HIDE DEF n, c
<1>2. n + 1 \in 1..Len(c) /\ \A i \in 1..Len(c) : i = n + 1 \/ (i \in 1..n /\ i < n + 1)
  BY <1>1
<1>3. Ordered(c, st)
  BY <1>1, <1>2 DEF Ordered
<1> QED
  BY <1>3 DEF c

\* The queue without its head.
LEMMA OrderedTail ==
  ASSUME NEW S, NEW s \in Seq(S), s # << >>, NEW st, Ordered(s, st)
  PROVE  Ordered(Tail(s), st)
<1> DEFINE n == Len(s)
           c == Tail(s)
<1>1. /\ n \in Nat \ {0} /\ Len(c) = n - 1
      /\ \A i \in 1..(n - 1) : c[i] = s[i + 1]
  BY HeadTailProperties, EmptySeq, LenProperties
<1>2. \A i \in 1..n : s[i] # Task =>
        /\ st[s[i]] # "new"
        /\ st[s[i]] # "posted" => \E j \in 1..n : i < j /\ s[j] = Task
  BY DEF Ordered
<1> HIDE DEF n, c
<1>3. ASSUME NEW i \in 1..(n - 1), c[i] # Task
      PROVE  /\ st[c[i]] # "new"
             /\ st[c[i]] # "posted" => \E j \in 1..(n - 1) : i < j /\ c[j] = Task
  <2>1. i + 1 \in 1..n /\ c[i] = s[i + 1]
    BY <1>1
  <2>2. \A j \in 1..n : i + 1 < j => j - 1 \in 1..(n - 1) /\ i < j - 1 /\ c[j - 1] = s[j]
    <3> TAKE j \in 1..n
    <3> HAVE i + 1 < j
    <3>1. j - 1 \in 1..(n - 1) /\ i < j - 1 /\ (j - 1) + 1 = j
      BY <1>1
    <3> QED
      BY <1>1, <3>1
  <2> QED
    BY <1>2, <1>3, <2>1, <2>2
<1> QED
  BY <1>1, <1>3 DEF Ordered, c

\* What is in the queue is not new, and was posted if the reactor is elsewhere.
LEMMA OrderedStages ==
  ASSUME NEW S, NEW s \in Seq(S), NEW st, Ordered(s, st), NEW x \in Range(s), x # Task
  PROVE  st[x] # "new" /\ (Task \notin Range(s) => st[x] = "posted")
<1>1. Len(s) \in Nat /\ DOMAIN s = 1..Len(s)
  BY LenProperties
<1>2. PICK i \in 1..Len(s) : s[i] = x
  BY <1>1 DEF Range
<1>3. \A j \in 1..Len(s) : s[j] \in Range(s)
  BY <1>1 DEF Range
<1> QED
  BY <1>2, <1>3 DEF Ordered

\* Operations in the queue may run while they are in it, but for those that
\* were posted.
LEMMA OrderedStays ==
  ASSUME NEW S, NEW s \in Seq(S), NEW st, NEW st2, Ordered(s, st),
         \A x \in Range(s) \ {Task} :
           /\ st2[x] = "new" => st[x] = "new"
           /\ st[x] = "posted" => st2[x] = "posted"
  PROVE  Ordered(s, st2)
<1>1. \A j \in 1..Len(s) : s[j] \in Range(s)
  BY LenProperties DEF Range
<1> QED
  BY <1>1 DEF Ordered

-----------------------------------------------------------------------------
(* Types, and what each place says about the registers.                    *)

Places == {"out", "loop", "asleep", "signal", "task", "taskDone", "complete",
           "handler", "posting", "stopping", "cleanup", "pushing", "done"}

\* TypeOK, but for the sign of the count, which WorkIsCounted gives.
Types ==
  /\ op_queue_ \in Seq(Ops \cup {Task})
  /\ outstanding_work_ \in Int
  /\ stopped_ \in BOOLEAN /\ task_ \in BOOLEAN /\ task_interrupted_ \in BOOLEAN
  /\ signalled \in BOOLEAN /\ interrupted \in BOOLEAN
  /\ holder \in Actors \cup {Nobody}
  /\ waits \in [Actors -> {"no", "asleep", "woken"}]
  /\ pc \in [Actors -> Places]
  /\ after \in [Actors -> {"out", "task", "complete", "handler", "pushing", "done"}]
  /\ current \in [Actors -> Ops \cup {Nobody}]
  /\ posting \in [Actors -> Ops \cup {Nobody}]
  /\ private_op_queue \in [Actors -> Seq(Ops)]
  /\ private_outstanding_work \in [Actors -> Nat]
  /\ blocks \in [Actors -> BOOLEAN]
  /\ stage \in [Ops -> {"new", "waits", "posted", "running", "done"}]
  /\ ready \subseteq Ops

-----------------------------------------------------------------------------
(* What the steps with several outcomes do.                                *)

\* The head of the queue is taken, and the others move up.
Ahead ==
  /\ Len(op_queue_) \in Nat \ {0}
  /\ Head(op_queue_) = op_queue_[1] /\ op_queue_[1] \in Ops \cup {Task}
  /\ op_queue_[1] \in Range(op_queue_)
  /\ Tail(op_queue_) \in Seq(Ops \cup {Task})
  /\ Len(Tail(op_queue_)) = Len(op_queue_) - 1
  /\ Len(op_queue_) <= 1 => Tail(op_queue_) = << >>
  /\ \A i \in 1..Len(Tail(op_queue_)) : Tail(op_queue_)[i] = op_queue_[i + 1]

\* A queue that is not empty has a head.
LEMMA QueueAhead ==
  ASSUME Types, op_queue_ # << >>
  PROVE  Ahead
<1>1. op_queue_ \in Seq(Ops \cup {Task})
  BY DEF Types
<1>2. /\ Len(op_queue_) \in Nat \ {0} /\ DOMAIN op_queue_ = 1..Len(op_queue_)
      /\ Tail(op_queue_) \in Seq(Ops \cup {Task})
      /\ Len(Tail(op_queue_)) = Len(op_queue_) - 1
      /\ \A i \in 1..Len(Tail(op_queue_)) : Tail(op_queue_)[i] = op_queue_[i + 1]
  BY <1>1, HeadTailProperties, EmptySeq, LenProperties
<1>3. /\ 1 \in DOMAIN op_queue_ /\ Head(op_queue_) = op_queue_[1]
      /\ op_queue_[1] \in Ops \cup {Task}
  BY <1>1, <1>2
<1>4. op_queue_[1] \in Range(op_queue_)
  BY <1>3 DEF Range
<1>5. Len(op_queue_) <= 1 => Tail(op_queue_) = << >>
  BY <1>2, EmptySeq
<1> QED
  BY <1>2, <1>3, <1>4, <1>5 DEF Ahead

\* wake_one_thread_and_unlock goes on to signal a waiter, or sees to it that
\* the thread in epoll comes back.
Woke(t, l) ==
  /\ signalled' = TRUE /\ after' = [after EXCEPT ![t] = l]
  /\ interrupted' \in BOOLEAN /\ task_interrupted_' \in BOOLEAN
  /\ \/ /\ \E u \in Actors : u # t /\ waits[u] # "no"
        /\ pc' = [pc EXCEPT ![t] = "signal"]
        /\ UNCHANGED <<task_interrupted_, interrupted>>
     \/ /\ \A u \in Actors : u # t => waits[u] = "no"
        /\ pc' = [pc EXCEPT ![t] = l]
        /\ task_interrupted_ => task_interrupted_'
        /\ interrupted => interrupted'
        /\ task_ => task_interrupted_' /\ (task_interrupted_ \/ interrupted')
        /\ ~task_ => task_interrupted_' = task_interrupted_

\* wake_one_thread_and_unlock does no more than Woke says.
LEMMA WakeDoes ==
  ASSUME Types, NEW t \in Actors, NEW l, Wake(t, l)
  PROVE  Woke(t, l)
<1> USE DEF Woke
<1>1. CASE Waiting(t) # {}
  BY <1>1 DEF Wake, Waiting, Goto, Types
<1>2. CASE Waiting(t) = {}
  <2>1. /\ interrupted' = (interrupted \/ (task_ /\ ~task_interrupted_))
        /\ task_interrupted_' = (task_interrupted_ \/ task_)
        /\ pc' = [pc EXCEPT ![t] = l]
        /\ signalled' = TRUE /\ after' = [after EXCEPT ![t] = l]
    BY Zenon, <1>2 DEF Wake, Interrupt, Goto
  <2>2. /\ interrupted' \in BOOLEAN /\ task_interrupted_' \in BOOLEAN
        /\ task_interrupted_ => task_interrupted_'
        /\ interrupted => interrupted'
        /\ task_ => task_interrupted_' /\ (task_interrupted_ \/ interrupted')
        /\ ~task_ => task_interrupted_' = task_interrupted_
    BY Zenon, <2>1 DEF Types
  <2>3. \A u \in Actors : u # t => waits[u] = "no"
    BY <1>2 DEF Waiting
  <2> QED
    BY <2>1, <2>2, <2>3
<1> QED
  BY <1>1, <1>2

\* do_run_one takes an operation.
TookOperation(t) ==
  /\ pc[t] = "loop" /\ holder \in {Nobody, t} /\ ~stopped_
  /\ op_queue_ # << >> /\ op_queue_[1] \in Ops
  /\ op_queue_' = Tail(op_queue_)
  /\ current' = [current EXCEPT ![t] = op_queue_[1]]
  /\ holder' = Nobody
  /\ UNCHANGED <<posting, outstanding_work_, stopped_, task_, waits,
                 private_op_queue, private_outstanding_work, blocks,
                 stage, ready>>
  /\ \/ /\ Len(op_queue_) <= 1 /\ pc' = [pc EXCEPT ![t] = "complete"]
        /\ UNCHANGED <<after, signalled, task_interrupted_, interrupted>>
     \/ Len(op_queue_) > 1 /\ Woke(t, "complete")

\* TakeOperation does no more than TookOperation says.
LEMMA TakeOperationDoes ==
  ASSUME Types, NEW t \in Actors, TakeOperation(t)
  PROVE  TookOperation(t)
<1> USE DEF TookOperation
<1>1. op_queue_ # << >> /\ Head(op_queue_) # Task
  BY DEF TakeOperation
<1>2. op_queue_[1] = Head(op_queue_) /\ op_queue_[1] \in Ops /\ Len(op_queue_) \in Nat
  BY <1>1, QueueAhead DEF Ahead
<1>3. CASE More
  <2>1. Wake(t, "complete") /\ Len(op_queue_) > 1
    BY <1>3 DEF TakeOperation, More
  <2>2. Woke(t, "complete")
    BY <2>1, WakeDoes
  <2> QED
    BY <1>2, <2>1, <2>2, Zenon DEF TakeOperation, Locks, opVars
<1>4. CASE ~More
  <2>1. Len(op_queue_) <= 1
    BY <1>2, <1>4 DEF More
  <2> QED
    BY <1>2, <1>4, <2>1, Zenon DEF TakeOperation, Locks, Goto, opVars
<1> QED
  BY <1>3, <1>4

\* do_run_one takes the reactor.
TookTask(t) ==
  /\ pc[t] = "loop" /\ holder \in {Nobody, t} /\ ~stopped_
  /\ op_queue_ # << >> /\ op_queue_[1] = Task
  /\ op_queue_' = Tail(op_queue_)
  /\ after' = [after EXCEPT ![t] = "task"]
  /\ holder' = Nobody
  /\ UNCHANGED <<outstanding_work_, stopped_, task_, waits, interrupted,
                 current, posting, private_op_queue,
                 private_outstanding_work, stage, ready>>
  /\ task_interrupted_' \in BOOLEAN /\ signalled' \in BOOLEAN
  /\ \/ /\ Len(op_queue_) <= 1
        /\ pc' = [pc EXCEPT ![t] = "task"]
        /\ blocks' = [blocks EXCEPT ![t] = TRUE]
        /\ ~task_interrupted_' /\ signalled' = signalled
     \/ /\ Len(op_queue_) > 1
        /\ \/ pc' = [pc EXCEPT ![t] = "signal"]
           \/ /\ pc' = [pc EXCEPT ![t] = "task"]
              /\ \A u \in Actors : u # t => waits[u] = "no"
        /\ blocks' = [blocks EXCEPT ![t] = FALSE]
        /\ task_interrupted_' /\ signalled'

\* TakeTask does no more than TookTask says.
LEMMA TakeTaskDoes ==
  ASSUME Types, NEW t \in Actors, TakeTask(t)
  PROVE  TookTask(t)
<1> USE DEF TookTask
<1>1. op_queue_ # << >> /\ Head(op_queue_) = Task
  BY DEF TakeTask
<1>2. op_queue_[1] = Task /\ Len(op_queue_) \in Nat
  BY <1>1, QueueAhead DEF Ahead
<1>3. /\ task_interrupted_' = More /\ signalled' = (signalled \/ More)
      /\ pc' = [pc EXCEPT ![t] = IF More /\ Waiting(t) # {} THEN "signal" ELSE "task"]
      /\ blocks' = [blocks EXCEPT ![t] = ~More]
  BY Zenon DEF TakeTask, Goto
<1>4. CASE More
  <2>1. (~More) = FALSE /\ task_interrupted_' = TRUE /\ signalled' = TRUE
    BY Zenon, <1>3, <1>4 DEF Types
  <2>2. blocks' = [blocks EXCEPT ![t] = FALSE]
    BY <1>3, <2>1
  <2>3. Len(op_queue_) > 1
    BY <1>4 DEF More
  <2>4. \/ pc' = [pc EXCEPT ![t] = "signal"]
        \/ /\ pc' = [pc EXCEPT ![t] = "task"]
           /\ \A u \in Actors : u # t => waits[u] = "no"
    <3>1. CASE Waiting(t) # {}
      BY Zenon, <1>3, <1>4, <3>1
    <3>2. CASE Waiting(t) = {}
      <4>1. \A u \in Actors : u # t => waits[u] = "no"
        BY <3>2 DEF Waiting
      <4> QED
        BY Zenon, <1>3, <3>2, <4>1
    <3> QED
      BY <3>1, <3>2
  <2> QED
    BY Zenon, <1>1, <1>2, <2>1, <2>2, <2>3, <2>4 DEF TakeTask, Locks, opVars
<1>5. CASE ~More
  <2>1. (~More) = TRUE /\ task_interrupted_' = FALSE /\ signalled' = signalled
    <3>1. (signalled \/ More) = signalled
      BY <1>5 DEF Types
    <3>2. More = FALSE
      BY <1>5 DEF More
    <3> QED
      BY Zenon, <1>3, <1>5, <3>1, <3>2
  <2>2. blocks' = [blocks EXCEPT ![t] = TRUE]
    BY <1>3, <2>1
  <2>3. Len(op_queue_) <= 1
    BY <1>2, <1>5 DEF More
  <2>4. pc' = [pc EXCEPT ![t] = "task"]
    BY Zenon, <1>3, <1>5
  <2> QED
    BY Zenon, <1>1, <1>2, <2>1, <2>2, <2>3, <2>4 DEF TakeTask, Locks, Types, opVars
<1> QED
  BY <1>4, <1>5

\* A thread that was woken has the mutex, or sleeps again.
Awoke(t) ==
  /\ waits[t] = "woken" /\ holder \in {Nobody, t}
  /\ UNCHANGED <<queueVars, task_interrupted_, signalled, interrupted, after,
                 current, posting, private_op_queue,
                 private_outstanding_work, blocks, stage, ready>>
  /\ \/ /\ signalled /\ waits' = [waits EXCEPT ![t] = "no"]
        /\ pc' = [pc EXCEPT ![t] = "loop"] /\ holder' = t
     \/ /\ ~signalled /\ waits' = [waits EXCEPT ![t] = "asleep"]
        /\ UNCHANGED <<pc, holder>>

\* Awake does no more than Awoke says.
LEMMA AwakeDoes ==
  ASSUME Types, NEW t \in Actors, Awake(t)
  PROVE  Awoke(t)
<1> USE DEF Awoke
<1>1. CASE signalled
  BY Zenon, <1>1 DEF Awake, Goto, Locks, opVars
<1>2. CASE ~signalled
  BY Zenon, <1>2 DEF Awake, Goto, Locks, opVars
<1> QED
  BY <1>1, <1>2

\* A signal wakes one of the sleepers, if there are any.
Signalled(t) ==
  /\ pc[t] = "signal" /\ pc' = [pc EXCEPT ![t] = after[t]]
  /\ UNCHANGED <<queueVars, task_interrupted_, signalled, interrupted,
                 holder, after, current, posting, private_op_queue,
                 private_outstanding_work, blocks, stage, ready>>
  /\ \/ waits' = waits /\ \A u \in Actors : waits[u] # "asleep"
     \/ \E u \in Actors : waits[u] = "asleep" /\ waits' = [waits EXCEPT ![u] = "woken"]

\* Signal does no more than Signalled says.
LEMMA SignalDoes ==
  ASSUME Types, NEW t \in Actors, Signal(t)
  PROVE  Signalled(t)
<1> USE DEF Signalled
<1>1. CASE Asleep = {}
  BY <1>1 DEF Signal, Asleep, Goto, opVars
<1>2. CASE Asleep # {}
  <2>1. PICK u \in Asleep : waits' = [waits EXCEPT ![u] = "woken"]
    BY <1>2 DEF Signal
  <2> QED
    BY <2>1 DEF Signal, Asleep, Goto, opVars
<1> QED
  BY <1>1, <1>2

\* epoll_wait takes every operation that is ready, each once.
RanTask(t) ==
  /\ pc[t] = "task" /\ pc' = [pc EXCEPT ![t] = "taskDone"]
  /\ ready' = {} /\ interrupted' = FALSE
  /\ UNCHANGED <<queueVars, task_interrupted_, signalled, waits, holder, after,
                 current, posting, private_outstanding_work, blocks, stage>>
  /\ \E s \in Seq(Ops) :
       /\ private_op_queue' = [private_op_queue EXCEPT ![t] = s]
       /\ IsInjective(s)
       /\ Range(s) \subseteq ready

\* RunTask does no more than RanTask says.
LEMMA RunTaskDoes ==
  ASSUME Types, NEW t \in Actors, RunTask(t)
  PROVE  RanTask(t)
<1> USE DEF RanTask
<1>1. PICK s \in [1..Cardinality(ready) -> ready] :
        /\ \A i, j \in DOMAIN s : s[i] = s[j] => i = j
        /\ private_op_queue' = [private_op_queue EXCEPT ![t] = s]
  BY DEF RunTask
<1>2. Cardinality(ready) \in Nat
  BY FS_Subset, FS_CardinalityType, SchedulerAssumption DEF Types
<1>3. s \in Seq(Ops) /\ Len(s) = Cardinality(ready)
  <2> DEFINE n == Cardinality(ready)
  <2>1. s \in [1..n -> Ops]
    BY DEF Types
  <2> HIDE DEF n
  <2>2. s \in Seq(Ops)
    BY <1>2, <2>1, SeqDef DEF n
  <2>3. Len(s) = n
    BY <1>2, <2>1, <2>2, LenProperties DEF n
  <2> QED
    BY <2>2, <2>3 DEF n
<1>4. IsInjective(s) /\ Range(s) \subseteq ready
  BY <1>1, <1>3 DEF IsInjective, Range
<1> QED
  BY <1>1, <1>3, <1>4 DEF RunTask, Goto

\* do_complete of an operation runs its handler, or finds nothing to do.
Performed(t) ==
  /\ pc[t] = "complete"
  /\ UNCHANGED <<queueVars, wakeVars, holder, after, current, posting,
                 private_op_queue, blocks, ready>>
  /\ \/ /\ stage[current[t]] \in {"waits", "posted"}
        /\ stage' = [stage EXCEPT ![current[t]] = "running"]
        /\ pc' = [pc EXCEPT ![t] = "handler"]
        /\ UNCHANGED private_outstanding_work
     \/ /\ stage[current[t]] # "posted"
        /\ private_outstanding_work' = [private_outstanding_work EXCEPT ![t] = @ + 1]
        /\ pc' = [pc EXCEPT ![t] = "cleanup"]
        /\ UNCHANGED stage

\* Perform does no more than Performed says.
LEMMA PerformDoes ==
  ASSUME Types, NEW t \in Actors, Perform(t)
  PROVE  Performed(t)
  BY Zenon DEF Perform, Goto, Performed

-----------------------------------------------------------------------------
(* The steps keep the invariant.                                           *)

\* Every step keeps the types.
LEMMA TypesStep ==
  ASSUME Types, Controls, [Next]_schedulerVars
  PROVE  Types'
<1> USE SchedulerAssumption DEF Actors
<1>1. CASE UNCHANGED schedulerVars
  BY <1>1 DEF schedulerVars, queueVars, wakeVars, threadVars, opVars, Types, Ahead
<1>2. ASSUME NEW t \in Actors, Run(t)
      PROVE  Types'
  BY <1>2 DEF Run, Goto, queueVars, wakeVars, threadVars, opVars, Types, Ahead,
       Places, Controls
<1>3. ASSUME NEW t \in Actors, Signal(t)
      PROVE  Types'
  <2>1. Signalled(t)
    BY <1>3, SignalDoes
  <2>2. pc' \in [Actors -> Places]
    BY <2>1 DEF Signalled, Types, Places
  <2> QED
    BY <2>1, <2>2 DEF Signalled, queueVars, wakeVars, threadVars, opVars, Types, Ahead
<1>4. ASSUME NEW t \in Actors, Stop(t)
      PROVE  Types'
  BY <1>4 DEF Stop, Goto, StopAll, Interrupt, queueVars, wakeVars, threadVars, opVars,
       Types, Ahead, Places, Controls
<1>5. ASSUME NEW t \in Actors, Leave(t)
      PROVE  Types'
  BY <1>5 DEF Leave, Goto, queueVars, wakeVars, threadVars, opVars, Types, Ahead, Places
<1>6. ASSUME NEW t \in Actors, TakeTask(t)
      PROVE  Types'
  <2>1. TookTask(t)
    BY <1>6, TakeTaskDoes
  <2>2. Ahead
    BY <2>1, QueueAhead DEF TookTask
  <2>3. \E l \in {"signal", "task"} : pc' = [pc EXCEPT ![t] = l]
    BY <2>1 DEF TookTask
  <2>4. pc' \in [Actors -> Places]
    BY <2>3 DEF Types, Places
  <2>5. after' \in [Actors -> {"out", "task", "complete", "handler", "pushing", "done"}]
    BY <2>1 DEF TookTask, Types
  <2>6. blocks' \in [Actors -> BOOLEAN]
    BY <2>1 DEF TookTask, Types
  <2> QED
    BY <2>1, <2>2, <2>3, <2>4, <2>5, <2>6 DEF TookTask, queueVars, wakeVars,
         threadVars, opVars, Types, Ahead
<1>7. ASSUME NEW t \in Actors, TakeOperation(t)
      PROVE  Types'
  <2>1. TookOperation(t)
    BY <1>7, TakeOperationDoes
  <2>2. Ahead
    BY <2>1, QueueAhead DEF TookOperation
  <2>3. \E l \in {"signal", "complete"} : pc' = [pc EXCEPT ![t] = l]
    BY <2>1 DEF TookOperation, Woke
  <2>4. pc' \in [Actors -> Places]
    BY <2>3 DEF Types, Places
  <2>5. after' \in [Actors -> {"out", "task", "complete", "handler", "pushing", "done"}]
    BY <2>1 DEF TookOperation, Woke, Types
  <2>6. signalled' \in BOOLEAN /\ interrupted' \in BOOLEAN /\ task_interrupted_' \in BOOLEAN
    BY <2>1 DEF TookOperation, Woke, Types
  <2> QED
    BY <2>1, <2>2, <2>3, <2>4, <2>5, <2>6 DEF TookOperation, Woke, queueVars,
         wakeVars, threadVars, opVars, Types, Ahead
<1>8. ASSUME NEW t \in Actors, Sleep(t)
      PROVE  Types'
  BY <1>8 DEF Sleep, Goto, queueVars, wakeVars, threadVars, opVars, Types, Ahead, Places
<1>9. ASSUME NEW t \in Actors, Awake(t)
      PROVE  Types'
  <2>1. Awoke(t)
    BY <1>9, AwakeDoes
  <2>2. pc' \in [Actors -> Places]
    BY <2>1 DEF Awoke, Types, Places
  <2> QED
    BY <2>1, <2>2 DEF Awoke, queueVars, wakeVars, threadVars, opVars, Types, Ahead
<1>10. ASSUME NEW t \in Actors, RunTask(t)
      PROVE  Types'
  <2>1. RanTask(t)
    BY <1>10, RunTaskDoes
  <2>2. pc' \in [Actors -> Places]
    BY <2>1 DEF RanTask, Types, Places
  <2>3. private_op_queue' \in [Actors -> Seq(Ops)]
    BY <2>1 DEF RanTask, Types
  <2> QED
    BY <2>1, <2>2, <2>3 DEF RanTask, queueVars, wakeVars, threadVars, opVars, Types,
         Ahead
<1>11. ASSUME NEW t \in Actors, TaskCleanup(t)
      PROVE  Types'
  BY <1>11 DEF TaskCleanup, Goto, queueVars, wakeVars, threadVars, opVars, Types,
       Ahead, Places
<1>12. ASSUME NEW t \in Actors, Perform(t)
      PROVE  Types'
  <2>1. Performed(t) /\ current[t] \in Ops
    BY <1>12, PerformDoes DEF Performed, Controls, Completing
  <2>2. \E l \in {"handler", "cleanup"} : pc' = [pc EXCEPT ![t] = l]
    BY <2>1 DEF Performed
  <2>3. pc' \in [Actors -> Places]
    BY <2>2 DEF Types, Places
  <2>4. private_outstanding_work' \in [Actors -> Nat]
    BY <2>1 DEF Performed, Types
  <2>5. stage' = stage \/ stage' = [stage EXCEPT ![current[t]] = "running"]
    BY <2>1 DEF Performed
  <2>6. stage' \in [Ops -> {"new", "waits", "posted", "running", "done"}]
    BY <2>1, <2>5 DEF Types
  <2> QED
    BY <2>1, <2>2, <2>3, <2>4, <2>5, <2>6 DEF Performed, queueVars, wakeVars,
         threadVars, opVars, Types, Ahead
<1>13. ASSUME NEW t \in Actors, Push(t)
      PROVE  Types'
  <2>1. Woke(t, Back(t)) /\ posting[t] \in Ops
    BY <1>13, WakeDoes DEF Push, Controls, Types
  <2>2. \E l \in {"signal", "out", "handler"} : pc' = [pc EXCEPT ![t] = l]
    BY <2>1 DEF Back, Woke
  <2>3. pc' \in [Actors -> Places]
    BY <2>2 DEF Types, Places
  <2>4. Back(t) \in {"out", "handler"}
    BY DEF Back
  <2>5. after' \in [Actors -> {"out", "task", "complete", "handler", "pushing", "done"}]
    BY <2>1, <2>4 DEF Woke, Types
  <2>6. signalled' \in BOOLEAN /\ interrupted' \in BOOLEAN /\ task_interrupted_' \in BOOLEAN
    BY <2>1 DEF Woke, Types
  <2> QED
    BY <1>13, <2>1, <2>2, <2>3, <2>4, <2>5, <2>6 DEF Push, Woke, Back, queueVars,
         wakeVars, threadVars, opVars, Types, Ahead
<1>14. ASSUME NEW t \in Actors, WorkCleanup(t)
      PROVE  Types'
  BY <1>14 DEF WorkCleanup, Goto, queueVars, wakeVars, threadVars, opVars, Types,
       Ahead, Places, Controls
<1>15. ASSUME NEW t \in Actors, PushPrivate(t)
      PROVE  Types'
  BY <1>15 DEF PushPrivate, Goto, queueVars, wakeVars, threadVars, opVars, Types,
       Ahead, Places
<1>16. ASSUME NEW t \in Actors, SpuriousWakeup(t)
      PROVE  Types'
  BY <1>16 DEF SpuriousWakeup, queueVars, wakeVars, threadVars, opVars, Types, Ahead,
       Places
<1>17. ASSUME NEW t \in Actors, InitTask(t)
      PROVE  Types'
  <2>1. Woke(t, Back(t))
    BY <1>17, WakeDoes DEF InitTask
  <2>2. \E l \in {"signal", "out", "handler"} : pc' = [pc EXCEPT ![t] = l]
    BY <2>1 DEF Back, Woke
  <2>3. pc' \in [Actors -> Places]
    BY <2>2 DEF Types, Places
  <2>4. Back(t) \in {"out", "handler"}
    BY DEF Back
  <2>5. after' \in [Actors -> {"out", "task", "complete", "handler", "pushing", "done"}]
    BY <2>1, <2>4 DEF Woke, Types
  <2>6. signalled' \in BOOLEAN /\ interrupted' \in BOOLEAN /\ task_interrupted_' \in BOOLEAN
    BY <2>1 DEF Woke, Types
  <2> QED
    BY <1>17, <2>1, <2>2, <2>3, <2>4, <2>5, <2>6 DEF InitTask, Woke, Back, MayPost,
         queueVars, wakeVars, threadVars, opVars, Types, Ahead
<1>18. ASSUME NEW t \in Actors, StopInHandler(t)
      PROVE  Types'
  BY <1>18 DEF StopInHandler, Goto, queueVars, wakeVars, threadVars, opVars, Types,
       Ahead, Places
<1>19. ASSUME NEW t \in Actors, HandlerReturns(t)
      PROVE  Types'
  BY <1>19 DEF HandlerReturns, Goto, queueVars, wakeVars, threadVars, opVars, Types,
       Ahead, Places
<1>20. ASSUME NEW t \in Actors, NEW o \in Ops, PostContinuation(t, o)
      PROVE  Types'
  BY <1>20 DEF PostContinuation, queueVars, wakeVars, threadVars, opVars, Types,
       Ahead, Places
<1>21. ASSUME NEW t \in Actors, NEW o \in Ops, Post(t, o)
      PROVE  Types'
  BY <1>21 DEF Post, Goto, MayPost, Back, queueVars, wakeVars, threadVars, opVars,
       Types, Ahead, Places
<1>22. ASSUME NEW t \in Actors, NEW o \in Ops, StartOp(t, o)
      PROVE  Types'
  BY <1>22 DEF StartOp, MayPost, Back, queueVars, wakeVars, threadVars, opVars, Types,
       Ahead, Places
<1>23. ASSUME NEW o \in Ops, Ready(o)
      PROVE  Types'
  BY <1>23 DEF Ready, queueVars, wakeVars, threadVars, opVars, Types, Ahead, Places
<1> QED
  BY <1>1, <1>2, <1>3, <1>4, <1>5, <1>6, <1>7, <1>8, <1>9, <1>10, <1>11, <1>12, <1>13,
       <1>14, <1>15, <1>16, <1>17, <1>18, <1>19, <1>20, <1>21, <1>22, <1>23 DEF Next,
       Proceed, Loop

\* Every step goes where its place allows.
LEMMA ControlsStep ==
  ASSUME Types, Controls, [Next]_schedulerVars
  PROVE  Controls'
<1> USE SchedulerAssumption DEF Actors
<1>1. CASE UNCHANGED schedulerVars
  BY <1>1 DEF schedulerVars, queueVars, wakeVars, threadVars, opVars, Types, Controls,
       Completing, Counting, InHandler
<1>2. ASSUME NEW t \in Actors, Run(t)
      PROVE  Controls'
  BY <1>2 DEF Run, Goto, queueVars, wakeVars, threadVars, opVars, Types, Controls,
       Completing, Counting, InHandler
<1>3. ASSUME NEW t \in Actors, Signal(t)
      PROVE  Controls'
  <2>1. Signalled(t)
    BY <1>3, SignalDoes
  <2> QED
    BY <2>1 DEF Signalled, queueVars, wakeVars, threadVars, opVars, Types, Controls,
         Completing, Counting, InHandler
<1>4. ASSUME NEW t \in Actors, Stop(t)
      PROVE  Controls'
  BY <1>4 DEF Stop, Goto, StopAll, Interrupt, queueVars, wakeVars, threadVars, opVars,
       Types, Controls, Completing, Counting, InHandler
<1>5. ASSUME NEW t \in Actors, Leave(t)
      PROVE  Controls'
  BY <1>5 DEF Leave, Goto, queueVars, wakeVars, threadVars, opVars, Types, Controls,
       Completing, Counting, InHandler
<1>6. ASSUME NEW t \in Actors, TakeTask(t)
      PROVE  Controls'
  <2>1. TookTask(t)
    BY <1>6, TakeTaskDoes
  <2>2. Ahead
    BY <2>1, QueueAhead DEF TookTask
  <2> QED
    BY <2>1, <2>2 DEF TookTask, queueVars, wakeVars, threadVars, opVars, Types,
         Controls, Completing, Counting, InHandler
<1>7. ASSUME NEW t \in Actors, TakeOperation(t)
      PROVE  Controls'
  <2>1. TookOperation(t)
    BY <1>7, TakeOperationDoes
  <2>2. /\ pc[t] = "loop" /\ UNCHANGED <<posting, waits>> /\ t \in Threads
          /\ op_queue_[1] \in Ops
        /\ current' = [current EXCEPT ![t] = op_queue_[1]]
    BY <2>1 DEF TookOperation, Controls
  <2>3. \/ pc' = [pc EXCEPT ![t] = "complete"] /\ after' = after
        \/ /\ \E l \in {"signal", "complete"} : pc' = [pc EXCEPT ![t] = l]
           /\ after' = [after EXCEPT ![t] = "complete"]
    BY <2>1 DEF TookOperation, Woke
  <2>4. CASE pc' = [pc EXCEPT ![t] = "complete"]
    BY <2>2, <2>3, <2>4 DEF Types, Controls, Completing, Counting, InHandler
  <2>5. CASE /\ pc' = [pc EXCEPT ![t] = "signal"]
             /\ after' = [after EXCEPT ![t] = "complete"]
    BY <2>2, <2>5 DEF Types, Controls, Completing, Counting, InHandler
  <2> QED
    BY <2>3, <2>4, <2>5
<1>8. ASSUME NEW t \in Actors, Sleep(t)
      PROVE  Controls'
  BY <1>8 DEF Sleep, Goto, queueVars, wakeVars, threadVars, opVars, Types, Controls,
       Completing, Counting, InHandler
<1>9. ASSUME NEW t \in Actors, Awake(t)
      PROVE  Controls'
  <2>1. Awoke(t)
    BY <1>9, AwakeDoes
  <2>2. pc[t] = "asleep" /\ UNCHANGED <<after, current, posting>>
    BY <2>1 DEF Awoke, Controls
  <2>3. CASE pc' = pc /\ waits' = [waits EXCEPT ![t] = "asleep"]
    BY <2>2, <2>3 DEF Types, Controls, Completing, Counting, InHandler
  <2>4. CASE pc' = [pc EXCEPT ![t] = "loop"] /\ waits' = [waits EXCEPT ![t] = "no"]
    BY <2>2, <2>4 DEF Types, Controls, Completing, Counting, InHandler
  <2> QED
    BY <2>1, <2>3, <2>4 DEF Awoke
<1>10. ASSUME NEW t \in Actors, RunTask(t)
      PROVE  Controls'
  <2>1. RanTask(t)
    BY <1>10, RunTaskDoes
  <2> QED
    BY <2>1 DEF RanTask, queueVars, wakeVars, threadVars, opVars, Types, Controls,
         Completing, Counting, InHandler
<1>11. ASSUME NEW t \in Actors, TaskCleanup(t)
      PROVE  Controls'
  BY <1>11 DEF TaskCleanup, Goto, queueVars, wakeVars, threadVars, opVars, Types,
       Controls, Completing, Counting, InHandler
<1>12. ASSUME NEW t \in Actors, Perform(t)
      PROVE  Controls'
  <2>1. Performed(t) /\ current[t] \in Ops /\ t \in Threads
    BY <1>12, PerformDoes DEF Performed, Controls, Completing
  <2>2. pc[t] = "complete" /\ UNCHANGED <<after, current, posting, waits>>
    BY <2>1 DEF Performed, wakeVars
  <2>3. \E l \in {"handler", "cleanup"} : pc' = [pc EXCEPT ![t] = l]
    BY <2>1 DEF Performed
  <2> QED
    BY <2>1, <2>2, <2>3 DEF Types, Controls, Completing, Counting, InHandler
<1>13. ASSUME NEW t \in Actors, Push(t)
      PROVE  Controls'
  <2>1. Woke(t, Back(t)) /\ posting[t] \in Ops
    BY <1>13, WakeDoes DEF Push, Controls, Types
  <2> QED
    BY <1>13, <2>1 DEF Push, Woke, Back, queueVars, wakeVars, threadVars, opVars,
         Types, Controls, Completing, Counting, InHandler
<1>14. ASSUME NEW t \in Actors, WorkCleanup(t)
      PROVE  Controls'
  BY <1>14 DEF WorkCleanup, Goto, queueVars, wakeVars, threadVars, opVars, Types,
       Controls, Completing, Counting, InHandler
<1>15. ASSUME NEW t \in Actors, PushPrivate(t)
      PROVE  Controls'
  BY <1>15 DEF PushPrivate, Goto, queueVars, wakeVars, threadVars, opVars, Types,
       Controls, Completing, Counting, InHandler
<1>16. ASSUME NEW t \in Actors, SpuriousWakeup(t)
      PROVE  Controls'
  BY <1>16 DEF SpuriousWakeup, queueVars, wakeVars, threadVars, opVars, Types,
       Controls, Completing, Counting, InHandler
<1>17. ASSUME NEW t \in Actors, InitTask(t)
      PROVE  Controls'
  <2>1. Woke(t, Back(t))
    BY <1>17, WakeDoes DEF InitTask
  <2> QED
    BY <1>17, <2>1 DEF InitTask, Woke, Back, MayPost, queueVars, wakeVars, threadVars,
         opVars, Types, Controls, Completing, Counting, InHandler
<1>18. ASSUME NEW t \in Actors, StopInHandler(t)
      PROVE  Controls'
  BY <1>18 DEF StopInHandler, Goto, queueVars, wakeVars, threadVars, opVars, Types,
       Controls, Completing, Counting, InHandler
<1>19. ASSUME NEW t \in Actors, HandlerReturns(t)
      PROVE  Controls'
  BY <1>19 DEF HandlerReturns, Goto, queueVars, wakeVars, threadVars, opVars, Types,
       Controls, Completing, Counting, InHandler
<1>20. ASSUME NEW t \in Actors, NEW o \in Ops, PostContinuation(t, o)
      PROVE  Controls'
  BY <1>20 DEF PostContinuation, queueVars, wakeVars, threadVars, opVars, Types,
       Controls, Completing, Counting, InHandler
<1>21. ASSUME NEW t \in Actors, NEW o \in Ops, Post(t, o)
      PROVE  Controls'
  BY <1>21 DEF Post, Goto, MayPost, Back, queueVars, wakeVars, threadVars, opVars,
       Types, Controls, Completing, Counting, InHandler
<1>22. ASSUME NEW t \in Actors, NEW o \in Ops, StartOp(t, o)
      PROVE  Controls'
  BY <1>22 DEF StartOp, MayPost, Back, queueVars, wakeVars, threadVars, opVars, Types,
       Controls, Completing, Counting, InHandler
<1>23. ASSUME NEW o \in Ops, Ready(o)
      PROVE  Controls'
  BY <1>23 DEF Ready, queueVars, wakeVars, threadVars, opVars, Types, Controls,
       Completing, Counting, InHandler
<1> QED
  BY <1>1, <1>2, <1>3, <1>4, <1>5, <1>6, <1>7, <1>8, <1>9, <1>10, <1>11, <1>12, <1>13,
       <1>14, <1>15, <1>16, <1>17, <1>18, <1>19, <1>20, <1>21, <1>22, <1>23 DEF Next,
       Proceed, Loop

\* One more in the queue.
LEMMA QueueGrows ==
  ASSUME Types, NEW x \in Ops \cup {Task}
  PROVE  /\ Range(Append(op_queue_, x)) = Range(op_queue_) \cup {x}
         /\ IsInjective(op_queue_) /\ x \notin Range(op_queue_)
              => IsInjective(Append(op_queue_, x))
<1> DEFINE S == Ops \cup {Task}
           q == op_queue_
<1>1. q \in Seq(S) /\ x \in S
  BY DEF Types
<1> HIDE DEF S, q
<1>2. /\ Range(Append(q, x)) = Range(q) \cup {x}
      /\ IsInjective(q) /\ x \notin Range(q) => IsInjective(Append(q, x))
  BY <1>1, RangeOfMore
<1> QED
  BY <1>2 DEF q

\* The private queue of a thread goes to the end of the queue.
LEMMA QueuePushed ==
  ASSUME Types, NEW t \in Actors
  PROVE  /\ private_op_queue[t] \in Seq(Ops \cup {Task})
         /\ Range(private_op_queue[t]) \subseteq Ops
         /\ Range(op_queue_ \o private_op_queue[t]) =
              Range(op_queue_) \cup Range(private_op_queue[t])
         /\ Range(op_queue_ \o private_op_queue[t] \o <<Task>>) =
              Range(op_queue_) \cup Range(private_op_queue[t]) \cup {Task}
         /\ /\ IsInjective(op_queue_) /\ IsInjective(private_op_queue[t])
            /\ Range(op_queue_) \cap Range(private_op_queue[t]) = {}
            => /\ IsInjective(op_queue_ \o private_op_queue[t])
               /\ Task \notin Range(op_queue_)
                    => IsInjective(op_queue_ \o private_op_queue[t] \o <<Task>>)
<1> DEFINE s == op_queue_
           r == private_op_queue[t]
           S == Ops \cup {Task}
<1>1. s \in Seq(S) /\ r \in Seq(Ops) /\ Task \in S
  BY DEF Types
<1>2. r \in Seq(S)
  BY <1>1
<1>3. Range(r) \subseteq Ops
  BY <1>1, ElementOfSeq, LenProperties DEF Range
<1> HIDE DEF s, r, S
<1>4. s \o r \in Seq(S) /\ (s \o r) \o <<Task>> = Append(s \o r, Task)
  BY <1>1, <1>2, ConcatProperties, AppendIsConcat
<1>5. Range(s \o r) = Range(s) \cup Range(r)
  BY <1>1, <1>2, RangeOfBoth
<1> DEFINE c == s \o r
<1>8. c \in Seq(S) /\ c \o <<Task>> = Append(c, Task) /\ Range(c) = Range(s) \cup Range(r)
  BY <1>4, <1>5
<1> HIDE DEF c
<1>9. /\ Range(Append(c, Task)) = Range(c) \cup {Task}
      /\ (IsInjective(c) /\ Task \notin Range(c)) => IsInjective(Append(c, Task))
  BY <1>1, <1>8, RangeOfMore
<1>6. Range(c \o <<Task>>) = Range(s) \cup Range(r) \cup {Task}
  BY <1>8, <1>9
<1>7. ASSUME IsInjective(s), IsInjective(r), Range(s) \cap Range(r) = {}
      PROVE  /\ IsInjective(c)
             /\ Task \notin Range(s) => IsInjective(c \o <<Task>>)
  <2>1. IsInjective(c)
    BY <1>1, <1>2, <1>7, RangeOfBoth DEF c
  <2>2. Task \notin Range(r)
    BY <1>3, SchedulerAssumption
  <2> QED
    BY <1>8, <1>9, <2>1, <2>2
<1> QED
  BY <1>2, <1>3, <1>8, <1>6, <1>7 DEF c, s, r, S

\* Every step keeps the reactor in one place.
LEMMA TaskOnceStep ==
  ASSUME Types, Controls, TaskOnce, QueuesDistinct, [Next]_schedulerVars
  PROVE  TaskOnce'
<1> USE SchedulerAssumption DEF Actors
<1>1. CASE UNCHANGED schedulerVars
  BY <1>1 DEF schedulerVars, queueVars, wakeVars, threadVars, opVars, Types, TaskOnce,
       InReactor, InQueue
<1>2. ASSUME NEW t \in Actors, Run(t)
      PROVE  TaskOnce'
  BY <1>2 DEF Run, Goto, queueVars, wakeVars, threadVars, opVars, Types, TaskOnce,
       InReactor, InQueue
<1>3. ASSUME NEW t \in Actors, Signal(t)
      PROVE  TaskOnce'
  <2>1. Signalled(t)
    BY <1>3, SignalDoes
  <2> QED
    BY <2>1 DEF Signalled, queueVars, wakeVars, threadVars, opVars, Types, TaskOnce,
         InReactor, InQueue
<1>4. ASSUME NEW t \in Actors, Stop(t)
      PROVE  TaskOnce'
  <2>1. \A u \in Actors : InReactor(u)' <=> InReactor(u)
    BY <1>4 DEF Stop, Goto, Controls, Types, InReactor
  <2> QED
    BY <1>4, <2>1 DEF Stop, StopAll, Interrupt, TaskOnce, InQueue
<1>5. ASSUME NEW t \in Actors, Leave(t)
      PROVE  TaskOnce'
  BY <1>5 DEF Leave, Goto, queueVars, wakeVars, threadVars, opVars, Types, TaskOnce,
       InReactor, InQueue
<1>6. ASSUME NEW t \in Actors, TakeTask(t)
      PROVE  TaskOnce'
  <2>1. TookTask(t)
    BY <1>6, TakeTaskDoes
  <2>2. Ahead
    BY <2>1, QueueAhead DEF TookTask
  <2>3. Range(op_queue_)' = Range(op_queue_) \ {Task} /\ Task \in Range(op_queue_)
    BY <2>1, RangeOfTail DEF TookTask, Types, QueuesDistinct
  <2> QED
    BY <2>1, <2>2, <2>3 DEF TookTask, queueVars, wakeVars, threadVars, opVars, Types,
         TaskOnce, InReactor, InQueue, Ahead
<1>7. ASSUME NEW t \in Actors, TakeOperation(t)
      PROVE  TaskOnce'
  <2>1. TookOperation(t)
    BY <1>7, TakeOperationDoes
  <2>2. Ahead
    BY <2>1, QueueAhead DEF TookOperation
  <2>3. Range(op_queue_)' = Range(op_queue_) \ {op_queue_[1]}
          /\ op_queue_[1] \in Range(op_queue_)
    BY <2>1, RangeOfTail DEF TookOperation, Types, QueuesDistinct
  <2>4. \A u \in Actors : InReactor(u)' <=> InReactor(u)
    BY <2>1 DEF TookOperation, Woke, Types, InReactor
  <2> QED
    BY <1>7, <2>1, <2>2, <2>3, <2>4 DEF TookOperation, TaskOnce, InQueue
<1>8. ASSUME NEW t \in Actors, Sleep(t)
      PROVE  TaskOnce'
  BY <1>8 DEF Sleep, Goto, queueVars, wakeVars, threadVars, opVars, Types, TaskOnce,
       InReactor, InQueue
<1>9. ASSUME NEW t \in Actors, Awake(t)
      PROVE  TaskOnce'
  <2>1. Awoke(t)
    BY <1>9, AwakeDoes
  <2>2. \A u \in Actors : InReactor(u)' <=> InReactor(u)
    BY <2>1 DEF Awoke, Types, InReactor, Controls
  <2> QED
    BY <1>9, <2>1, <2>2 DEF Awoke, queueVars, TaskOnce, InQueue
<1>10. ASSUME NEW t \in Actors, RunTask(t)
      PROVE  TaskOnce'
  <2>1. RanTask(t)
    BY <1>10, RunTaskDoes
  <2> QED
    BY <2>1 DEF RanTask, queueVars, wakeVars, threadVars, opVars, Types, TaskOnce,
         InReactor, InQueue
<1>11. ASSUME NEW t \in Actors, TaskCleanup(t)
      PROVE  TaskOnce'
  <2>1. Range(op_queue_)'
          = Range(op_queue_) \cup Range(private_op_queue[t]) \cup {Task}
                  /\ Range(private_op_queue[t]) \subseteq Ops
    BY <1>11, QueuePushed DEF TaskCleanup
  <2> QED
    BY <1>11, <2>1 DEF TaskCleanup, Goto, queueVars, wakeVars, threadVars, opVars,
         Types, TaskOnce, InReactor, InQueue
<1>12. ASSUME NEW t \in Actors, Perform(t)
      PROVE  TaskOnce'
  <2>1. Performed(t) /\ current[t] \in Ops
    BY <1>12, PerformDoes DEF Performed, Controls, Completing
  <2>2. \A u \in Actors : InReactor(u)' <=> InReactor(u)
    BY <2>1 DEF Performed, Types, InReactor
  <2> QED
    BY <1>12, <2>1, <2>2 DEF Performed, queueVars, TaskOnce, InQueue
<1>13. ASSUME NEW t \in Actors, Push(t)
      PROVE  TaskOnce'
  <2>1. Woke(t, Back(t)) /\ posting[t] \in Ops
    BY <1>13, WakeDoes DEF Push, Controls, Types
  <2>2. /\ op_queue_' = Append(op_queue_, posting[t])
        /\ posting[t] \in Ops \cup {Task}
    BY <1>13, <2>1 DEF Push
  <2>3. Range(Append(op_queue_, posting[t])) = Range(op_queue_) \cup {posting[t]}
    BY <2>2, QueueGrows
  <2>4. Range(op_queue_)' = Range(op_queue_) \cup {posting[t]}
    BY <2>2, <2>3
  <2>5. \A u \in Actors : InReactor(u)' <=> InReactor(u)
    BY <1>13, <2>1 DEF Push, Woke, Back, Types, InReactor
  <2> QED
    BY <1>13, <2>1, <2>2, <2>3, <2>4, <2>5 DEF Push, TaskOnce, InQueue
<1>14. ASSUME NEW t \in Actors, WorkCleanup(t)
      PROVE  TaskOnce'
  BY <1>14 DEF WorkCleanup, Goto, queueVars, wakeVars, threadVars, opVars, Types,
       TaskOnce, InReactor, InQueue
<1>15. ASSUME NEW t \in Actors, PushPrivate(t)
      PROVE  TaskOnce'
  <2>1. Range(op_queue_)' = Range(op_queue_) \cup Range(private_op_queue[t])
          /\ Range(private_op_queue[t]) \subseteq Ops
    BY <1>15, QueuePushed DEF PushPrivate
  <2> QED
    BY <1>15, <2>1 DEF PushPrivate, Goto, queueVars, wakeVars, threadVars, opVars,
         Types, TaskOnce, InReactor, InQueue
<1>16. ASSUME NEW t \in Actors, SpuriousWakeup(t)
      PROVE  TaskOnce'
  BY <1>16 DEF SpuriousWakeup, queueVars, wakeVars, threadVars, opVars, Types,
       TaskOnce, InReactor, InQueue
<1>17. ASSUME NEW t \in Actors, InitTask(t)
      PROVE  TaskOnce'
  <2>1. Woke(t, Back(t))
    BY <1>17, WakeDoes DEF InitTask
  <2>2. Range(op_queue_)' = Range(op_queue_) \cup {Task}
    BY <1>17, QueueGrows DEF InitTask
  <2> QED
    BY <1>17, <2>1, <2>2 DEF InitTask, Woke, Back, MayPost, queueVars, wakeVars,
         threadVars, opVars, Types, TaskOnce, InReactor, InQueue
<1>18. ASSUME NEW t \in Actors, StopInHandler(t)
      PROVE  TaskOnce'
  BY <1>18 DEF StopInHandler, Goto, queueVars, wakeVars, threadVars, opVars, Types,
       TaskOnce, InReactor, InQueue
<1>19. ASSUME NEW t \in Actors, HandlerReturns(t)
      PROVE  TaskOnce'
  BY <1>19 DEF HandlerReturns, Goto, queueVars, wakeVars, threadVars, opVars, Types,
       TaskOnce, InReactor, InQueue
<1>20. ASSUME NEW t \in Actors, NEW o \in Ops, PostContinuation(t, o)
      PROVE  TaskOnce'
  BY <1>20 DEF PostContinuation, queueVars, wakeVars, threadVars, opVars, Types,
       TaskOnce, InReactor, InQueue
<1>21. ASSUME NEW t \in Actors, NEW o \in Ops, Post(t, o)
      PROVE  TaskOnce'
  BY <1>21 DEF Post, Goto, MayPost, Back, queueVars, wakeVars, threadVars, opVars,
       Types, TaskOnce, InReactor, InQueue
<1>22. ASSUME NEW t \in Actors, NEW o \in Ops, StartOp(t, o)
      PROVE  TaskOnce'
  BY <1>22 DEF StartOp, MayPost, Back, queueVars, wakeVars, threadVars, opVars, Types,
       TaskOnce, InReactor, InQueue
<1>23. ASSUME NEW o \in Ops, Ready(o)
      PROVE  TaskOnce'
  BY <1>23 DEF Ready, queueVars, wakeVars, threadVars, opVars, Types, TaskOnce,
       InReactor, InQueue
<1> QED
  BY <1>1, <1>2, <1>3, <1>4, <1>5, <1>6, <1>7, <1>8, <1>9, <1>10, <1>11, <1>12, <1>13,
       <1>14, <1>15, <1>16, <1>17, <1>18, <1>19, <1>20, <1>21, <1>22, <1>23 DEF Next,
       Proceed, Loop

\* Every step keeps an operation in one handler.
LEMMA RunsOnceStep ==
  ASSUME Types, Controls, RunsOnce, [Next]_schedulerVars
  PROVE  RunsOnce'
<1> USE SchedulerAssumption DEF Actors
<1>1. CASE UNCHANGED schedulerVars
  BY <1>1 DEF schedulerVars, queueVars, wakeVars, threadVars, opVars, Types, Controls,
       RunsOnce, InHandler, Counting
<1>2. ASSUME NEW t \in Actors, Run(t)
      PROVE  RunsOnce'
  BY <1>2 DEF Run, Goto, queueVars, wakeVars, threadVars, opVars, Types, Controls,
       RunsOnce, InHandler, Counting
<1>3. ASSUME NEW t \in Actors, Signal(t)
      PROVE  RunsOnce'
  <2>1. Signalled(t)
    BY <1>3, SignalDoes
  <2>2. \A u \in Actors : InHandler(u)' <=> InHandler(u)
    BY <2>1 DEF Signalled, Types, InHandler, Controls
  <2> QED
    BY <1>3, <2>1, <2>2 DEF Signalled, RunsOnce, Types
<1>4. ASSUME NEW t \in Actors, Stop(t)
      PROVE  RunsOnce'
  <2>1. \A u \in Actors : InHandler(u)' <=> InHandler(u)
    BY <1>4 DEF Stop, Goto, Types, InHandler, Controls
  <2> QED
    BY <1>4, <2>1 DEF Stop, opVars, RunsOnce, Types
<1>5. ASSUME NEW t \in Actors, Leave(t)
      PROVE  RunsOnce'
  BY <1>5 DEF Leave, Goto, queueVars, wakeVars, threadVars, opVars, Types, Controls,
       RunsOnce, InHandler, Counting
<1>6. ASSUME NEW t \in Actors, TakeTask(t)
      PROVE  RunsOnce'
  <2>1. TookTask(t)
    BY <1>6, TakeTaskDoes
  <2>2. Ahead
    BY <2>1, QueueAhead DEF TookTask
  <2>3. \A u \in Actors : InHandler(u)' <=> InHandler(u)
    BY <2>1 DEF TookTask, Types, InHandler
  <2> QED
    BY <1>6, <2>1, <2>2, <2>3 DEF TookTask, RunsOnce, Types
<1>7. ASSUME NEW t \in Actors, TakeOperation(t)
      PROVE  RunsOnce'
  <2>1. TookOperation(t)
    BY <1>7, TakeOperationDoes
  <2>2. Ahead
    BY <2>1, QueueAhead DEF TookOperation
  <2>3. \A u \in Actors : InHandler(u)' <=> InHandler(u)
    BY <2>1 DEF TookOperation, Woke, Types, InHandler
  <2>4. ~InHandler(t)
    BY <2>1 DEF TookOperation, InHandler
  <2> QED
    BY <1>7, <2>1, <2>2, <2>3, <2>4 DEF TookOperation, RunsOnce, Types
<1>8. ASSUME NEW t \in Actors, Sleep(t)
      PROVE  RunsOnce'
  BY <1>8 DEF Sleep, Goto, queueVars, wakeVars, threadVars, opVars, Types, Controls,
       RunsOnce, InHandler, Counting
<1>9. ASSUME NEW t \in Actors, Awake(t)
      PROVE  RunsOnce'
  <2>1. Awoke(t)
    BY <1>9, AwakeDoes
  <2>2. \A u \in Actors : InHandler(u)' <=> InHandler(u)
    BY <2>1 DEF Awoke, Types, InHandler, Controls
  <2> QED
    BY <1>9, <2>1, <2>2 DEF Awoke, RunsOnce, Types
<1>10. ASSUME NEW t \in Actors, RunTask(t)
      PROVE  RunsOnce'
  <2>1. RanTask(t)
    BY <1>10, RunTaskDoes
  <2>2. \A u \in Actors : InHandler(u)' <=> InHandler(u)
    BY <2>1 DEF RanTask, Types, InHandler, Controls
  <2> QED
    BY <1>10, <2>1, <2>2 DEF RanTask, RunsOnce, Types
<1>11. ASSUME NEW t \in Actors, TaskCleanup(t)
      PROVE  RunsOnce'
  BY <1>11 DEF TaskCleanup, Goto, queueVars, wakeVars, threadVars, opVars, Types,
       Controls, RunsOnce, InHandler, Counting
<1>12. ASSUME NEW t \in Actors, Perform(t)
      PROVE  RunsOnce'
  <2>1. Performed(t) /\ current[t] \in Ops
    BY <1>12, PerformDoes DEF Performed, Controls, Completing
  <2>2. ~InHandler(t) /\ current' = current
    BY <2>1 DEF Performed, InHandler
  <2>3. \A u \in Actors \ {t} : InHandler(u)' <=> InHandler(u)
    BY <2>1 DEF Performed, Types, InHandler
  <2>4. \/ stage' = stage /\ ~InHandler(t)'
        \/ /\ stage[current[t]] \in {"waits", "posted"}
           /\ stage' = [stage EXCEPT ![current[t]] = "running"]
    BY <2>1 DEF Performed, Types, InHandler
  <2>5. \A u \in Actors : InHandler(u) => current[u] \in Ops
    BY DEF Controls, Counting
  <2>6. \A u \in Actors : InHandler(u)' => stage'[current[u]] = "running"
    BY <2>1, <2>2, <2>3, <2>4, <2>5 DEF RunsOnce, Types
  <2> QED
    BY <1>12, <2>1, <2>2, <2>3, <2>4, <2>5, <2>6 DEF RunsOnce, Types
<1>13. ASSUME NEW t \in Actors, Push(t)
      PROVE  RunsOnce'
  <2>1. Woke(t, Back(t)) /\ posting[t] \in Ops
    BY <1>13, WakeDoes DEF Push, Controls, Types
  <2>2. \A u \in Actors : InHandler(u)' <=> InHandler(u)
    BY <1>13, <2>1 DEF Push, Woke, Back, Types, InHandler, Controls
  <2> QED
    BY <1>13, <2>1, <2>2 DEF Push, opVars, RunsOnce, Types
<1>14. ASSUME NEW t \in Actors, WorkCleanup(t)
      PROVE  RunsOnce'
  BY <1>14 DEF WorkCleanup, Goto, queueVars, wakeVars, threadVars, opVars, Types,
       Controls, RunsOnce, InHandler, Counting
<1>15. ASSUME NEW t \in Actors, PushPrivate(t)
      PROVE  RunsOnce'
  BY <1>15 DEF PushPrivate, Goto, queueVars, wakeVars, threadVars, opVars, Types,
       Controls, RunsOnce, InHandler, Counting
<1>16. ASSUME NEW t \in Actors, SpuriousWakeup(t)
      PROVE  RunsOnce'
  BY <1>16 DEF SpuriousWakeup, queueVars, wakeVars, threadVars, opVars, Types,
       Controls, RunsOnce, InHandler, Counting
<1>17. ASSUME NEW t \in Actors, InitTask(t)
      PROVE  RunsOnce'
  <2>1. Woke(t, Back(t))
    BY <1>17, WakeDoes DEF InitTask
  <2>2. \A u \in Actors : InHandler(u)' <=> InHandler(u)
    BY <1>17, <2>1 DEF InitTask, Woke, Back, MayPost, Types, InHandler, Controls
  <2> QED
    BY <1>17, <2>1, <2>2 DEF InitTask, opVars, RunsOnce, Types
<1>18. ASSUME NEW t \in Actors, StopInHandler(t)
      PROVE  RunsOnce'
  <2>1. \A u \in Actors : InHandler(u)' <=> InHandler(u)
    BY <1>18 DEF StopInHandler, Goto, Types, InHandler, Controls
  <2> QED
    BY <1>18, <2>1 DEF StopInHandler, opVars, RunsOnce, Types
<1>19. ASSUME NEW t \in Actors, HandlerReturns(t)
      PROVE  RunsOnce'
  <2>1. InHandler(t) /\ ~InHandler(t)' /\ current' = current /\ current[t] \in Ops
    BY <1>19 DEF HandlerReturns, Goto, InHandler, Types, Controls, Counting
  <2>2. \A u \in Actors \ {t} : InHandler(u)' <=> InHandler(u)
    BY <1>19 DEF HandlerReturns, Goto, Types, InHandler
  <2>3. \A u \in Actors : InHandler(u)' => stage'[current[u]] = "running"
    BY <1>19, <2>1, <2>2 DEF HandlerReturns, RunsOnce, Types, Controls, Counting
  <2> QED
    BY <1>19, <2>1, <2>2, <2>3 DEF RunsOnce, Types
<1>20. ASSUME NEW t \in Actors, NEW o \in Ops, PostContinuation(t, o)
      PROVE  RunsOnce'
  BY <1>20 DEF PostContinuation, queueVars, wakeVars, threadVars, opVars, Types,
       Controls, RunsOnce, InHandler, Counting
<1>21. ASSUME NEW t \in Actors, NEW o \in Ops, Post(t, o)
      PROVE  RunsOnce'
  <2>1. \A u \in Actors : InHandler(u)' <=> InHandler(u)
    BY <1>21 DEF Post, MayPost, Back, Goto, Types, InHandler, Controls
  <2> QED
    BY <1>21, <2>1 DEF Post, opVars, RunsOnce, Types
<1>22. ASSUME NEW t \in Actors, NEW o \in Ops, StartOp(t, o)
      PROVE  RunsOnce'
  BY <1>22 DEF StartOp, MayPost, Back, queueVars, wakeVars, threadVars, opVars, Types,
       Controls, RunsOnce, InHandler, Counting
<1>23. ASSUME NEW o \in Ops, Ready(o)
      PROVE  RunsOnce'
  BY <1>23 DEF Ready, queueVars, wakeVars, threadVars, opVars, Types, Controls,
       RunsOnce, InHandler, Counting
<1> QED
  BY <1>1, <1>2, <1>3, <1>4, <1>5, <1>6, <1>7, <1>8, <1>9, <1>10, <1>11, <1>12, <1>13,
       <1>14, <1>15, <1>16, <1>17, <1>18, <1>19, <1>20, <1>21, <1>22, <1>23 DEF Next,
       Proceed, Loop

\* Every step keeps the private count of a thread with its private queue.
LEMMA PrivateUseStep ==
  ASSUME Types, Controls, PrivateUse, [Next]_schedulerVars
  PROVE  PrivateUse'
<1> USE SchedulerAssumption DEF Actors
<1>1. CASE UNCHANGED schedulerVars
  BY <1>1 DEF schedulerVars, queueVars, wakeVars, threadVars, opVars, Types, Controls,
       PrivateUse, Counting, InHandler
<1>2. ASSUME NEW t \in Actors, Run(t)
      PROVE  PrivateUse'
  BY <1>2 DEF Run, Goto, queueVars, wakeVars, threadVars, opVars, Types, Controls,
       PrivateUse, Counting, InHandler
<1>3. ASSUME NEW t \in Actors, Signal(t)
      PROVE  PrivateUse'
  <2>1. Signalled(t)
    BY <1>3, SignalDoes
  <2> QED
    BY <2>1 DEF Signalled, queueVars, wakeVars, threadVars, opVars, Types, Controls,
         PrivateUse, Counting, InHandler
<1>4. ASSUME NEW t \in Actors, Stop(t)
      PROVE  PrivateUse'
  BY <1>4 DEF Stop, Goto, StopAll, Interrupt, queueVars, wakeVars, threadVars, opVars,
       Types, Controls, PrivateUse, Counting, InHandler
<1>5. ASSUME NEW t \in Actors, Leave(t)
      PROVE  PrivateUse'
  BY <1>5 DEF Leave, Goto, queueVars, wakeVars, threadVars, opVars, Types, Controls,
       PrivateUse, Counting, InHandler
<1>6. ASSUME NEW t \in Actors, TakeTask(t)
      PROVE  PrivateUse'
  <2>1. TookTask(t)
    BY <1>6, TakeTaskDoes
  <2>2. Ahead
    BY <2>1, QueueAhead DEF TookTask
  <2> QED
    BY <2>1, <2>2 DEF TookTask, queueVars, wakeVars, threadVars, opVars, Types,
         Controls, PrivateUse, Counting, InHandler, Ahead
<1>7. ASSUME NEW t \in Actors, TakeOperation(t)
      PROVE  PrivateUse'
  <2>1. TookOperation(t)
    BY <1>7, TakeOperationDoes
  <2>2. Ahead
    BY <2>1, QueueAhead DEF TookOperation
  <2>3. /\ private_op_queue[t] = << >> /\ private_outstanding_work[t] = 0
        /\ UNCHANGED <<private_op_queue, private_outstanding_work>>
    BY <2>1 DEF TookOperation, Controls, PrivateUse, Counting, InHandler
  <2>4. \A u \in Actors \ {t} : pc'[u] = pc[u] /\ after'[u] = after[u]
    BY <2>1 DEF TookOperation, Woke, Types
  <2>5. ~Counting(t)'
    BY <2>1 DEF TookOperation, Woke, Types, Controls, Counting, InHandler
  <2> QED
    BY <1>7, <2>1, <2>2, <2>3, <2>4, <2>5 DEF PrivateUse, Counting, InHandler
<1>8. ASSUME NEW t \in Actors, Sleep(t)
      PROVE  PrivateUse'
  BY <1>8 DEF Sleep, Goto, queueVars, wakeVars, threadVars, opVars, Types, Controls,
       PrivateUse, Counting, InHandler
<1>9. ASSUME NEW t \in Actors, Awake(t)
      PROVE  PrivateUse'
  <2>1. Awoke(t)
    BY <1>9, AwakeDoes
  <2>2. /\ private_op_queue[t] = << >> /\ private_outstanding_work[t] = 0
        /\ UNCHANGED <<private_op_queue, private_outstanding_work>>
    BY <2>1 DEF Awoke, Controls, PrivateUse, Counting, InHandler
  <2>3. \A u \in Actors \ {t} : pc'[u] = pc[u] /\ after'[u] = after[u]
    BY <2>1 DEF Awoke, Woke, Types
  <2>4. ~Counting(t)'
    BY <2>1, ZenonT(40) DEF Awoke, Woke, Types, Controls, Counting, InHandler
  <2> QED
    BY <1>9, <2>1, <2>2, <2>3, <2>4 DEF PrivateUse, Counting, InHandler
<1>10. ASSUME NEW t \in Actors, RunTask(t)
      PROVE  PrivateUse'
  <2>1. RanTask(t)
    BY <1>10, RunTaskDoes
  <2> QED
    BY <2>1 DEF RanTask, queueVars, wakeVars, threadVars, opVars, Types, Controls,
         PrivateUse, Counting, InHandler
<1>11. ASSUME NEW t \in Actors, TaskCleanup(t)
      PROVE  PrivateUse'
  BY <1>11 DEF TaskCleanup, Goto, queueVars, wakeVars, threadVars, opVars, Types,
       Controls, PrivateUse, Counting, InHandler
<1>12. ASSUME NEW t \in Actors, Perform(t)
      PROVE  PrivateUse'
  <2>1. Performed(t) /\ current[t] \in Ops
    BY <1>12, PerformDoes DEF Performed, Controls, Completing
  <2> QED
    BY <2>1 DEF Performed, queueVars, wakeVars, threadVars, opVars, Types, Controls,
         PrivateUse, Counting, InHandler
<1>13. ASSUME NEW t \in Actors, Push(t)
      PROVE  PrivateUse'
  <2>1. Woke(t, Back(t)) /\ posting[t] \in Ops
    BY <1>13, WakeDoes DEF Push, Controls, Types
  <2> QED
    BY <1>13, <2>1 DEF Push, Woke, Back, queueVars, wakeVars, threadVars, opVars,
         Types, Controls, PrivateUse, Counting, InHandler
<1>14. ASSUME NEW t \in Actors, WorkCleanup(t)
      PROVE  PrivateUse'
  BY <1>14 DEF WorkCleanup, Goto, queueVars, wakeVars, threadVars, opVars, Types,
       Controls, PrivateUse, Counting, InHandler
<1>15. ASSUME NEW t \in Actors, PushPrivate(t)
      PROVE  PrivateUse'
  BY <1>15 DEF PushPrivate, Goto, queueVars, wakeVars, threadVars, opVars, Types,
       Controls, PrivateUse, Counting, InHandler
<1>16. ASSUME NEW t \in Actors, SpuriousWakeup(t)
      PROVE  PrivateUse'
  BY <1>16 DEF SpuriousWakeup, queueVars, wakeVars, threadVars, opVars, Types,
       Controls, PrivateUse, Counting, InHandler
<1>17. ASSUME NEW t \in Actors, InitTask(t)
      PROVE  PrivateUse'
  <2>1. Woke(t, Back(t))
    BY <1>17, WakeDoes DEF InitTask
  <2> QED
    BY <1>17, <2>1 DEF InitTask, Woke, Back, MayPost, queueVars, wakeVars, threadVars,
         opVars, Types, Controls, PrivateUse, Counting, InHandler
<1>18. ASSUME NEW t \in Actors, StopInHandler(t)
      PROVE  PrivateUse'
  BY <1>18 DEF StopInHandler, Goto, queueVars, wakeVars, threadVars, opVars, Types,
       Controls, PrivateUse, Counting, InHandler
<1>19. ASSUME NEW t \in Actors, HandlerReturns(t)
      PROVE  PrivateUse'
  BY <1>19 DEF HandlerReturns, Goto, queueVars, wakeVars, threadVars, opVars, Types,
       Controls, PrivateUse, Counting, InHandler
<1>20. ASSUME NEW t \in Actors, NEW o \in Ops, PostContinuation(t, o)
      PROVE  PrivateUse'
  BY <1>20 DEF PostContinuation, queueVars, wakeVars, threadVars, opVars, Types,
       Controls, PrivateUse, Counting, InHandler
<1>21. ASSUME NEW t \in Actors, NEW o \in Ops, Post(t, o)
      PROVE  PrivateUse'
  BY <1>21 DEF Post, Goto, MayPost, Back, queueVars, wakeVars, threadVars, opVars,
       Types, Controls, PrivateUse, Counting, InHandler
<1>22. ASSUME NEW t \in Actors, NEW o \in Ops, StartOp(t, o)
      PROVE  PrivateUse'
  BY <1>22 DEF StartOp, MayPost, Back, queueVars, wakeVars, threadVars, opVars, Types,
       Controls, PrivateUse, Counting, InHandler
<1>23. ASSUME NEW o \in Ops, Ready(o)
      PROVE  PrivateUse'
  BY <1>23 DEF Ready, queueVars, wakeVars, threadVars, opVars, Types, Controls,
       PrivateUse, Counting, InHandler
<1> QED
  BY <1>1, <1>2, <1>3, <1>4, <1>5, <1>6, <1>7, <1>8, <1>9, <1>10, <1>11, <1>12, <1>13,
       <1>14, <1>15, <1>16, <1>17, <1>18, <1>19, <1>20, <1>21, <1>22, <1>23 DEF Next,
       Proceed, Loop

-----------------------------------------------------------------------------
(* The work that is counted.                                               *)

Unfinished == {o \in Ops : stage[o] \in {"waits", "posted", "running"}}
InCleanup == {t \in Actors : pc[t] = "cleanup"}

\* What is counted is finite.
LEMMA FinitelyMany ==
  /\ IsFiniteSet(Actors)
  /\ IsFiniteSet(Unfinished) /\ Cardinality(Unfinished) \in Nat
  /\ IsFiniteSet(InCleanup) /\ Cardinality(InCleanup) \in Nat
<1>1. IsFiniteSet(Actors)
  BY FS_Union, SchedulerAssumption DEF Actors
<1>2. Unfinished \in SUBSET Ops /\ InCleanup \in SUBSET Actors
  BY DEF Unfinished, InCleanup
<1> QED
  BY <1>1, <1>2, FS_Subset, FS_CardinalityType, SchedulerAssumption

\* WorkIsCounted, with names for its sets.
LEMMA CountIs ==
  WorkIsCounted <=> (outstanding_work_ + SumFunction(private_outstanding_work) =
                       Cardinality(Unfinished) + Cardinality(InCleanup))
  BY Zenon DEF WorkIsCounted, Unfinished, InCleanup

\* A step that does not touch what is counted keeps the count.
LEMMA CountStays ==
  ASSUME WorkIsCounted, UNCHANGED <<outstanding_work_, private_outstanding_work>>,
         Unfinished' = Unfinished, InCleanup' = InCleanup
  PROVE  WorkIsCounted'
<1>1. Cardinality(Unfinished)' = Cardinality(Unfinished)
      /\ Cardinality(InCleanup)' = Cardinality(InCleanup)
      /\ SumFunction(private_outstanding_work)' = SumFunction(private_outstanding_work)
  OBVIOUS
<1>2. WorkIsCounted' <=> (outstanding_work_ + SumFunction(private_outstanding_work) =
                            Cardinality(Unfinished) + Cardinality(InCleanup))'
  BY Zenon DEF WorkIsCounted, Unfinished, InCleanup
<1> QED
  BY <1>1, <1>2, CountIs

\* The private count of t becomes v, a more are unfinished and b more are in
\* cleanup.
Moves(t, v, a, b) ==
  /\ v \in Nat /\ a \in Int /\ b \in Int
  /\ private_outstanding_work' = [private_outstanding_work EXCEPT ![t] = v]
  /\ Cardinality(Unfinished)' = Cardinality(Unfinished) + a
  /\ Cardinality(InCleanup)' = Cardinality(InCleanup) + b
  /\ outstanding_work_' = outstanding_work_ + a + b - (v - private_outstanding_work[t])

\* The counts change together.
LEMMA CountMoves ==
  ASSUME Types, WorkIsCounted, NEW t \in Actors, NEW v, NEW a, NEW b, Moves(t, v, a, b)
  PROVE  WorkIsCounted'
<1> DEFINE s == SumFunction(private_outstanding_work)
           w == private_outstanding_work[t]
           c == Cardinality(Unfinished)
           d == Cardinality(InCleanup)
<1>1. /\ private_outstanding_work \in [Actors -> Int] /\ w \in Int
      /\ outstanding_work_ \in Int
  BY DEF Types
<1>2. IsFiniteSet(Actors) /\ v \in Int
  BY FinitelyMany DEF Moves
<1>3. s \in Int /\ SumFunction([private_outstanding_work EXCEPT ![t] = v]) = s + v - w
  BY <1>1, <1>2, SumWithout
<1>4. SumFunction(private_outstanding_work)' = s + v - w
  BY <1>3 DEF Moves
<1>5. outstanding_work_ + s = c + d
  BY CountIs
<1>6. c \in Nat /\ d \in Nat
  BY FinitelyMany
<1>7. WorkIsCounted' <=> (outstanding_work_ + SumFunction(private_outstanding_work) =
                            Cardinality(Unfinished) + Cardinality(InCleanup))'
  BY Zenon DEF WorkIsCounted, Unfinished, InCleanup
<1>8. outstanding_work_' = outstanding_work_ + a + b - (v - w) /\ a \in Int /\ b \in Int
      /\ Cardinality(Unfinished)' = c + a /\ Cardinality(InCleanup)' = d + b
  BY DEF Moves
<1> HIDE DEF s, w, c, d
<1>9. outstanding_work_' + (s + v - w) = (c + a) + (d + b)
  BY <1>1, <1>2, <1>3, <1>5, <1>6, <1>8
<1> QED
  BY <1>4, <1>7, <1>8, <1>9

\* An operation that is started is one more to finish.
LEMMA OneUnfinishedMore ==
  ASSUME Types, NEW o \in Ops, stage[o] = "new",
         NEW s \in {"waits", "posted"}, stage' = [stage EXCEPT ![o] = s]
  PROVE  Cardinality(Unfinished)' = Cardinality(Unfinished) + 1
<1>1. Unfinished' = Unfinished \cup {o} /\ o \notin Unfinished
  BY DEF Unfinished, Types
<1> QED
  BY <1>1, FinitelyMany, FS_AddElement

\* A handler that returned is one more to clean up after.
LEMMA OneInCleanupMore ==
  ASSUME Types, NEW t \in Actors, pc[t] # "cleanup", pc' = [pc EXCEPT ![t] = "cleanup"]
  PROVE  Cardinality(InCleanup)' = Cardinality(InCleanup) + 1
<1>1. InCleanup' = InCleanup \cup {t} /\ t \notin InCleanup
  BY DEF InCleanup, Types
<1> QED
  BY <1>1, FinitelyMany, FS_AddElement

\* Every step keeps the work counted.
LEMMA CountStep ==
  ASSUME Types, Controls, RunsOnce, WorkIsCounted, [Next]_schedulerVars
  PROVE  WorkIsCounted'
<1> USE SchedulerAssumption DEF Actors
<1>1. CASE UNCHANGED schedulerVars
  <2>1. Unfinished' = Unfinished /\ InCleanup' = InCleanup
    BY <1>1 DEF schedulerVars, queueVars, wakeVars, threadVars, opVars, Unfinished,
         InCleanup
  <2> QED
    BY <1>1, <2>1, CountStays DEF schedulerVars, queueVars, threadVars
<1>2. ASSUME NEW t \in Actors, Run(t)
      PROVE  WorkIsCounted'
  <2>1. Unfinished' = Unfinished
          /\ UNCHANGED <<outstanding_work_, private_outstanding_work>>
    BY <1>2 DEF Run, Goto, queueVars, wakeVars, threadVars, opVars, Unfinished
  <2>2. InCleanup' = InCleanup
    BY <1>2 DEF Run, Goto, queueVars, wakeVars, threadVars, opVars, Types, Controls,
         InCleanup
  <2> QED
    BY <2>1, <2>2, CountStays
<1>3. ASSUME NEW t \in Actors, Signal(t)
      PROVE  WorkIsCounted'
  <2>1. Signalled(t)
    BY <1>3, SignalDoes
  <2>2. Unfinished' = Unfinished
          /\ UNCHANGED <<outstanding_work_, private_outstanding_work>>
    BY <2>1 DEF Signalled, queueVars, wakeVars, threadVars, opVars, Unfinished
  <2>3. InCleanup' = InCleanup
    BY <2>1 DEF Signalled, queueVars, wakeVars, threadVars, opVars, Types, Controls,
         InCleanup
  <2> QED
    BY <2>2, <2>3, CountStays
<1>4. ASSUME NEW t \in Actors, Stop(t)
      PROVE  WorkIsCounted'
  <2>1. Unfinished' = Unfinished
          /\ UNCHANGED <<outstanding_work_, private_outstanding_work>>
    BY <1>4 DEF Stop, Goto, StopAll, Interrupt, queueVars, wakeVars, threadVars,
         opVars, Unfinished
  <2>2. InCleanup' = InCleanup
    BY <1>4 DEF Stop, Goto, StopAll, Interrupt, queueVars, wakeVars, threadVars,
         opVars, Types, Controls, InCleanup
  <2> QED
    BY <2>1, <2>2, CountStays
<1>5. ASSUME NEW t \in Actors, Leave(t)
      PROVE  WorkIsCounted'
  <2>1. Unfinished' = Unfinished
          /\ UNCHANGED <<outstanding_work_, private_outstanding_work>>
    BY <1>5 DEF Leave, Goto, queueVars, wakeVars, threadVars, opVars, Unfinished
  <2>2. InCleanup' = InCleanup
    BY <1>5 DEF Leave, Goto, queueVars, wakeVars, threadVars, opVars, Types, Controls,
         InCleanup
  <2> QED
    BY <2>1, <2>2, CountStays
<1>6. ASSUME NEW t \in Actors, TakeTask(t)
      PROVE  WorkIsCounted'
  <2>1. TookTask(t)
    BY <1>6, TakeTaskDoes
  <2>2. Ahead
    BY <2>1, QueueAhead DEF TookTask
  <2>3. Unfinished' = Unfinished
          /\ UNCHANGED <<outstanding_work_, private_outstanding_work>>
    BY <2>1 DEF TookTask, queueVars, wakeVars, threadVars, opVars, Unfinished
  <2>4. InCleanup' = InCleanup
    BY <2>1 DEF TookTask, queueVars, wakeVars, threadVars, opVars, Types, Controls,
         InCleanup
  <2> QED
    BY <2>3, <2>4, CountStays
<1>7. ASSUME NEW t \in Actors, TakeOperation(t)
      PROVE  WorkIsCounted'
  <2>1. TookOperation(t)
    BY <1>7, TakeOperationDoes
  <2>2. Ahead
    BY <2>1, QueueAhead DEF TookOperation
  <2>3. Unfinished' = Unfinished
          /\ UNCHANGED <<outstanding_work_, private_outstanding_work>>
    BY <2>1 DEF TookOperation, Woke, queueVars, wakeVars, threadVars, opVars, Unfinished
  <2>4. InCleanup' = InCleanup
    BY <2>1 DEF TookOperation, Woke, queueVars, wakeVars, threadVars, opVars, Types,
         Controls, InCleanup
  <2> QED
    BY <2>3, <2>4, CountStays
<1>8. ASSUME NEW t \in Actors, Sleep(t)
      PROVE  WorkIsCounted'
  <2>1. Unfinished' = Unfinished
          /\ UNCHANGED <<outstanding_work_, private_outstanding_work>>
    BY <1>8 DEF Sleep, Goto, queueVars, wakeVars, threadVars, opVars, Unfinished
  <2>2. InCleanup' = InCleanup
    BY <1>8 DEF Sleep, Goto, queueVars, wakeVars, threadVars, opVars, Types, Controls,
         InCleanup
  <2> QED
    BY <2>1, <2>2, CountStays
<1>9. ASSUME NEW t \in Actors, Awake(t)
      PROVE  WorkIsCounted'
  <2>1. Awoke(t)
    BY <1>9, AwakeDoes
  <2>2. Unfinished' = Unfinished
          /\ UNCHANGED <<outstanding_work_, private_outstanding_work>>
    BY <2>1 DEF Awoke, queueVars, wakeVars, threadVars, opVars, Unfinished
  <2>3. InCleanup' = InCleanup
    BY <2>1 DEF Awoke, queueVars, wakeVars, threadVars, opVars, Types, Controls,
         InCleanup
  <2> QED
    BY <2>2, <2>3, CountStays
<1>10. ASSUME NEW t \in Actors, RunTask(t)
      PROVE  WorkIsCounted'
  <2>1. RanTask(t)
    BY <1>10, RunTaskDoes
  <2>2. Unfinished' = Unfinished
          /\ UNCHANGED <<outstanding_work_, private_outstanding_work>>
    BY <2>1 DEF RanTask, queueVars, wakeVars, threadVars, opVars, Unfinished
  <2>3. InCleanup' = InCleanup
    BY <2>1 DEF RanTask, queueVars, wakeVars, threadVars, opVars, Types, Controls,
         InCleanup
  <2> QED
    BY <2>2, <2>3, CountStays
<1>11. ASSUME NEW t \in Actors, TaskCleanup(t)
      PROVE  WorkIsCounted'
  <2>1. Unfinished' = Unfinished /\ InCleanup' = InCleanup
    BY <1>11 DEF TaskCleanup, Goto, opVars, Types, Unfinished, InCleanup
  <2>2. Cardinality(Unfinished)' = Cardinality(Unfinished) + 0
        /\ Cardinality(InCleanup)' = Cardinality(InCleanup) + 0
    BY <2>1, FinitelyMany
  <2>3. /\ outstanding_work_'
          = outstanding_work_ + 0 + 0 - (0 - private_outstanding_work[t])
        /\ private_outstanding_work' = [private_outstanding_work EXCEPT ![t] = 0]
    BY <1>11 DEF TaskCleanup, Types
  <2>4. Moves(t, 0, 0, 0)
    BY <2>2, <2>3 DEF Moves
  <2> QED
    BY <2>4, CountMoves
<1>12. ASSUME NEW t \in Actors, Perform(t)
      PROVE  WorkIsCounted'
  <2>1. Performed(t) /\ current[t] \in Ops
    BY <1>12, PerformDoes DEF Performed, Controls, Completing
  <2>2. outstanding_work_' = outstanding_work_ /\ pc[t] = "complete"
    BY <2>1 DEF Performed, queueVars
  <2>3. CASE /\ stage[current[t]] \in {"waits", "posted"}
             /\ stage' = [stage EXCEPT ![current[t]] = "running"]
             /\ pc' = [pc EXCEPT ![t] = "handler"]
             /\ UNCHANGED private_outstanding_work
    <3>1. Unfinished' = Unfinished /\ InCleanup' = InCleanup
      BY <2>1, <2>2, <2>3 DEF Types, Unfinished, InCleanup
    <3> QED
      BY <2>2, <2>3, <3>1, CountStays
  <2>4. CASE /\ private_outstanding_work' = [private_outstanding_work EXCEPT ![t] = @ + 1]
             /\ pc' = [pc EXCEPT ![t] = "cleanup"]
             /\ UNCHANGED stage
    <3> DEFINE v == private_outstanding_work[t] + 1
    <3>1. v \in Nat /\ outstanding_work_'
            = outstanding_work_ + 0 + 1 - (v - private_outstanding_work[t])
      BY <2>2 DEF Types
    <3>2. Cardinality(InCleanup)' = Cardinality(InCleanup) + 1
      BY <2>2, <2>4, OneInCleanupMore
    <3>3. Unfinished' = Unfinished
      BY <2>4 DEF Unfinished
    <3>4. Cardinality(Unfinished)' = Cardinality(Unfinished) + 0
      BY <3>3, FinitelyMany
    <3>5. private_outstanding_work' = [private_outstanding_work EXCEPT ![t] = v]
      BY <2>4
    <3>6. Moves(t, v, 0, 1)
      BY <3>1, <3>2, <3>4, <3>5 DEF Moves
    <3> QED
      BY <3>6, CountMoves
  <2> QED
    BY <2>1, <2>3, <2>4 DEF Performed
<1>13. ASSUME NEW t \in Actors, Push(t)
      PROVE  WorkIsCounted'
  <2>1. Woke(t, Back(t)) /\ posting[t] \in Ops
    BY <1>13, WakeDoes DEF Push, Controls, Types
  <2>2. Unfinished' = Unfinished
          /\ UNCHANGED <<outstanding_work_, private_outstanding_work>>
    BY <1>13, <2>1 DEF Push, Woke, Back, queueVars, wakeVars, threadVars, opVars,
         Unfinished
  <2>3. InCleanup' = InCleanup
    BY <1>13, <2>1 DEF Push, Woke, Back, queueVars, wakeVars, threadVars, opVars,
         Types, Controls, InCleanup
  <2> QED
    BY <2>2, <2>3, CountStays
<1>14. ASSUME NEW t \in Actors, WorkCleanup(t)
      PROVE  WorkIsCounted'
  <2>1. \E l \in {"stopping", "pushing"} : pc' = [pc EXCEPT ![t] = l]
    BY <1>14 DEF WorkCleanup, Goto
  <2>2. InCleanup' = InCleanup \ {t} /\ t \in InCleanup
    BY <1>14, <2>1 DEF WorkCleanup, InCleanup, Types
  <2>3. Cardinality(InCleanup)' = Cardinality(InCleanup) + (-1)
    BY <2>2, FinitelyMany, FS_RemoveElement
  <2>4. Unfinished' = Unfinished
    BY <1>14 DEF WorkCleanup, opVars, Unfinished
  <2>5. Cardinality(Unfinished)' = Cardinality(Unfinished) + 0
    BY <2>4, FinitelyMany
  <2>6. /\ outstanding_work_'
          = outstanding_work_ + 0 + (-1) - (0 - private_outstanding_work[t])
        /\ private_outstanding_work' = [private_outstanding_work EXCEPT ![t] = 0]
    BY <1>14 DEF WorkCleanup, Types
  <2>7. Moves(t, 0, 0, -1)
    BY <2>3, <2>5, <2>6 DEF Moves
  <2> QED
    BY <2>7, CountMoves
<1>15. ASSUME NEW t \in Actors, PushPrivate(t)
      PROVE  WorkIsCounted'
  <2>1. Unfinished' = Unfinished
          /\ UNCHANGED <<outstanding_work_, private_outstanding_work>>
    BY <1>15 DEF PushPrivate, Goto, queueVars, wakeVars, threadVars, opVars, Unfinished
  <2>2. InCleanup' = InCleanup
    BY <1>15 DEF PushPrivate, Goto, queueVars, wakeVars, threadVars, opVars, Types,
         Controls, InCleanup
  <2> QED
    BY <2>1, <2>2, CountStays
<1>16. ASSUME NEW t \in Actors, SpuriousWakeup(t)
      PROVE  WorkIsCounted'
  <2>1. Unfinished' = Unfinished
          /\ UNCHANGED <<outstanding_work_, private_outstanding_work>>
    BY <1>16 DEF SpuriousWakeup, queueVars, wakeVars, threadVars, opVars, Unfinished
  <2>2. InCleanup' = InCleanup
    BY <1>16 DEF SpuriousWakeup, queueVars, wakeVars, threadVars, opVars, Types,
         Controls, InCleanup
  <2> QED
    BY <2>1, <2>2, CountStays
<1>17. ASSUME NEW t \in Actors, InitTask(t)
      PROVE  WorkIsCounted'
  <2>1. Woke(t, Back(t))
    BY <1>17, WakeDoes DEF InitTask
  <2>2. Unfinished' = Unfinished
          /\ UNCHANGED <<outstanding_work_, private_outstanding_work>>
    BY <1>17, <2>1 DEF InitTask, Woke, Back, MayPost, queueVars, wakeVars, threadVars,
         opVars, Unfinished
  <2>3. InCleanup' = InCleanup
    BY <1>17, <2>1 DEF InitTask, Woke, Back, MayPost, queueVars, wakeVars, threadVars,
         opVars, Types, Controls, InCleanup
  <2> QED
    BY <2>2, <2>3, CountStays
<1>18. ASSUME NEW t \in Actors, StopInHandler(t)
      PROVE  WorkIsCounted'
  <2>1. Unfinished' = Unfinished
          /\ UNCHANGED <<outstanding_work_, private_outstanding_work>>
    BY <1>18 DEF StopInHandler, Goto, queueVars, wakeVars, threadVars, opVars,
         Unfinished
  <2>2. InCleanup' = InCleanup
    BY <1>18 DEF StopInHandler, Goto, queueVars, wakeVars, threadVars, opVars, Types,
         Controls, InCleanup
  <2> QED
    BY <2>1, <2>2, CountStays
<1>19. ASSUME NEW t \in Actors, HandlerReturns(t)
      PROVE  WorkIsCounted'
  <2>1. /\ current[t] \in Ops /\ stage[current[t]] = "running" /\ pc[t] = "handler"
        /\ stage' = [stage EXCEPT ![current[t]] = "done"]
        /\ pc' = [pc EXCEPT ![t] = "cleanup"]
        /\ UNCHANGED <<outstanding_work_, private_outstanding_work>>
    BY <1>19 DEF HandlerReturns, Goto, queueVars, Controls, Counting, InHandler,
         RunsOnce
  <2>2. Unfinished' = Unfinished \ {current[t]} /\ current[t] \in Unfinished
    BY <2>1 DEF Unfinished, Types
  <2>3. Cardinality(Unfinished)' = Cardinality(Unfinished) - 1
    BY <2>2, FinitelyMany, FS_RemoveElement
  <2>4. Cardinality(InCleanup)' = Cardinality(InCleanup) + 1
    BY <2>1, OneInCleanupMore
  <2> DEFINE v == private_outstanding_work[t]
  <2>5. /\ v \in Nat /\ private_outstanding_work'
          = [private_outstanding_work EXCEPT ![t] = v]
        /\ v - v = 0 /\ outstanding_work_ \in Int /\ outstanding_work_' = outstanding_work_
    BY <2>1 DEF Types
  <2>6. Cardinality(Unfinished)' = Cardinality(Unfinished) + (-1)
    BY <2>3, FinitelyMany
  <2>7. Moves(t, v, -1, 1)
    BY <2>4, <2>5, <2>6 DEF Moves
  <2> QED
    BY <2>7, CountMoves
<1>20. ASSUME NEW t \in Actors, NEW o \in Ops, PostContinuation(t, o)
      PROVE  WorkIsCounted'
  <2>1. stage' = [stage EXCEPT ![o] = "posted"] /\ stage[o] = "new" /\ t \in Actors
    BY <1>20 DEF PostContinuation
  <2>2. Cardinality(Unfinished)' = Cardinality(Unfinished) + 1
    BY <2>1, OneUnfinishedMore
  <2>3. InCleanup' = InCleanup
    BY <1>20 DEF PostContinuation, threadVars, Types, InCleanup
  <2>4. Cardinality(InCleanup)' = Cardinality(InCleanup) + 0
    BY <2>3, FinitelyMany
  <2> DEFINE v == private_outstanding_work[t] + 1
  <2>5. /\ v \in Nat /\ private_outstanding_work'
          = [private_outstanding_work EXCEPT ![t] = v]
        /\ outstanding_work_'
                = outstanding_work_ + 1 + 0 - (v - private_outstanding_work[t])
    BY <1>20 DEF PostContinuation, queueVars, threadVars, Types
  <2>6. Moves(t, v, 1, 0)
    BY <2>2, <2>4, <2>5 DEF Moves
  <2> QED
    BY <2>6, CountMoves
<1>21. ASSUME NEW t \in Actors, NEW o \in Ops, Post(t, o)
      PROVE  WorkIsCounted'
  <2>1. stage' = [stage EXCEPT ![o] = "posted"] /\ stage[o] = "new" /\ t \in Actors
    BY <1>21 DEF Post
  <2>2. Cardinality(Unfinished)' = Cardinality(Unfinished) + 1
    BY <2>1, OneUnfinishedMore
  <2>3. InCleanup' = InCleanup
    BY <1>21 DEF Post, Goto, MayPost, Back, threadVars, Types, InCleanup
  <2>4. Cardinality(InCleanup)' = Cardinality(InCleanup) + 0
    BY <2>3, FinitelyMany
  <2> DEFINE v == private_outstanding_work[t]
  <2>5. /\ v \in Nat /\ private_outstanding_work'
          = [private_outstanding_work EXCEPT ![t] = v]
        /\ outstanding_work_'
                = outstanding_work_ + 1 + 0 - (v - private_outstanding_work[t])
    BY <1>21 DEF Post, queueVars, threadVars, Types
  <2>6. Moves(t, v, 1, 0)
    BY <2>2, <2>4, <2>5 DEF Moves
  <2> QED
    BY <2>6, CountMoves
<1>22. ASSUME NEW t \in Actors, NEW o \in Ops, StartOp(t, o)
      PROVE  WorkIsCounted'
  <2>1. stage' = [stage EXCEPT ![o] = "waits"] /\ stage[o] = "new" /\ t \in Actors
    BY <1>22 DEF StartOp
  <2>2. Cardinality(Unfinished)' = Cardinality(Unfinished) + 1
    BY <2>1, OneUnfinishedMore
  <2>3. InCleanup' = InCleanup
    BY <1>22 DEF StartOp, threadVars, Types, InCleanup
  <2>4. Cardinality(InCleanup)' = Cardinality(InCleanup) + 0
    BY <2>3, FinitelyMany
  <2> DEFINE v == private_outstanding_work[t]
  <2>5. /\ v \in Nat /\ private_outstanding_work'
          = [private_outstanding_work EXCEPT ![t] = v]
        /\ outstanding_work_'
                = outstanding_work_ + 1 + 0 - (v - private_outstanding_work[t])
    BY <1>22 DEF StartOp, queueVars, threadVars, Types
  <2>6. Moves(t, v, 1, 0)
    BY <2>2, <2>4, <2>5 DEF Moves
  <2> QED
    BY <2>6, CountMoves
<1>23. ASSUME NEW o \in Ops, Ready(o)
      PROVE  WorkIsCounted'
  <2>1. Unfinished' = Unfinished
          /\ UNCHANGED <<outstanding_work_, private_outstanding_work>>
    BY <1>23 DEF Ready, queueVars, wakeVars, threadVars, opVars, Unfinished
  <2>2. InCleanup' = InCleanup
    BY <1>23 DEF Ready, queueVars, wakeVars, threadVars, opVars, Types, Controls,
         InCleanup
  <2> QED
    BY <2>1, <2>2, CountStays
<1> QED
  BY <1>1, <1>2, <1>3, <1>4, <1>5, <1>6, <1>7, <1>8, <1>9, <1>10, <1>11, <1>12, <1>13,
       <1>14, <1>15, <1>16, <1>17, <1>18, <1>19, <1>20, <1>21, <1>22, <1>23 DEF Next,
       Proceed, Loop

\* Every step keeps the mutex with a thread in the loop.
LEMMA HeldInLoopStep ==
  ASSUME Types, Controls, HeldInLoop, [Next]_schedulerVars
  PROVE  HeldInLoop'
<1> USE SchedulerAssumption DEF Actors
<1>1. CASE UNCHANGED schedulerVars
  BY <1>1 DEF schedulerVars, queueVars, wakeVars, threadVars, opVars, Types, Controls,
       HeldInLoop
<1>2. ASSUME NEW t \in Actors, Run(t)
      PROVE  HeldInLoop'
  BY <1>2 DEF Run, Goto, queueVars, wakeVars, threadVars, opVars, Types, Controls,
       HeldInLoop
<1>3. ASSUME NEW t \in Actors, Signal(t)
      PROVE  HeldInLoop'
  <2>1. Signalled(t)
    BY <1>3, SignalDoes
  <2> QED
    BY <2>1 DEF Signalled, queueVars, wakeVars, threadVars, opVars, Types, Controls,
         HeldInLoop
<1>4. ASSUME NEW t \in Actors, Stop(t)
      PROVE  HeldInLoop'
  BY <1>4 DEF Stop, Goto, StopAll, Interrupt, queueVars, wakeVars, threadVars, opVars,
       Types, Controls, HeldInLoop
<1>5. ASSUME NEW t \in Actors, Leave(t)
      PROVE  HeldInLoop'
  BY <1>5 DEF Leave, Goto, queueVars, wakeVars, threadVars, opVars, Types, Controls,
       HeldInLoop
<1>6. ASSUME NEW t \in Actors, TakeTask(t)
      PROVE  HeldInLoop'
  <2>1. TookTask(t)
    BY <1>6, TakeTaskDoes
  <2>2. Ahead
    BY <2>1, QueueAhead DEF TookTask
  <2> QED
    BY <2>1, <2>2 DEF TookTask, queueVars, wakeVars, threadVars, opVars, Types,
         Controls, HeldInLoop, Ahead
<1>7. ASSUME NEW t \in Actors, TakeOperation(t)
      PROVE  HeldInLoop'
  <2>1. TookOperation(t)
    BY <1>7, TakeOperationDoes
  <2>2. Ahead
    BY <2>1, QueueAhead DEF TookOperation
  <2> QED
    BY <2>1, <2>2 DEF TookOperation, Woke, queueVars, wakeVars, threadVars, opVars,
         Types, Controls, HeldInLoop, Ahead
<1>8. ASSUME NEW t \in Actors, Sleep(t)
      PROVE  HeldInLoop'
  BY <1>8 DEF Sleep, Goto, queueVars, wakeVars, threadVars, opVars, Types, Controls,
       HeldInLoop
<1>9. ASSUME NEW t \in Actors, Awake(t)
      PROVE  HeldInLoop'
  <2>1. Awoke(t)
    BY <1>9, AwakeDoes
  <2> QED
    BY <2>1 DEF Awoke, queueVars, wakeVars, threadVars, opVars, Types, Controls,
         HeldInLoop
<1>10. ASSUME NEW t \in Actors, RunTask(t)
      PROVE  HeldInLoop'
  <2>1. RanTask(t)
    BY <1>10, RunTaskDoes
  <2> QED
    BY <2>1 DEF RanTask, queueVars, wakeVars, threadVars, opVars, Types, Controls,
         HeldInLoop
<1>11. ASSUME NEW t \in Actors, TaskCleanup(t)
      PROVE  HeldInLoop'
  BY <1>11 DEF TaskCleanup, Goto, queueVars, wakeVars, threadVars, opVars, Types,
       Controls, HeldInLoop
<1>12. ASSUME NEW t \in Actors, Perform(t)
      PROVE  HeldInLoop'
  <2>1. Performed(t) /\ current[t] \in Ops
    BY <1>12, PerformDoes DEF Performed, Controls, Completing
  <2> QED
    BY <2>1 DEF Performed, queueVars, wakeVars, threadVars, opVars, Types, Controls,
         HeldInLoop
<1>13. ASSUME NEW t \in Actors, Push(t)
      PROVE  HeldInLoop'
  <2>1. Woke(t, Back(t)) /\ posting[t] \in Ops
    BY <1>13, WakeDoes DEF Push, Controls, Types
  <2> QED
    BY <1>13, <2>1 DEF Push, Woke, Back, queueVars, wakeVars, threadVars, opVars,
         Types, Controls, HeldInLoop
<1>14. ASSUME NEW t \in Actors, WorkCleanup(t)
      PROVE  HeldInLoop'
  BY <1>14 DEF WorkCleanup, Goto, queueVars, wakeVars, threadVars, opVars, Types,
       Controls, HeldInLoop
<1>15. ASSUME NEW t \in Actors, PushPrivate(t)
      PROVE  HeldInLoop'
  BY <1>15 DEF PushPrivate, Goto, queueVars, wakeVars, threadVars, opVars, Types,
       Controls, HeldInLoop
<1>16. ASSUME NEW t \in Actors, SpuriousWakeup(t)
      PROVE  HeldInLoop'
  BY <1>16 DEF SpuriousWakeup, queueVars, wakeVars, threadVars, opVars, Types,
       Controls, HeldInLoop
<1>17. ASSUME NEW t \in Actors, InitTask(t)
      PROVE  HeldInLoop'
  <2>1. Woke(t, Back(t))
    BY <1>17, WakeDoes DEF InitTask
  <2> QED
    BY <1>17, <2>1 DEF InitTask, Woke, Back, MayPost, queueVars, wakeVars, threadVars,
         opVars, Types, Controls, HeldInLoop
<1>18. ASSUME NEW t \in Actors, StopInHandler(t)
      PROVE  HeldInLoop'
  BY <1>18 DEF StopInHandler, Goto, queueVars, wakeVars, threadVars, opVars, Types,
       Controls, HeldInLoop
<1>19. ASSUME NEW t \in Actors, HandlerReturns(t)
      PROVE  HeldInLoop'
  BY <1>19 DEF HandlerReturns, Goto, queueVars, wakeVars, threadVars, opVars, Types,
       Controls, HeldInLoop
<1>20. ASSUME NEW t \in Actors, NEW o \in Ops, PostContinuation(t, o)
      PROVE  HeldInLoop'
  BY <1>20 DEF PostContinuation, queueVars, wakeVars, threadVars, opVars, Types,
       Controls, HeldInLoop
<1>21. ASSUME NEW t \in Actors, NEW o \in Ops, Post(t, o)
      PROVE  HeldInLoop'
  BY <1>21 DEF Post, Goto, MayPost, Back, queueVars, wakeVars, threadVars, opVars,
       Types, Controls, HeldInLoop
<1>22. ASSUME NEW t \in Actors, NEW o \in Ops, StartOp(t, o)
      PROVE  HeldInLoop'
  BY <1>22 DEF StartOp, MayPost, Back, queueVars, wakeVars, threadVars, opVars, Types,
       Controls, HeldInLoop
<1>23. ASSUME NEW o \in Ops, Ready(o)
      PROVE  HeldInLoop'
  BY <1>23 DEF Ready, queueVars, wakeVars, threadVars, opVars, Types, Controls,
       HeldInLoop
<1> QED
  BY <1>1, <1>2, <1>3, <1>4, <1>5, <1>6, <1>7, <1>8, <1>9, <1>10, <1>11, <1>12, <1>13,
       <1>14, <1>15, <1>16, <1>17, <1>18, <1>19, <1>20, <1>21, <1>22, <1>23 DEF Next,
       Proceed, Loop

\* Every step keeps the event signalled for what is in the queue.
LEMMA SignalledOrHeldStep ==
  ASSUME Types, Controls, HeldInLoop, SignalledOrHeld, [Next]_schedulerVars
  PROVE  SignalledOrHeld'
<1> USE SchedulerAssumption DEF Actors
<1>1. CASE UNCHANGED schedulerVars
  BY <1>1 DEF schedulerVars, queueVars, wakeVars, threadVars, opVars, Types, Controls,
       HeldInLoop, SignalledOrHeld
<1>2. ASSUME NEW t \in Actors, Run(t)
      PROVE  SignalledOrHeld'
  BY <1>2 DEF Run, Goto, queueVars, wakeVars, threadVars, opVars, Types, Controls,
       HeldInLoop, SignalledOrHeld
<1>3. ASSUME NEW t \in Actors, Signal(t)
      PROVE  SignalledOrHeld'
  <2>1. Signalled(t)
    BY <1>3, SignalDoes
  <2> QED
    BY <2>1 DEF Signalled, queueVars, wakeVars, threadVars, opVars, Types, Controls,
         HeldInLoop, SignalledOrHeld
<1>4. ASSUME NEW t \in Actors, Stop(t)
      PROVE  SignalledOrHeld'
  BY <1>4 DEF Stop, Goto, StopAll, Interrupt, queueVars, wakeVars, threadVars, opVars,
       Types, Controls, HeldInLoop, SignalledOrHeld
<1>5. ASSUME NEW t \in Actors, Leave(t)
      PROVE  SignalledOrHeld'
  BY <1>5 DEF Leave, Goto, queueVars, wakeVars, threadVars, opVars, Types, Controls,
       HeldInLoop, SignalledOrHeld
<1>6. ASSUME NEW t \in Actors, TakeTask(t)
      PROVE  SignalledOrHeld'
  <2>1. TookTask(t)
    BY <1>6, TakeTaskDoes
  <2>2. Ahead
    BY <2>1, QueueAhead DEF TookTask
  <2> QED
    BY <2>1, <2>2 DEF TookTask, queueVars, wakeVars, threadVars, opVars, Types,
         Controls, HeldInLoop, SignalledOrHeld, Ahead
<1>7. ASSUME NEW t \in Actors, TakeOperation(t)
      PROVE  SignalledOrHeld'
  <2>1. TookOperation(t)
    BY <1>7, TakeOperationDoes
  <2>2. Ahead
    BY <2>1, QueueAhead DEF TookOperation
  <2> QED
    BY <2>1, <2>2 DEF TookOperation, Woke, queueVars, wakeVars, threadVars, opVars,
         Types, Controls, HeldInLoop, SignalledOrHeld, Ahead
<1>8. ASSUME NEW t \in Actors, Sleep(t)
      PROVE  SignalledOrHeld'
  BY <1>8 DEF Sleep, Goto, queueVars, wakeVars, threadVars, opVars, Types, Controls,
       HeldInLoop, SignalledOrHeld
<1>9. ASSUME NEW t \in Actors, Awake(t)
      PROVE  SignalledOrHeld'
  <2>1. Awoke(t)
    BY <1>9, AwakeDoes
  <2> QED
    BY <2>1 DEF Awoke, queueVars, wakeVars, threadVars, opVars, Types, Controls,
         HeldInLoop, SignalledOrHeld
<1>10. ASSUME NEW t \in Actors, RunTask(t)
      PROVE  SignalledOrHeld'
  <2>1. RanTask(t)
    BY <1>10, RunTaskDoes
  <2> QED
    BY <2>1 DEF RanTask, queueVars, wakeVars, threadVars, opVars, Types, Controls,
         HeldInLoop, SignalledOrHeld
<1>11. ASSUME NEW t \in Actors, TaskCleanup(t)
      PROVE  SignalledOrHeld'
  BY <1>11 DEF TaskCleanup, Goto, queueVars, wakeVars, threadVars, opVars, Types,
       Controls, HeldInLoop, SignalledOrHeld
<1>12. ASSUME NEW t \in Actors, Perform(t)
      PROVE  SignalledOrHeld'
  <2>1. Performed(t) /\ current[t] \in Ops
    BY <1>12, PerformDoes DEF Performed, Controls, Completing
  <2> QED
    BY <2>1 DEF Performed, queueVars, wakeVars, threadVars, opVars, Types, Controls,
         HeldInLoop, SignalledOrHeld
<1>13. ASSUME NEW t \in Actors, Push(t)
      PROVE  SignalledOrHeld'
  <2>1. Woke(t, Back(t)) /\ posting[t] \in Ops
    BY <1>13, WakeDoes DEF Push, Controls, Types
  <2> QED
    BY <1>13, <2>1 DEF Push, Woke, Back, queueVars, wakeVars, threadVars, opVars,
         Types, Controls, HeldInLoop, SignalledOrHeld
<1>14. ASSUME NEW t \in Actors, WorkCleanup(t)
      PROVE  SignalledOrHeld'
  BY <1>14 DEF WorkCleanup, Goto, queueVars, wakeVars, threadVars, opVars, Types,
       Controls, HeldInLoop, SignalledOrHeld
<1>15. ASSUME NEW t \in Actors, PushPrivate(t)
      PROVE  SignalledOrHeld'
  BY <1>15 DEF PushPrivate, Goto, queueVars, wakeVars, threadVars, opVars, Types,
       Controls, HeldInLoop, SignalledOrHeld
<1>16. ASSUME NEW t \in Actors, SpuriousWakeup(t)
      PROVE  SignalledOrHeld'
  BY <1>16 DEF SpuriousWakeup, queueVars, wakeVars, threadVars, opVars, Types,
       Controls, HeldInLoop, SignalledOrHeld
<1>17. ASSUME NEW t \in Actors, InitTask(t)
      PROVE  SignalledOrHeld'
  <2>1. Woke(t, Back(t))
    BY <1>17, WakeDoes DEF InitTask
  <2> QED
    BY <1>17, <2>1 DEF InitTask, Woke, Back, MayPost, queueVars, wakeVars, threadVars,
         opVars, Types, Controls, HeldInLoop, SignalledOrHeld
<1>18. ASSUME NEW t \in Actors, StopInHandler(t)
      PROVE  SignalledOrHeld'
  BY <1>18 DEF StopInHandler, Goto, queueVars, wakeVars, threadVars, opVars, Types,
       Controls, HeldInLoop, SignalledOrHeld
<1>19. ASSUME NEW t \in Actors, HandlerReturns(t)
      PROVE  SignalledOrHeld'
  BY <1>19 DEF HandlerReturns, Goto, queueVars, wakeVars, threadVars, opVars, Types,
       Controls, HeldInLoop, SignalledOrHeld
<1>20. ASSUME NEW t \in Actors, NEW o \in Ops, PostContinuation(t, o)
      PROVE  SignalledOrHeld'
  BY <1>20 DEF PostContinuation, queueVars, wakeVars, threadVars, opVars, Types,
       Controls, HeldInLoop, SignalledOrHeld
<1>21. ASSUME NEW t \in Actors, NEW o \in Ops, Post(t, o)
      PROVE  SignalledOrHeld'
  BY <1>21 DEF Post, Goto, MayPost, Back, queueVars, wakeVars, threadVars, opVars,
       Types, Controls, HeldInLoop, SignalledOrHeld
<1>22. ASSUME NEW t \in Actors, NEW o \in Ops, StartOp(t, o)
      PROVE  SignalledOrHeld'
  BY <1>22 DEF StartOp, MayPost, Back, queueVars, wakeVars, threadVars, opVars, Types,
       Controls, HeldInLoop, SignalledOrHeld
<1>23. ASSUME NEW o \in Ops, Ready(o)
      PROVE  SignalledOrHeld'
  BY <1>23 DEF Ready, queueVars, wakeVars, threadVars, opVars, Types, Controls,
       HeldInLoop, SignalledOrHeld
<1> QED
  BY <1>1, <1>2, <1>3, <1>4, <1>5, <1>6, <1>7, <1>8, <1>9, <1>10, <1>11, <1>12, <1>13,
       <1>14, <1>15, <1>16, <1>17, <1>18, <1>19, <1>20, <1>21, <1>22, <1>23 DEF Next,
       Proceed, Loop

\* Every step keeps an interrupt on its way.
LEMMA InterruptArrivesStep ==
  ASSUME Types, Controls, TaskOnce, InterruptArrives, [Next]_schedulerVars
  PROVE  InterruptArrives'
<1> USE SchedulerAssumption DEF Actors
<1>1. CASE UNCHANGED schedulerVars
  BY <1>1 DEF schedulerVars, queueVars, wakeVars, threadVars, opVars, Types, Controls,
       TaskOnce, InReactor, InterruptArrives
<1>2. ASSUME NEW t \in Actors, Run(t)
      PROVE  InterruptArrives'
  BY <1>2 DEF Run, Goto, queueVars, wakeVars, threadVars, opVars, Types, Controls,
       TaskOnce, InReactor, InterruptArrives
<1>3. ASSUME NEW t \in Actors, Signal(t)
      PROVE  InterruptArrives'
  <2>1. Signalled(t)
    BY <1>3, SignalDoes
  <2> QED
    BY <2>1 DEF Signalled, queueVars, wakeVars, threadVars, opVars, Types, Controls,
         TaskOnce, InReactor, InterruptArrives
<1>4. ASSUME NEW t \in Actors, Stop(t)
      PROVE  InterruptArrives'
  BY <1>4 DEF Stop, Goto, StopAll, Interrupt, queueVars, wakeVars, threadVars, opVars,
       Types, Controls, TaskOnce, InReactor, InterruptArrives
<1>5. ASSUME NEW t \in Actors, Leave(t)
      PROVE  InterruptArrives'
  BY <1>5 DEF Leave, Goto, queueVars, wakeVars, threadVars, opVars, Types, Controls,
       TaskOnce, InReactor, InterruptArrives
<1>6. ASSUME NEW t \in Actors, TakeTask(t)
      PROVE  InterruptArrives'
  <2>1. TookTask(t)
    BY <1>6, TakeTaskDoes
  <2>2. Ahead
    BY <2>1, QueueAhead DEF TookTask
  <2>3. \A u \in Actors \ {t} : pc'[u] = pc[u] /\ after'[u] = after[u]
    BY <2>1 DEF TookTask, Types
  <2>4. \A u \in Actors : ~InReactor(u)
    BY <2>1, <2>2 DEF TookTask, TaskOnce, InQueue, Ahead
  <2>5. \A u \in Actors \ {t} : ~InReactor(u)'
    BY <2>3, <2>4 DEF InReactor
  <2>6. \/ ~task_interrupted_' /\ pc'[t] = "task"
        \/ ~blocks'[t]
    BY <2>1 DEF TookTask, Types
  <2>7. \A u \in Actors \ {t} : ~(pc'[u] = "signal" /\ after'[u] = "task")
    BY <2>5 DEF InReactor
  <2> QED
    BY <1>6, <2>1, <2>2, <2>3, <2>4, <2>5, <2>6, <2>7 DEF InterruptArrives
<1>7. ASSUME NEW t \in Actors, TakeOperation(t)
      PROVE  InterruptArrives'
  <2>1. TookOperation(t)
    BY <1>7, TakeOperationDoes
  <2>2. Ahead
    BY <2>1, QueueAhead DEF TookOperation
  <2>3. \A u \in Actors \ {t} : pc'[u] = pc[u] /\ after'[u] = after[u]
    BY <2>1 DEF TookOperation, Woke, Types
  <2>4. ~InReactor(t)' /\ blocks' = blocks
    BY <2>1 DEF TookOperation, Woke, Types, InReactor, Controls
  <2>5. ~task_ => \A u \in Actors : ~InReactor(u)
    BY DEF TaskOnce
  <2>6. \/ task_interrupted_' = task_interrupted_ /\ interrupted' = interrupted
        \/ /\ interrupted => interrupted'
           /\ task_ => task_interrupted_ \/ interrupted'
    BY <2>1 DEF TookOperation, Woke
  <2>7. \A u \in Actors \ {t} : InReactor(u)' <=> InReactor(u)
    BY <2>3 DEF InReactor
  <2>8. ASSUME NEW u \in Actors, InReactor(u)', pc'[u] # "taskDone", task_interrupted_'
        PROVE  interrupted' \/ ~blocks'[u]
    <3>1. u # t /\ InReactor(u) /\ pc[u] # "taskDone" /\ blocks'[u] = blocks[u] /\ task_
      BY <2>3, <2>4, <2>5, <2>7, <2>8
    <3>2. task_interrupted_ => interrupted \/ ~blocks[u]
      BY <3>1 DEF InterruptArrives
    <3> QED
      <4>1. CASE task_interrupted_' = task_interrupted_ /\ interrupted' = interrupted
        <5>1. task_interrupted_
          BY <2>8, <4>1
        <5> QED
          BY Zenon, <3>1, <3>2, <4>1, <5>1
      <4>2. CASE /\ interrupted => interrupted'
                 /\ task_ => task_interrupted_ \/ interrupted'
        <5>1. task_interrupted_ \/ interrupted'
          BY Zenon, <3>1, <4>2
        <5>2. CASE interrupted'
          BY <5>2
        <5>3. CASE task_interrupted_
          BY Zenon, <3>1, <3>2, <4>2, <5>3
        <5> QED
          BY Zenon, <5>1, <5>2, <5>3
      <4> QED
        BY Zenon, <2>6, <4>1, <4>2
  <2> QED
    BY <1>7, <2>1, <2>2, <2>3, <2>4, <2>5, <2>6, <2>7, <2>8 DEF InterruptArrives,
         InReactor
<1>8. ASSUME NEW t \in Actors, Sleep(t)
      PROVE  InterruptArrives'
  BY <1>8 DEF Sleep, Goto, queueVars, wakeVars, threadVars, opVars, Types, Controls,
       TaskOnce, InReactor, InterruptArrives
<1>9. ASSUME NEW t \in Actors, Awake(t)
      PROVE  InterruptArrives'
  <2>1. Awoke(t)
    BY <1>9, AwakeDoes
  <2>2. \A u \in Actors \ {t} : pc'[u] = pc[u] /\ after'[u] = after[u]
    BY <2>1 DEF Awoke, Woke, Types
  <2>3. ~InReactor(t)' /\ blocks' = blocks
    BY <2>1 DEF Awoke, Woke, Types, InReactor, Controls
  <2>4. UNCHANGED <<task_interrupted_, interrupted>>
    BY <2>1 DEF Awoke
  <2> QED
    BY <1>9, <2>1, <2>2, <2>3, <2>4 DEF InterruptArrives, InReactor
<1>10. ASSUME NEW t \in Actors, RunTask(t)
      PROVE  InterruptArrives'
  <2>1. RanTask(t)
    BY <1>10, RunTaskDoes
  <2> QED
    BY <2>1 DEF RanTask, queueVars, wakeVars, threadVars, opVars, Types, Controls,
         TaskOnce, InReactor, InterruptArrives
<1>11. ASSUME NEW t \in Actors, TaskCleanup(t)
      PROVE  InterruptArrives'
  BY <1>11 DEF TaskCleanup, Goto, queueVars, wakeVars, threadVars, opVars, Types,
       Controls, TaskOnce, InReactor, InterruptArrives
<1>12. ASSUME NEW t \in Actors, Perform(t)
      PROVE  InterruptArrives'
  <2>1. Performed(t) /\ current[t] \in Ops
    BY <1>12, PerformDoes DEF Performed, Controls, Completing
  <2>2. \A u \in Actors \ {t} : pc'[u] = pc[u] /\ after'[u] = after[u]
    BY <2>1 DEF Performed, Woke, Types
  <2>3. ~InReactor(t)' /\ blocks' = blocks
    BY <2>1 DEF Performed, Woke, Types, InReactor, Controls
  <2>4. UNCHANGED <<task_interrupted_, interrupted>>
    BY <2>1 DEF Performed, wakeVars
  <2> QED
    BY <1>12, <2>1, <2>2, <2>3, <2>4 DEF InterruptArrives, InReactor
<1>13. ASSUME NEW t \in Actors, Push(t)
      PROVE  InterruptArrives'
  <2>1. Woke(t, Back(t)) /\ posting[t] \in Ops
    BY <1>13, WakeDoes DEF Push, Controls, Types
  <2> QED
    BY <1>13, <2>1 DEF Push, Woke, Back, queueVars, wakeVars, threadVars, opVars,
         Types, Controls, TaskOnce, InReactor, InterruptArrives
<1>14. ASSUME NEW t \in Actors, WorkCleanup(t)
      PROVE  InterruptArrives'
  BY <1>14 DEF WorkCleanup, Goto, queueVars, wakeVars, threadVars, opVars, Types,
       Controls, TaskOnce, InReactor, InterruptArrives
<1>15. ASSUME NEW t \in Actors, PushPrivate(t)
      PROVE  InterruptArrives'
  BY <1>15 DEF PushPrivate, Goto, queueVars, wakeVars, threadVars, opVars, Types,
       Controls, TaskOnce, InReactor, InterruptArrives
<1>16. ASSUME NEW t \in Actors, SpuriousWakeup(t)
      PROVE  InterruptArrives'
  BY <1>16 DEF SpuriousWakeup, queueVars, wakeVars, threadVars, opVars, Types,
       Controls, TaskOnce, InReactor, InterruptArrives
<1>17. ASSUME NEW t \in Actors, InitTask(t)
      PROVE  InterruptArrives'
  <2>1. Woke(t, Back(t))
    BY <1>17, WakeDoes DEF InitTask
  <2> QED
    BY <1>17, <2>1 DEF InitTask, Woke, Back, MayPost, queueVars, wakeVars, threadVars,
         opVars, Types, Controls, TaskOnce, InReactor, InterruptArrives
<1>18. ASSUME NEW t \in Actors, StopInHandler(t)
      PROVE  InterruptArrives'
  BY <1>18 DEF StopInHandler, Goto, queueVars, wakeVars, threadVars, opVars, Types,
       Controls, TaskOnce, InReactor, InterruptArrives
<1>19. ASSUME NEW t \in Actors, HandlerReturns(t)
      PROVE  InterruptArrives'
  BY <1>19 DEF HandlerReturns, Goto, queueVars, wakeVars, threadVars, opVars, Types,
       Controls, TaskOnce, InReactor, InterruptArrives
<1>20. ASSUME NEW t \in Actors, NEW o \in Ops, PostContinuation(t, o)
      PROVE  InterruptArrives'
  BY <1>20 DEF PostContinuation, queueVars, wakeVars, threadVars, opVars, Types,
       Controls, TaskOnce, InReactor, InterruptArrives
<1>21. ASSUME NEW t \in Actors, NEW o \in Ops, Post(t, o)
      PROVE  InterruptArrives'
  BY <1>21 DEF Post, Goto, MayPost, Back, queueVars, wakeVars, threadVars, opVars,
       Types, Controls, TaskOnce, InReactor, InterruptArrives
<1>22. ASSUME NEW t \in Actors, NEW o \in Ops, StartOp(t, o)
      PROVE  InterruptArrives'
  BY <1>22 DEF StartOp, MayPost, Back, queueVars, wakeVars, threadVars, opVars, Types,
       Controls, TaskOnce, InReactor, InterruptArrives
<1>23. ASSUME NEW o \in Ops, Ready(o)
      PROVE  InterruptArrives'
  BY <1>23 DEF Ready, queueVars, wakeVars, threadVars, opVars, Types, Controls,
       TaskOnce, InReactor, InterruptArrives
<1> QED
  BY <1>1, <1>2, <1>3, <1>4, <1>5, <1>6, <1>7, <1>8, <1>9, <1>10, <1>11, <1>12, <1>13,
       <1>14, <1>15, <1>16, <1>17, <1>18, <1>19, <1>20, <1>21, <1>22, <1>23 DEF Next,
       Proceed, Loop

\* Every step leaves somebody before a thread that sleeps.
LEMMA SleeperIsWatchedStep ==
  ASSUME Types, Controls, HeldInLoop, SignalledOrHeld, SleeperIsWatched, [Next]_schedulerVars
  PROVE  SleeperIsWatched'
<1> USE SchedulerAssumption DEF Actors
<1>1. CASE UNCHANGED schedulerVars
  BY <1>1 DEF schedulerVars, queueVars, wakeVars, threadVars, opVars, Types, Controls,
       HeldInLoop, SignalledOrHeld, SleeperIsWatched
<1>2. ASSUME NEW t \in Actors, Run(t)
      PROVE  SleeperIsWatched'
  BY <1>2 DEF Run, Goto, queueVars, wakeVars, threadVars, opVars, Types, Controls,
       HeldInLoop, SignalledOrHeld, SleeperIsWatched
<1>3. ASSUME NEW t \in Actors, Signal(t)
      PROVE  SleeperIsWatched'
  <2>1. Signalled(t)
    BY <1>3, SignalDoes
  <2> QED
    BY <2>1 DEF Signalled, queueVars, wakeVars, threadVars, opVars, Types, Controls,
         HeldInLoop, SignalledOrHeld, SleeperIsWatched
<1>4. ASSUME NEW t \in Actors, Stop(t)
      PROVE  SleeperIsWatched'
  BY <1>4 DEF Stop, Goto, StopAll, Interrupt, queueVars, wakeVars, threadVars, opVars,
       Types, Controls, HeldInLoop, SignalledOrHeld, SleeperIsWatched
<1>5. ASSUME NEW t \in Actors, Leave(t)
      PROVE  SleeperIsWatched'
  BY <1>5 DEF Leave, Goto, queueVars, wakeVars, threadVars, opVars, Types, Controls,
       HeldInLoop, SignalledOrHeld, SleeperIsWatched
<1>6. ASSUME NEW t \in Actors, TakeTask(t)
      PROVE  SleeperIsWatched'
  <2>1. TookTask(t)
    BY <1>6, TakeTaskDoes
  <2>2. Ahead
    BY <2>1, QueueAhead DEF TookTask
  <2> QED
    BY <2>1, <2>2, ZenonT(40) DEF TookTask, queueVars, wakeVars, threadVars, opVars,
         Types, Controls, HeldInLoop, SignalledOrHeld, SleeperIsWatched, Ahead
<1>7. ASSUME NEW t \in Actors, TakeOperation(t)
      PROVE  SleeperIsWatched'
  <2>1. TookOperation(t)
    BY <1>7, TakeOperationDoes
  <2>2. Ahead
    BY <2>1, QueueAhead DEF TookOperation
  <2> QED
    BY <2>1, <2>2, ZenonT(40) DEF TookOperation, Woke, queueVars, wakeVars,
         threadVars, opVars, Types, Controls, HeldInLoop, SignalledOrHeld,
         SleeperIsWatched, Ahead
<1>8. ASSUME NEW t \in Actors, Sleep(t)
      PROVE  SleeperIsWatched'
  BY <1>8 DEF Sleep, Goto, queueVars, wakeVars, threadVars, opVars, Types, Controls,
       HeldInLoop, SignalledOrHeld, SleeperIsWatched
<1>9. ASSUME NEW t \in Actors, Awake(t)
      PROVE  SleeperIsWatched'
  <2>1. Awoke(t)
    BY <1>9, AwakeDoes
  <2> QED
    BY <2>1 DEF Awoke, queueVars, wakeVars, threadVars, opVars, Types, Controls,
         HeldInLoop, SignalledOrHeld, SleeperIsWatched
<1>10. ASSUME NEW t \in Actors, RunTask(t)
      PROVE  SleeperIsWatched'
  <2>1. RanTask(t)
    BY <1>10, RunTaskDoes
  <2> QED
    BY <2>1 DEF RanTask, queueVars, wakeVars, threadVars, opVars, Types, Controls,
         HeldInLoop, SignalledOrHeld, SleeperIsWatched
<1>11. ASSUME NEW t \in Actors, TaskCleanup(t)
      PROVE  SleeperIsWatched'
  BY <1>11 DEF TaskCleanup, Goto, queueVars, wakeVars, threadVars, opVars, Types,
       Controls, HeldInLoop, SignalledOrHeld, SleeperIsWatched
<1>12. ASSUME NEW t \in Actors, Perform(t)
      PROVE  SleeperIsWatched'
  <2>1. Performed(t) /\ current[t] \in Ops
    BY <1>12, PerformDoes DEF Performed, Controls, Completing
  <2> QED
    BY <2>1 DEF Performed, queueVars, wakeVars, threadVars, opVars, Types, Controls,
         HeldInLoop, SignalledOrHeld, SleeperIsWatched
<1>13. ASSUME NEW t \in Actors, Push(t)
      PROVE  SleeperIsWatched'
  <2>1. Woke(t, Back(t)) /\ posting[t] \in Ops
    BY <1>13, WakeDoes DEF Push, Controls, Types
  <2> QED
    BY <1>13, <2>1 DEF Push, Woke, Back, queueVars, wakeVars, threadVars, opVars,
         Types, Controls, HeldInLoop, SignalledOrHeld, SleeperIsWatched
<1>14. ASSUME NEW t \in Actors, WorkCleanup(t)
      PROVE  SleeperIsWatched'
  BY <1>14 DEF WorkCleanup, Goto, queueVars, wakeVars, threadVars, opVars, Types,
       Controls, HeldInLoop, SignalledOrHeld, SleeperIsWatched
<1>15. ASSUME NEW t \in Actors, PushPrivate(t)
      PROVE  SleeperIsWatched'
  BY <1>15 DEF PushPrivate, Goto, queueVars, wakeVars, threadVars, opVars, Types,
       Controls, HeldInLoop, SignalledOrHeld, SleeperIsWatched
<1>16. ASSUME NEW t \in Actors, SpuriousWakeup(t)
      PROVE  SleeperIsWatched'
  BY <1>16 DEF SpuriousWakeup, queueVars, wakeVars, threadVars, opVars, Types,
       Controls, HeldInLoop, SignalledOrHeld, SleeperIsWatched
<1>17. ASSUME NEW t \in Actors, InitTask(t)
      PROVE  SleeperIsWatched'
  <2>1. Woke(t, Back(t))
    BY <1>17, WakeDoes DEF InitTask
  <2> QED
    BY <1>17, <2>1 DEF InitTask, Woke, Back, MayPost, queueVars, wakeVars, threadVars,
         opVars, Types, Controls, HeldInLoop, SignalledOrHeld, SleeperIsWatched
<1>18. ASSUME NEW t \in Actors, StopInHandler(t)
      PROVE  SleeperIsWatched'
  BY <1>18 DEF StopInHandler, Goto, queueVars, wakeVars, threadVars, opVars, Types,
       Controls, HeldInLoop, SignalledOrHeld, SleeperIsWatched
<1>19. ASSUME NEW t \in Actors, HandlerReturns(t)
      PROVE  SleeperIsWatched'
  BY <1>19 DEF HandlerReturns, Goto, queueVars, wakeVars, threadVars, opVars, Types,
       Controls, HeldInLoop, SignalledOrHeld, SleeperIsWatched
<1>20. ASSUME NEW t \in Actors, NEW o \in Ops, PostContinuation(t, o)
      PROVE  SleeperIsWatched'
  BY <1>20 DEF PostContinuation, queueVars, wakeVars, threadVars, opVars, Types,
       Controls, HeldInLoop, SignalledOrHeld, SleeperIsWatched
<1>21. ASSUME NEW t \in Actors, NEW o \in Ops, Post(t, o)
      PROVE  SleeperIsWatched'
  BY <1>21 DEF Post, Goto, MayPost, Back, queueVars, wakeVars, threadVars, opVars,
       Types, Controls, HeldInLoop, SignalledOrHeld, SleeperIsWatched
<1>22. ASSUME NEW t \in Actors, NEW o \in Ops, StartOp(t, o)
      PROVE  SleeperIsWatched'
  BY <1>22 DEF StartOp, MayPost, Back, queueVars, wakeVars, threadVars, opVars, Types,
       Controls, HeldInLoop, SignalledOrHeld, SleeperIsWatched
<1>23. ASSUME NEW o \in Ops, Ready(o)
      PROVE  SleeperIsWatched'
  BY <1>23 DEF Ready, queueVars, wakeVars, threadVars, opVars, Types, Controls,
       HeldInLoop, SignalledOrHeld, SleeperIsWatched
<1> QED
  BY <1>1, <1>2, <1>3, <1>4, <1>5, <1>6, <1>7, <1>8, <1>9, <1>10, <1>11, <1>12, <1>13,
       <1>14, <1>15, <1>16, <1>17, <1>18, <1>19, <1>20, <1>21, <1>22, <1>23 DEF Next,
       Proceed, Loop

\* Every step leaves somebody before a thread in epoll.
LEMMA BlockedIsWatchedStep ==
  ASSUME Types, Controls, TaskOnce, InterruptArrives, BlockedIsWatched, [Next]_schedulerVars
  PROVE  BlockedIsWatched'
<1> USE SchedulerAssumption DEF Actors
<1>1. CASE UNCHANGED schedulerVars
  BY <1>1 DEF schedulerVars, queueVars, wakeVars, threadVars, opVars, Types, Controls,
       TaskOnce, InReactor, InterruptArrives, Blocked, BlockedIsWatched
<1>2. ASSUME NEW t \in Actors, Run(t)
      PROVE  BlockedIsWatched'
  BY <1>2 DEF Run, Goto, queueVars, wakeVars, threadVars, opVars, Types, Controls,
       TaskOnce, InReactor, InterruptArrives, Blocked, BlockedIsWatched
<1>3. ASSUME NEW t \in Actors, Signal(t)
      PROVE  BlockedIsWatched'
  <2>1. Signalled(t)
    BY <1>3, SignalDoes
  <2> QED
    BY <2>1 DEF Signalled, queueVars, wakeVars, threadVars, opVars, Types, Controls,
         TaskOnce, InReactor, InterruptArrives, Blocked, BlockedIsWatched
<1>4. ASSUME NEW t \in Actors, Stop(t)
      PROVE  BlockedIsWatched'
  BY <1>4 DEF Stop, Goto, StopAll, Interrupt, queueVars, wakeVars, threadVars, opVars,
       Types, Controls, TaskOnce, InReactor, InterruptArrives, Blocked,
       BlockedIsWatched
<1>5. ASSUME NEW t \in Actors, Leave(t)
      PROVE  BlockedIsWatched'
  BY <1>5 DEF Leave, Goto, queueVars, wakeVars, threadVars, opVars, Types, Controls,
       TaskOnce, InReactor, InterruptArrives, Blocked, BlockedIsWatched
<1>6. ASSUME NEW t \in Actors, TakeTask(t)
      PROVE  BlockedIsWatched'
  <2>1. TookTask(t)
    BY <1>6, TakeTaskDoes
  <2>2. Ahead
    BY <2>1, QueueAhead DEF TookTask
  <2>3. \A u \in Actors \ {t} : pc'[u] = pc[u] /\ after'[u] = after[u]
    BY <2>1 DEF TookTask, Types
  <2>4. \A u \in Actors : ~InReactor(u)
    BY <2>1, <2>2 DEF TookTask, TaskOnce, InQueue, Ahead
  <2>5. \A u \in Actors \ {t} : ~Blocked(u)'
    BY <2>3, <2>4 DEF InReactor, Blocked
  <2>6. op_queue_' = << >> \/ ~blocks'[t]
    BY <2>1, <2>2 DEF TookTask, Types, Ahead
  <2> QED
    BY <1>6, <2>1, <2>2, <2>3, <2>4, <2>5, <2>6 DEF BlockedIsWatched, Blocked
<1>7. ASSUME NEW t \in Actors, TakeOperation(t)
      PROVE  BlockedIsWatched'
  <2>1. TookOperation(t)
    BY <1>7, TakeOperationDoes
  <2>2. Ahead
    BY <2>1, QueueAhead DEF TookOperation
  <2> QED
    BY <2>1, <2>2 DEF TookOperation, Woke, queueVars, wakeVars, threadVars, opVars,
         Types, Controls, TaskOnce, InReactor, InterruptArrives, Blocked,
         BlockedIsWatched, Ahead
<1>8. ASSUME NEW t \in Actors, Sleep(t)
      PROVE  BlockedIsWatched'
  BY <1>8 DEF Sleep, Goto, queueVars, wakeVars, threadVars, opVars, Types, Controls,
       TaskOnce, InReactor, InterruptArrives, Blocked, BlockedIsWatched
<1>9. ASSUME NEW t \in Actors, Awake(t)
      PROVE  BlockedIsWatched'
  <2>1. Awoke(t)
    BY <1>9, AwakeDoes
  <2> QED
    BY <2>1 DEF Awoke, queueVars, wakeVars, threadVars, opVars, Types, Controls,
         TaskOnce, InReactor, InterruptArrives, Blocked, BlockedIsWatched
<1>10. ASSUME NEW t \in Actors, RunTask(t)
      PROVE  BlockedIsWatched'
  <2>1. RanTask(t)
    BY <1>10, RunTaskDoes
  <2> QED
    BY <2>1 DEF RanTask, queueVars, wakeVars, threadVars, opVars, Types, Controls,
         TaskOnce, InReactor, InterruptArrives, Blocked, BlockedIsWatched
<1>11. ASSUME NEW t \in Actors, TaskCleanup(t)
      PROVE  BlockedIsWatched'
  BY <1>11 DEF TaskCleanup, Goto, queueVars, wakeVars, threadVars, opVars, Types,
       Controls, TaskOnce, InReactor, InterruptArrives, Blocked, BlockedIsWatched
<1>12. ASSUME NEW t \in Actors, Perform(t)
      PROVE  BlockedIsWatched'
  <2>1. Performed(t) /\ current[t] \in Ops
    BY <1>12, PerformDoes DEF Performed, Controls, Completing
  <2> QED
    BY <2>1 DEF Performed, queueVars, wakeVars, threadVars, opVars, Types, Controls,
         TaskOnce, InReactor, InterruptArrives, Blocked, BlockedIsWatched
<1>13. ASSUME NEW t \in Actors, Push(t)
      PROVE  BlockedIsWatched'
  <2>1. Woke(t, Back(t)) /\ posting[t] \in Ops
    BY <1>13, WakeDoes DEF Push, Controls, Types
  <2> QED
    BY <1>13, <2>1 DEF Push, Woke, Back, queueVars, wakeVars, threadVars, opVars,
         Types, Controls, TaskOnce, InReactor, InterruptArrives, Blocked,
         BlockedIsWatched
<1>14. ASSUME NEW t \in Actors, WorkCleanup(t)
      PROVE  BlockedIsWatched'
  BY <1>14 DEF WorkCleanup, Goto, queueVars, wakeVars, threadVars, opVars, Types,
       Controls, TaskOnce, InReactor, InterruptArrives, Blocked, BlockedIsWatched
<1>15. ASSUME NEW t \in Actors, PushPrivate(t)
      PROVE  BlockedIsWatched'
  BY <1>15 DEF PushPrivate, Goto, queueVars, wakeVars, threadVars, opVars, Types,
       Controls, TaskOnce, InReactor, InterruptArrives, Blocked, BlockedIsWatched
<1>16. ASSUME NEW t \in Actors, SpuriousWakeup(t)
      PROVE  BlockedIsWatched'
  BY <1>16 DEF SpuriousWakeup, queueVars, wakeVars, threadVars, opVars, Types,
       Controls, TaskOnce, InReactor, InterruptArrives, Blocked, BlockedIsWatched
<1>17. ASSUME NEW t \in Actors, InitTask(t)
      PROVE  BlockedIsWatched'
  <2>1. Woke(t, Back(t))
    BY <1>17, WakeDoes DEF InitTask
  <2> QED
    BY <1>17, <2>1 DEF InitTask, Woke, Back, MayPost, queueVars, wakeVars, threadVars,
         opVars, Types, Controls, TaskOnce, InReactor, InterruptArrives, Blocked,
         BlockedIsWatched
<1>18. ASSUME NEW t \in Actors, StopInHandler(t)
      PROVE  BlockedIsWatched'
  BY <1>18 DEF StopInHandler, Goto, queueVars, wakeVars, threadVars, opVars, Types,
       Controls, TaskOnce, InReactor, InterruptArrives, Blocked, BlockedIsWatched
<1>19. ASSUME NEW t \in Actors, HandlerReturns(t)
      PROVE  BlockedIsWatched'
  BY <1>19 DEF HandlerReturns, Goto, queueVars, wakeVars, threadVars, opVars, Types,
       Controls, TaskOnce, InReactor, InterruptArrives, Blocked, BlockedIsWatched
<1>20. ASSUME NEW t \in Actors, NEW o \in Ops, PostContinuation(t, o)
      PROVE  BlockedIsWatched'
  BY <1>20 DEF PostContinuation, queueVars, wakeVars, threadVars, opVars, Types,
       Controls, TaskOnce, InReactor, InterruptArrives, Blocked, BlockedIsWatched
<1>21. ASSUME NEW t \in Actors, NEW o \in Ops, Post(t, o)
      PROVE  BlockedIsWatched'
  BY <1>21 DEF Post, Goto, MayPost, Back, queueVars, wakeVars, threadVars, opVars,
       Types, Controls, TaskOnce, InReactor, InterruptArrives, Blocked,
       BlockedIsWatched
<1>22. ASSUME NEW t \in Actors, NEW o \in Ops, StartOp(t, o)
      PROVE  BlockedIsWatched'
  BY <1>22 DEF StartOp, MayPost, Back, queueVars, wakeVars, threadVars, opVars, Types,
       Controls, TaskOnce, InReactor, InterruptArrives, Blocked, BlockedIsWatched
<1>23. ASSUME NEW o \in Ops, Ready(o)
      PROVE  BlockedIsWatched'
  BY <1>23 DEF Ready, queueVars, wakeVars, threadVars, opVars, Types, Controls,
       TaskOnce, InReactor, InterruptArrives, Blocked, BlockedIsWatched
<1> QED
  BY <1>1, <1>2, <1>3, <1>4, <1>5, <1>6, <1>7, <1>8, <1>9, <1>10, <1>11, <1>12, <1>13,
       <1>14, <1>15, <1>16, <1>17, <1>18, <1>19, <1>20, <1>21, <1>22, <1>23 DEF Next,
       Proceed, Loop

\* In words of sets: who is in the queue.
LEMMA QueueStages ==
  ASSUME Types, Stages
  PROVE  \A x \in Range(op_queue_) :
           /\ x \in Ops \cup {Task}
           /\ x # Task => stage[x] # "new"
                   /\ (Task \notin Range(op_queue_) => stage[x] = "posted")
<1> TAKE x \in Range(op_queue_)
<1>1. op_queue_ \in Seq(Ops \cup {Task}) /\ Ordered(op_queue_, stage)
  BY DEF Types, Stages
<1>2. x \in Ops \cup {Task}
  BY <1>1, ElementOfSeq, LenProperties DEF Range
<1>3. (x # Task) => stage[x] # "new" /\ (Task \notin Range(op_queue_) => stage[x]
        = "posted")
  BY <1>1, OrderedStages
<1> QED
  BY <1>2, <1>3

\* Every step keeps what came from the reactor before it.
LEMMA OrderedStep ==
  ASSUME Types, Controls, RunsOnce, Stages, PostedOnce, [Next]_schedulerVars
  PROVE  Ordered(op_queue_, stage)'
<1> USE SchedulerAssumption DEF Actors
<1>1. CASE UNCHANGED schedulerVars
  BY <1>1 DEF schedulerVars, queueVars, wakeVars, threadVars, opVars, Stages
<1>2. ASSUME NEW t \in Actors, Run(t)
      PROVE  Ordered(op_queue_, stage)'
  <2>1. UNCHANGED <<op_queue_, stage>>
    BY <1>2 DEF Run, Goto, queueVars, opVars
  <2> QED
    BY <2>1 DEF Stages
<1>3. ASSUME NEW t \in Actors, Signal(t)
      PROVE  Ordered(op_queue_, stage)'
  <2>1. Signalled(t)
    BY <1>3, SignalDoes
  <2>2. UNCHANGED <<op_queue_, stage>>
    BY <2>1 DEF Signalled, queueVars, opVars
  <2> QED
    BY <2>2 DEF Stages
<1>4. ASSUME NEW t \in Actors, Stop(t)
      PROVE  Ordered(op_queue_, stage)'
  <2>1. UNCHANGED <<op_queue_, stage>>
    BY <1>4 DEF Stop, Goto, StopAll, Interrupt, queueVars, opVars
  <2> QED
    BY <2>1 DEF Stages
<1>5. ASSUME NEW t \in Actors, Leave(t)
      PROVE  Ordered(op_queue_, stage)'
  <2>1. UNCHANGED <<op_queue_, stage>>
    BY <1>5 DEF Leave, Goto, queueVars, opVars
  <2> QED
    BY <2>1 DEF Stages
<1>6. ASSUME NEW t \in Actors, TakeTask(t)
      PROVE  Ordered(op_queue_, stage)'
  <2>1. TookTask(t)
    BY <1>6, TakeTaskDoes
  <2>2. Ahead
    BY <2>1, QueueAhead DEF TookTask
  <2>3. op_queue_ \in Seq(Ops \cup {Task}) /\ Ordered(op_queue_, stage) /\ op_queue_ # << >>
    BY <2>1 DEF TookTask, Types, Stages
  <2>4. Ordered(Tail(op_queue_), stage)
    BY <2>3, OrderedTail
  <2> QED
    BY <2>1, <2>4 DEF TookTask
<1>7. ASSUME NEW t \in Actors, TakeOperation(t)
      PROVE  Ordered(op_queue_, stage)'
  <2>1. TookOperation(t)
    BY <1>7, TakeOperationDoes
  <2>2. Ahead
    BY <2>1, QueueAhead DEF TookOperation
  <2>3. op_queue_ \in Seq(Ops \cup {Task}) /\ Ordered(op_queue_, stage) /\ op_queue_ # << >>
    BY <2>1 DEF TookOperation, Types, Stages
  <2>4. Ordered(Tail(op_queue_), stage)
    BY <2>3, OrderedTail
  <2> QED
    BY <2>1, <2>4 DEF TookOperation
<1>8. ASSUME NEW t \in Actors, Sleep(t)
      PROVE  Ordered(op_queue_, stage)'
  <2>1. UNCHANGED <<op_queue_, stage>>
    BY <1>8 DEF Sleep, Goto, queueVars, opVars
  <2> QED
    BY <2>1 DEF Stages
<1>9. ASSUME NEW t \in Actors, Awake(t)
      PROVE  Ordered(op_queue_, stage)'
  <2>1. Awoke(t)
    BY <1>9, AwakeDoes
  <2>2. UNCHANGED <<op_queue_, stage>>
    BY <2>1 DEF Awoke, queueVars, opVars
  <2> QED
    BY <2>2 DEF Stages
<1>10. ASSUME NEW t \in Actors, RunTask(t)
      PROVE  Ordered(op_queue_, stage)'
  <2>1. RanTask(t)
    BY <1>10, RunTaskDoes
  <2>2. UNCHANGED <<op_queue_, stage>>
    BY <2>1 DEF RanTask, queueVars, opVars
  <2> QED
    BY <2>2 DEF Stages
<1>11. ASSUME NEW t \in Actors, TaskCleanup(t)
      PROVE  Ordered(op_queue_, stage)'
  <2>1. op_queue_ \in Seq(Ops \cup {Task}) /\ Ordered(op_queue_, stage) /\ stage' = stage
    BY <1>11 DEF TaskCleanup, Types, Stages, opVars
  <2>2. op_queue_' = op_queue_ \o private_op_queue[t] \o <<Task>> /\ pc[t] = "taskDone"
    BY <1>11 DEF TaskCleanup
  <2>3. private_op_queue[t] \in Seq(Ops \cup {Task})
          /\ \A x \in Range(private_op_queue[t]) : stage[x] # "new"
    BY <2>2, QueuePushed DEF Stages, PrivateStages
  <2>4. op_queue_ \o private_op_queue[t] \in Seq(Ops \cup {Task})
    BY <2>1, <2>3, ConcatProperties
  <2>5. \A x \in Range(op_queue_ \o private_op_queue[t]) : stage[x] # "new" \/ x = Task
    BY <2>3, QueuePushed, QueueStages
  <2>6. Ordered(Append(op_queue_ \o private_op_queue[t], Task), stage)
    BY <2>4, <2>5, OrderedTask
  <2>7. Append(op_queue_ \o private_op_queue[t], Task)
          = op_queue_ \o private_op_queue[t] \o <<Task>>
    BY <2>4, AppendIsConcat
  <2> QED
    BY <2>1, <2>2, <2>6, <2>7
<1>12. ASSUME NEW t \in Actors, Perform(t)
      PROVE  Ordered(op_queue_, stage)'
  <2>1. Performed(t) /\ current[t] \in Ops
    BY <1>12, PerformDoes DEF Performed, Controls, Completing
  <2>2. \/ stage' = stage
        \/ /\ stage[current[t]] \in {"waits", "posted"}
           /\ stage' = [stage EXCEPT ![current[t]] = "running"]
    BY <2>1 DEF Performed
  <2>3. stage[current[t]] = "posted" => ~InQueue(current[t])
    BY <2>1 DEF Performed, PostedOnce, Has, Completing
  <2>4. op_queue_ \in Seq(Ops \cup {Task}) /\ Ordered(op_queue_, stage)
          /\ op_queue_' = op_queue_
    BY <2>1 DEF Performed, queueVars, Types, Stages
  <2>5. ASSUME NEW x \in Range(op_queue_) \ {Task}
        PROVE  /\ stage'[x] = "new" => stage[x] = "new"
               /\ stage[x] = "posted" => stage'[x] = "posted"
    <3>1. x \in Ops
      BY QueueStages
    <3> QED
      BY <2>1, <2>2, <2>3, <3>1 DEF InQueue, Types
  <2> QED
    BY <2>4, <2>5, OrderedStays
<1>13. ASSUME NEW t \in Actors, Push(t)
      PROVE  Ordered(op_queue_, stage)'
  <2>1. Woke(t, Back(t)) /\ posting[t] \in Ops
    BY <1>13, WakeDoes DEF Push, Controls, Types
  <2>2. op_queue_ \in Seq(Ops \cup {Task}) /\ Ordered(op_queue_, stage) /\ stage' = stage
    BY <1>13 DEF Push, Types, Stages, opVars
  <2>3. op_queue_' = Append(op_queue_, posting[t]) /\ stage[posting[t]] = "posted"
    BY <1>13, <2>1 DEF Push, Stages, PlaceStages
  <2> QED
    BY <2>1, <2>2, <2>3, OrderedMore
<1>14. ASSUME NEW t \in Actors, WorkCleanup(t)
      PROVE  Ordered(op_queue_, stage)'
  <2>1. UNCHANGED <<op_queue_, stage>>
    BY <1>14 DEF WorkCleanup, Goto, queueVars, opVars
  <2> QED
    BY <2>1 DEF Stages
<1>15. ASSUME NEW t \in Actors, PushPrivate(t)
      PROVE  Ordered(op_queue_, stage)'
  <2>1. op_queue_ \in Seq(Ops \cup {Task}) /\ Ordered(op_queue_, stage) /\ stage' = stage
    BY <1>15 DEF PushPrivate, Types, Stages, opVars
  <2>2. op_queue_' = op_queue_ \o private_op_queue[t] /\ pc[t] = "pushing"
    BY <1>15 DEF PushPrivate
  <2>3. private_op_queue[t] \in Seq(Ops \cup {Task})
          /\ \A x \in Range(private_op_queue[t]) : stage[x] = "posted"
    BY <2>2, QueuePushed DEF Stages, PrivateStages
  <2>4. Ordered(private_op_queue[t], stage)
    <3>1. \A i \in 1..Len(private_op_queue[t]) : private_op_queue[t][i] \in Range(private_op_queue[t])
      BY <2>3, LenProperties DEF Range
    <3> QED
      BY <2>3, <3>1 DEF Ordered
  <2> QED
    BY <2>1, <2>2, <2>3, <2>4, OrderedBoth
<1>16. ASSUME NEW t \in Actors, SpuriousWakeup(t)
      PROVE  Ordered(op_queue_, stage)'
  <2>1. UNCHANGED <<op_queue_, stage>>
    BY <1>16 DEF SpuriousWakeup, queueVars, opVars
  <2> QED
    BY <2>1 DEF Stages
<1>17. ASSUME NEW t \in Actors, InitTask(t)
      PROVE  Ordered(op_queue_, stage)'
  <2>1. op_queue_ \in Seq(Ops \cup {Task}) /\ Ordered(op_queue_, stage) /\ stage' = stage
    BY <1>17 DEF InitTask, Types, Stages, opVars
  <2>2. op_queue_' = Append(op_queue_, Task)
    BY <1>17 DEF InitTask
  <2> QED
    BY <2>1, <2>2, OrderedMore
<1>18. ASSUME NEW t \in Actors, StopInHandler(t)
      PROVE  Ordered(op_queue_, stage)'
  <2>1. UNCHANGED <<op_queue_, stage>>
    BY <1>18 DEF StopInHandler, Goto, queueVars, opVars
  <2> QED
    BY <2>1 DEF Stages
<1>19. ASSUME NEW t \in Actors, HandlerReturns(t)
      PROVE  Ordered(op_queue_, stage)'
  <2>1. stage[current[t]] = "running" /\ current[t] \in Ops
          /\ stage' = [stage EXCEPT ![current[t]] = "done"]
    BY <1>19 DEF HandlerReturns, RunsOnce, InHandler, Controls, Counting
  <2>2. op_queue_ \in Seq(Ops \cup {Task}) /\ Ordered(op_queue_, stage)
          /\ op_queue_' = op_queue_
    BY <1>19 DEF HandlerReturns, Goto, queueVars, Types, Stages
  <2>3. ASSUME NEW x \in Range(op_queue_) \ {Task}
        PROVE  /\ stage'[x] = "new" => stage[x] = "new"
               /\ stage[x] = "posted" => stage'[x] = "posted"
    <3>1. x \in Ops
      BY QueueStages
    <3> QED
      BY <1>19, <2>1, <3>1 DEF InQueue, Types
  <2> QED
    BY <2>2, <2>3, OrderedStays
<1>20. ASSUME NEW t \in Actors, NEW o \in Ops, PostContinuation(t, o)
      PROVE  Ordered(op_queue_, stage)'
  <2>1. ~InQueue(o) /\ o # Task
    BY <1>20, QueueStages DEF PostContinuation, InQueue
  <2>2. \E s \in {"waits", "posted"} : stage' = [stage EXCEPT ![o] = s]
    BY <1>20 DEF PostContinuation
  <2>3. op_queue_ \in Seq(Ops \cup {Task}) /\ Ordered(op_queue_, stage)
          /\ op_queue_' = op_queue_
    BY <1>20 DEF PostContinuation, queueVars, Types, Stages
  <2>4. ASSUME NEW x \in Range(op_queue_) \ {Task}
        PROVE  /\ stage'[x] = "new" => stage[x] = "new"
               /\ stage[x] = "posted" => stage'[x] = "posted"
    <3>1. x \in Ops
      BY QueueStages
    <3> QED
      BY <1>20, <2>1, <2>2, <3>1 DEF InQueue, Types
  <2> QED
    BY <2>3, <2>4, OrderedStays
<1>21. ASSUME NEW t \in Actors, NEW o \in Ops, Post(t, o)
      PROVE  Ordered(op_queue_, stage)'
  <2>1. ~InQueue(o) /\ o # Task
    BY <1>21, QueueStages DEF Post, InQueue
  <2>2. \E s \in {"waits", "posted"} : stage' = [stage EXCEPT ![o] = s]
    BY <1>21 DEF Post
  <2>3. op_queue_ \in Seq(Ops \cup {Task}) /\ Ordered(op_queue_, stage)
          /\ op_queue_' = op_queue_
    BY <1>21 DEF Post, Goto, MayPost, Back, queueVars, Types, Stages
  <2>4. ASSUME NEW x \in Range(op_queue_) \ {Task}
        PROVE  /\ stage'[x] = "new" => stage[x] = "new"
               /\ stage[x] = "posted" => stage'[x] = "posted"
    <3>1. x \in Ops
      BY QueueStages
    <3> QED
      BY <1>21, <2>1, <2>2, <3>1 DEF InQueue, Types
  <2> QED
    BY <2>3, <2>4, OrderedStays
<1>22. ASSUME NEW t \in Actors, NEW o \in Ops, StartOp(t, o)
      PROVE  Ordered(op_queue_, stage)'
  <2>1. ~InQueue(o) /\ o # Task
    BY <1>22, QueueStages DEF StartOp, InQueue
  <2>2. \E s \in {"waits", "posted"} : stage' = [stage EXCEPT ![o] = s]
    BY <1>22 DEF StartOp
  <2>3. op_queue_ \in Seq(Ops \cup {Task}) /\ Ordered(op_queue_, stage)
          /\ op_queue_' = op_queue_
    BY <1>22 DEF StartOp, MayPost, Back, queueVars, Types, Stages
  <2>4. ASSUME NEW x \in Range(op_queue_) \ {Task}
        PROVE  /\ stage'[x] = "new" => stage[x] = "new"
               /\ stage[x] = "posted" => stage'[x] = "posted"
    <3>1. x \in Ops
      BY QueueStages
    <3> QED
      BY <1>22, <2>1, <2>2, <3>1 DEF InQueue, Types
  <2> QED
    BY <2>3, <2>4, OrderedStays
<1>23. ASSUME NEW o \in Ops, Ready(o)
      PROVE  Ordered(op_queue_, stage)'
  <2>1. UNCHANGED <<op_queue_, stage>>
    BY <1>23 DEF Ready, queueVars, opVars
  <2> QED
    BY <2>1 DEF Stages
<1> QED
  BY <1>1, <1>2, <1>3, <1>4, <1>5, <1>6, <1>7, <1>8, <1>9, <1>10, <1>11, <1>12, <1>13,
       <1>14, <1>15, <1>16, <1>17, <1>18, <1>19, <1>20, <1>21, <1>22, <1>23 DEF Next,
       Proceed, Loop

\* Every step keeps what was posted apart from what was ready in a private queue.
LEMMA PrivateStagesStep ==
  ASSUME Types, Controls, RunsOnce, Stages, PostedOnce, [Next]_schedulerVars
  PROVE  PrivateStages'
<1> USE SchedulerAssumption DEF Actors, Stages
<1>1. CASE UNCHANGED schedulerVars
  BY <1>1 DEF schedulerVars, queueVars, wakeVars, threadVars, opVars, Types, Stages,
       PrivateStages
<1>2. ASSUME NEW t \in Actors, Run(t)
      PROVE  PrivateStages'
  <2>1. UNCHANGED <<private_op_queue, stage>>
    BY <1>2 DEF Run, Goto, opVars, threadVars, opVars
  <2>2. \A u \in Actors : (pc'[u] = "taskDone") <=> (pc[u] = "taskDone")
    BY <1>2 DEF Run, Goto, threadVars, Types, Controls
  <2> QED
    BY <2>1, <2>2 DEF PrivateStages
<1>3. ASSUME NEW t \in Actors, Signal(t)
      PROVE  PrivateStages'
  <2>1. Signalled(t)
    BY <1>3, SignalDoes
  <2>2. UNCHANGED <<private_op_queue, stage>>
    BY <2>1 DEF Signalled, opVars, threadVars, opVars
  <2>3. \A u \in Actors : (pc'[u] = "taskDone") <=> (pc[u] = "taskDone")
    BY <2>1 DEF Signalled, threadVars, Types, Controls
  <2> QED
    BY <2>2, <2>3 DEF PrivateStages
<1>4. ASSUME NEW t \in Actors, Stop(t)
      PROVE  PrivateStages'
  <2>1. UNCHANGED <<private_op_queue, stage>>
    BY <1>4 DEF Stop, Goto, StopAll, Interrupt, opVars, threadVars, opVars
  <2>2. \A u \in Actors : (pc'[u] = "taskDone") <=> (pc[u] = "taskDone")
    BY <1>4 DEF Stop, Goto, StopAll, Interrupt, threadVars, Types, Controls
  <2> QED
    BY <2>1, <2>2 DEF PrivateStages
<1>5. ASSUME NEW t \in Actors, Leave(t)
      PROVE  PrivateStages'
  <2>1. UNCHANGED <<private_op_queue, stage>>
    BY <1>5 DEF Leave, Goto, opVars, threadVars, opVars
  <2>2. \A u \in Actors : (pc'[u] = "taskDone") <=> (pc[u] = "taskDone")
    BY <1>5 DEF Leave, Goto, threadVars, Types, Controls
  <2> QED
    BY <2>1, <2>2 DEF PrivateStages
<1>6. ASSUME NEW t \in Actors, TakeTask(t)
      PROVE  PrivateStages'
  <2>1. TookTask(t)
    BY <1>6, TakeTaskDoes
  <2>2. Ahead
    BY <2>1, QueueAhead DEF TookTask
  <2>3. UNCHANGED <<private_op_queue, stage>>
    BY <2>1 DEF TookTask, opVars, threadVars, opVars
  <2>4. \A u \in Actors : (pc'[u] = "taskDone") <=> (pc[u] = "taskDone")
    BY <2>1 DEF TookTask, threadVars, Types, Controls
  <2> QED
    BY <2>3, <2>4 DEF PrivateStages
<1>7. ASSUME NEW t \in Actors, TakeOperation(t)
      PROVE  PrivateStages'
  <2>1. TookOperation(t)
    BY <1>7, TakeOperationDoes
  <2>2. Ahead
    BY <2>1, QueueAhead DEF TookOperation
  <2>3. UNCHANGED <<private_op_queue, stage>>
    BY <2>1 DEF TookOperation, Woke, opVars, threadVars, opVars
  <2>4. \A u \in Actors : (pc'[u] = "taskDone") <=> (pc[u] = "taskDone")
    BY <2>1 DEF TookOperation, Woke, threadVars, Types, Controls
  <2> QED
    BY <2>3, <2>4 DEF PrivateStages
<1>8. ASSUME NEW t \in Actors, Sleep(t)
      PROVE  PrivateStages'
  <2>1. UNCHANGED <<private_op_queue, stage>>
    BY <1>8 DEF Sleep, Goto, opVars, threadVars, opVars
  <2>2. \A u \in Actors : (pc'[u] = "taskDone") <=> (pc[u] = "taskDone")
    BY <1>8 DEF Sleep, Goto, threadVars, Types, Controls
  <2> QED
    BY <2>1, <2>2 DEF PrivateStages
<1>9. ASSUME NEW t \in Actors, Awake(t)
      PROVE  PrivateStages'
  <2>1. Awoke(t)
    BY <1>9, AwakeDoes
  <2>2. UNCHANGED <<private_op_queue, stage>>
    BY <2>1 DEF Awoke, opVars, threadVars, opVars
  <2>3. \A u \in Actors : (pc'[u] = "taskDone") <=> (pc[u] = "taskDone")
    BY <2>1 DEF Awoke, threadVars, Types, Controls
  <2> QED
    BY <2>2, <2>3 DEF PrivateStages
<1>10. ASSUME NEW t \in Actors, RunTask(t)
      PROVE  PrivateStages'
  <2>1. RanTask(t)
    BY <1>10, RunTaskDoes
  <2>2. /\ \A u \in Actors \ {t} : private_op_queue'[u] = private_op_queue[u]
          /\ pc'[u] = pc[u]
        /\ UNCHANGED stage
    BY <2>1 DEF RanTask, Types
  <2>3. pc'[t] = "taskDone" /\ Range(private_op_queue'[t]) \subseteq ready
    BY <2>1 DEF RanTask, Types
  <2> QED
    BY <2>1, <2>2, <2>3 DEF PlaceStages, PrivateStages
<1>11. ASSUME NEW t \in Actors, TaskCleanup(t)
      PROVE  PrivateStages'
  <2>1. /\ \A u \in Actors \ {t} : private_op_queue'[u] = private_op_queue[u]
          /\ pc'[u] = pc[u]
        /\ UNCHANGED stage
    BY <1>11 DEF TaskCleanup, Goto, opVars, Types
  <2>2. private_op_queue'[t] = << >>
    BY <1>11 DEF TaskCleanup, Types
  <2>3. Range(private_op_queue'[t]) = {}
    BY <2>2, RangeOfNone
  <2> QED
    BY <2>1, <2>2, <2>3 DEF PrivateStages
<1>12. ASSUME NEW t \in Actors, Perform(t)
      PROVE  PrivateStages'
  <2>1. Performed(t) /\ current[t] \in Ops
    BY <1>12, PerformDoes DEF Performed, Controls, Completing
  <2>2. UNCHANGED private_op_queue /\ Completing(t)
    BY <2>1 DEF Performed, Completing
  <2>3. \A u \in Actors : (pc'[u] = "taskDone") <=> (pc[u] = "taskDone")
    BY <2>1 DEF Performed, Types
  <2>4. \/ stage' = stage
        \/ /\ stage[current[t]] \in {"waits", "posted"}
           /\ stage' = [stage EXCEPT ![current[t]] = "running"]
    BY <2>1 DEF Performed
  <2>5. \A u \in Actors : Range(private_op_queue[u]) \subseteq Ops
    BY QueuePushed
  <2>6. stage[current[t]] = "posted"
          => \A u \in Actors : current[t] \notin Range(private_op_queue[u])
    BY <2>1, <2>2 DEF PostedOnce, Has
  <2>7. \A p \in Ops : stage'[p] = stage[p] \/ (p = current[t]
          /\ stage'[p] = "running" /\ stage[p] \in {"waits", "posted"})
    BY <2>1, <2>4 DEF Types
  <2> QED
    BY <2>1, <2>2, <2>3, <2>4, <2>5, <2>6, <2>7 DEF PrivateStages
<1>13. ASSUME NEW t \in Actors, Push(t)
      PROVE  PrivateStages'
  <2>1. Woke(t, Back(t)) /\ posting[t] \in Ops
    BY <1>13, WakeDoes DEF Push, Controls, Types
  <2>2. UNCHANGED <<private_op_queue, stage>>
    BY <1>13, <2>1 DEF Push, Woke, Back, opVars, threadVars, opVars
  <2>3. \A u \in Actors : (pc'[u] = "taskDone") <=> (pc[u] = "taskDone")
    BY <1>13, <2>1 DEF Push, Woke, Back, threadVars, Types, Controls
  <2> QED
    BY <2>2, <2>3 DEF PrivateStages
<1>14. ASSUME NEW t \in Actors, WorkCleanup(t)
      PROVE  PrivateStages'
  <2>1. UNCHANGED <<private_op_queue, stage>>
    BY <1>14 DEF WorkCleanup, Goto, opVars, threadVars, opVars
  <2>2. \A u \in Actors : (pc'[u] = "taskDone") <=> (pc[u] = "taskDone")
    BY <1>14 DEF WorkCleanup, Goto, threadVars, Types, Controls
  <2> QED
    BY <2>1, <2>2 DEF PrivateStages
<1>15. ASSUME NEW t \in Actors, PushPrivate(t)
      PROVE  PrivateStages'
  <2>1. /\ \A u \in Actors \ {t} : private_op_queue'[u] = private_op_queue[u]
          /\ pc'[u] = pc[u]
        /\ UNCHANGED stage
    BY <1>15 DEF PushPrivate, Goto, opVars, Types
  <2>2. private_op_queue'[t] = << >>
    BY <1>15 DEF PushPrivate, Types
  <2>3. Range(private_op_queue'[t]) = {}
    BY <2>2, RangeOfNone
  <2> QED
    BY <2>1, <2>2, <2>3 DEF PrivateStages
<1>16. ASSUME NEW t \in Actors, SpuriousWakeup(t)
      PROVE  PrivateStages'
  <2>1. UNCHANGED <<private_op_queue, stage>>
    BY <1>16 DEF SpuriousWakeup, opVars, threadVars, opVars
  <2>2. \A u \in Actors : (pc'[u] = "taskDone") <=> (pc[u] = "taskDone")
    BY <1>16 DEF SpuriousWakeup, threadVars, Types, Controls
  <2> QED
    BY <2>1, <2>2 DEF PrivateStages
<1>17. ASSUME NEW t \in Actors, InitTask(t)
      PROVE  PrivateStages'
  <2>1. Woke(t, Back(t))
    BY <1>17, WakeDoes DEF InitTask
  <2>2. UNCHANGED <<private_op_queue, stage>>
    BY <1>17, <2>1 DEF InitTask, Woke, Back, MayPost, opVars, threadVars, opVars
  <2>3. \A u \in Actors : (pc'[u] = "taskDone") <=> (pc[u] = "taskDone")
    BY <1>17, <2>1 DEF InitTask, Woke, Back, MayPost, threadVars, Types, Controls
  <2> QED
    BY <2>2, <2>3 DEF PrivateStages
<1>18. ASSUME NEW t \in Actors, StopInHandler(t)
      PROVE  PrivateStages'
  <2>1. UNCHANGED <<private_op_queue, stage>>
    BY <1>18 DEF StopInHandler, Goto, opVars, threadVars, opVars
  <2>2. \A u \in Actors : (pc'[u] = "taskDone") <=> (pc[u] = "taskDone")
    BY <1>18 DEF StopInHandler, Goto, threadVars, Types, Controls
  <2> QED
    BY <2>1, <2>2 DEF PrivateStages
<1>19. ASSUME NEW t \in Actors, HandlerReturns(t)
      PROVE  PrivateStages'
  <2>1. /\ stage[current[t]] = "running" /\ current[t] \in Ops /\ UNCHANGED private_op_queue
        /\ stage' = [stage EXCEPT ![current[t]] = "done"]
    BY <1>19 DEF HandlerReturns, RunsOnce, InHandler, Controls, Counting
  <2>2. \A u \in Actors : (pc'[u] = "taskDone") <=> (pc[u] = "taskDone")
    BY <1>19 DEF HandlerReturns, Goto, Types
  <2>3. \A u \in Actors : Range(private_op_queue[u]) \subseteq Ops
    BY QueuePushed
  <2>4. \A p \in Ops : stage'[p] = stage[p] \/ (p = current[t]
          /\ stage'[p] = "done" /\ stage[p] = "running")
    BY <2>1 DEF Types
  <2> QED
    BY <2>1, <2>2, <2>3, <2>4 DEF PrivateStages
<1>20. ASSUME NEW t \in Actors, NEW o \in Ops, PostContinuation(t, o)
      PROVE  PrivateStages'
  <2>1. pc[t] = "handler" /\ UNCHANGED pc /\ stage[o] = "new"
          /\ stage' = [stage EXCEPT ![o] = "posted"]
        /\ private_op_queue' = [private_op_queue EXCEPT ![t]
                = Append(private_op_queue[t], o)]
    BY <1>20 DEF PostContinuation
  <2>2. \A u \in Actors : Range(private_op_queue[u]) \subseteq Ops
    BY QueuePushed
  <2>3. Range(private_op_queue'[t]) = Range(private_op_queue[t]) \cup {o}
    BY <2>1, RangeOfMore DEF Types
  <2>4. \A u \in Actors \ {t} : private_op_queue'[u] = private_op_queue[u]
    BY <2>1 DEF Types
  <2>5. \A u \in Actors : o \notin Range(private_op_queue[u])
    BY <2>1 DEF PrivateStages
  <2>6. \A p \in Ops \ {o} : stage'[p] = stage[p]
    BY <2>1 DEF Types
  <2>7. stage'[o] = "posted"
    BY <2>1 DEF Types
  <2> QED
    BY <2>1, <2>2, <2>3, <2>4, <2>5, <2>6, <2>7 DEF PrivateStages
<1>21. ASSUME NEW t \in Actors, NEW o \in Ops, Post(t, o)
      PROVE  PrivateStages'
  <2>1. /\ stage[o] = "new" /\ UNCHANGED private_op_queue
        /\ \E s \in {"waits", "posted"} : stage' = [stage EXCEPT ![o] = s]
    BY <1>21 DEF Post, threadVars
  <2>2. \A u \in Actors : (pc'[u] = "taskDone") <=> (pc[u] = "taskDone")
    BY <1>21 DEF Post, Goto, MayPost, Back, threadVars, Types
  <2>3. \A u \in Actors : Range(private_op_queue[u]) \subseteq Ops
    BY QueuePushed
  <2>4. \A u \in Actors : o \notin Range(private_op_queue[u])
    BY <2>1 DEF PrivateStages
  <2>5. \A p \in Ops \ {o} : stage'[p] = stage[p]
    BY <2>1 DEF Types
  <2> QED
    BY <2>1, <2>2, <2>3, <2>4, <2>5 DEF PrivateStages
<1>22. ASSUME NEW t \in Actors, NEW o \in Ops, StartOp(t, o)
      PROVE  PrivateStages'
  <2>1. /\ stage[o] = "new" /\ UNCHANGED private_op_queue
        /\ \E s \in {"waits", "posted"} : stage' = [stage EXCEPT ![o] = s]
    BY <1>22 DEF StartOp, threadVars
  <2>2. \A u \in Actors : (pc'[u] = "taskDone") <=> (pc[u] = "taskDone")
    BY <1>22 DEF StartOp, MayPost, Back, threadVars, Types
  <2>3. \A u \in Actors : Range(private_op_queue[u]) \subseteq Ops
    BY QueuePushed
  <2>4. \A u \in Actors : o \notin Range(private_op_queue[u])
    BY <2>1 DEF PrivateStages
  <2>5. \A p \in Ops \ {o} : stage'[p] = stage[p]
    BY <2>1 DEF Types
  <2> QED
    BY <2>1, <2>2, <2>3, <2>4, <2>5 DEF PrivateStages
<1>23. ASSUME NEW o \in Ops, Ready(o)
      PROVE  PrivateStages'
  <2>1. UNCHANGED <<private_op_queue, stage>>
    BY <1>23 DEF Ready, opVars, threadVars, opVars
  <2>2. \A u \in Actors : (pc'[u] = "taskDone") <=> (pc[u] = "taskDone")
    BY <1>23 DEF Ready, threadVars, Types, Controls
  <2> QED
    BY <2>1, <2>2 DEF PrivateStages
<1> QED
  BY <1>1, <1>2, <1>3, <1>4, <1>5, <1>6, <1>7, <1>8, <1>9, <1>10, <1>11, <1>12, <1>13,
       <1>14, <1>15, <1>16, <1>17, <1>18, <1>19, <1>20, <1>21, <1>22, <1>23 DEF Next,
       Proceed, Loop

\* Every step moves an operation on where it is.
LEMMA PlaceStagesStep ==
  ASSUME Types, Controls, RunsOnce, Stages, PostedOnce, [Next]_schedulerVars
  PROVE  PlaceStages'
<1> USE SchedulerAssumption DEF Actors, Stages
<1>1. CASE UNCHANGED schedulerVars
  BY <1>1 DEF schedulerVars, queueVars, wakeVars, threadVars, opVars, Types, Stages,
       PlaceStages, Completing
<1>2. ASSUME NEW t \in Actors, Run(t)
      PROVE  PlaceStages'
  <2>1. /\ UNCHANGED <<stage, current, posting>> /\ \A o \in ready' : o \in ready
    BY <1>2 DEF Run, Goto, threadVars, opVars, Types, Completing
  <2>2. \A u \in Actors : /\ Completing(u)' => Completing(u)
                          /\ pc'[u] = "posting" => pc[u] = "posting"
    BY <1>2 DEF Run, Goto, threadVars, Types, Controls, Completing
  <2> QED
    BY <2>1, <2>2 DEF PlaceStages
<1>3. ASSUME NEW t \in Actors, Signal(t)
      PROVE  PlaceStages'
  <2>1. Signalled(t)
    BY <1>3, SignalDoes
  <2>2. /\ UNCHANGED <<stage, current, posting>> /\ \A o \in ready' : o \in ready
    BY <2>1 DEF Signalled, threadVars, opVars, Types, Completing
  <2>3. \A u \in Actors : /\ Completing(u)' => Completing(u)
                          /\ pc'[u] = "posting" => pc[u] = "posting"
    BY <2>1 DEF Signalled, threadVars, Types, Controls, Completing
  <2> QED
    BY <2>2, <2>3 DEF PlaceStages
<1>4. ASSUME NEW t \in Actors, Stop(t)
      PROVE  PlaceStages'
  <2>1. /\ UNCHANGED <<stage, current, posting>> /\ \A o \in ready' : o \in ready
    BY <1>4 DEF Stop, Goto, StopAll, Interrupt, threadVars, opVars, Types, Completing
  <2>2. \A u \in Actors : /\ Completing(u)' => Completing(u)
                          /\ pc'[u] = "posting" => pc[u] = "posting"
    BY <1>4 DEF Stop, Goto, StopAll, Interrupt, threadVars, Types, Controls, Completing
  <2> QED
    BY <2>1, <2>2 DEF PlaceStages
<1>5. ASSUME NEW t \in Actors, Leave(t)
      PROVE  PlaceStages'
  <2>1. /\ UNCHANGED <<stage, current, posting>> /\ \A o \in ready' : o \in ready
    BY <1>5 DEF Leave, Goto, threadVars, opVars, Types, Completing
  <2>2. \A u \in Actors : /\ Completing(u)' => Completing(u)
                          /\ pc'[u] = "posting" => pc[u] = "posting"
    BY <1>5 DEF Leave, Goto, threadVars, Types, Controls, Completing
  <2> QED
    BY <2>1, <2>2 DEF PlaceStages
<1>6. ASSUME NEW t \in Actors, TakeTask(t)
      PROVE  PlaceStages'
  <2>1. TookTask(t)
    BY <1>6, TakeTaskDoes
  <2>2. Ahead
    BY <2>1, QueueAhead DEF TookTask
  <2>3. /\ UNCHANGED <<stage, current, posting>> /\ \A o \in ready' : o \in ready
    BY <2>1 DEF TookTask, threadVars, opVars, Types, Completing
  <2>4. \A u \in Actors : /\ Completing(u)' => Completing(u)
                          /\ pc'[u] = "posting" => pc[u] = "posting"
    BY <2>1 DEF TookTask, threadVars, Types, Controls, Completing
  <2> QED
    BY <2>3, <2>4 DEF PlaceStages
<1>7. ASSUME NEW t \in Actors, TakeOperation(t)
      PROVE  PlaceStages'
  <2>1. TookOperation(t)
    BY <1>7, TakeOperationDoes
  <2>2. Ahead
    BY <2>1, QueueAhead DEF TookOperation
  <2>3. UNCHANGED <<stage, ready, posting>> /\ stage[op_queue_[1]] # "new"
          /\ current' = [current EXCEPT ![t] = op_queue_[1]]
    BY <2>1, <2>2, QueueStages DEF TookOperation, Ahead
  <2>4. \A u \in Actors \ {t} : pc'[u] = pc[u] /\ after'[u] = after[u]
    BY <2>1 DEF TookOperation, Woke, Types
  <2>5. pc'[t] # "posting"
    BY <2>1 DEF TookOperation, Woke, Types
  <2>6. current'[t] = op_queue_[1] /\ \A u \in Actors \ {t} : current'[u] = current[u]
    BY <2>3 DEF Types
  <2>7. \A u \in Actors \ {t} : Completing(u)' => Completing(u)
    BY <2>4 DEF Completing
  <2> QED
    BY <2>3, <2>4, <2>5, <2>6, <2>7 DEF PlaceStages
<1>8. ASSUME NEW t \in Actors, Sleep(t)
      PROVE  PlaceStages'
  <2>1. /\ UNCHANGED <<stage, current, posting>> /\ \A o \in ready' : o \in ready
    BY <1>8 DEF Sleep, Goto, threadVars, opVars, Types, Completing
  <2>2. \A u \in Actors : /\ Completing(u)' => Completing(u)
                          /\ pc'[u] = "posting" => pc[u] = "posting"
    BY <1>8 DEF Sleep, Goto, threadVars, Types, Controls, Completing
  <2> QED
    BY <2>1, <2>2 DEF PlaceStages
<1>9. ASSUME NEW t \in Actors, Awake(t)
      PROVE  PlaceStages'
  <2>1. Awoke(t)
    BY <1>9, AwakeDoes
  <2>2. /\ UNCHANGED <<stage, current, posting>> /\ \A o \in ready' : o \in ready
    BY <2>1 DEF Awoke, threadVars, opVars, Types, Completing
  <2>3. \A u \in Actors : /\ Completing(u)' => Completing(u)
                          /\ pc'[u] = "posting" => pc[u] = "posting"
    BY <2>1 DEF Awoke, threadVars, Types, Controls, Completing
  <2> QED
    BY <2>2, <2>3 DEF PlaceStages
<1>10. ASSUME NEW t \in Actors, RunTask(t)
      PROVE  PlaceStages'
  <2>1. RanTask(t)
    BY <1>10, RunTaskDoes
  <2>2. /\ UNCHANGED <<stage, current, posting>> /\ \A o \in ready' : o \in ready
    BY <2>1 DEF RanTask, threadVars, opVars, Types, Completing
  <2>3. \A u \in Actors : /\ Completing(u)' => Completing(u)
                          /\ pc'[u] = "posting" => pc[u] = "posting"
    BY <2>1 DEF RanTask, threadVars, Types, Controls, Completing
  <2> QED
    BY <2>2, <2>3 DEF PlaceStages
<1>11. ASSUME NEW t \in Actors, TaskCleanup(t)
      PROVE  PlaceStages'
  <2>1. /\ UNCHANGED <<stage, current, posting>> /\ \A o \in ready' : o \in ready
    BY <1>11 DEF TaskCleanup, Goto, threadVars, opVars, Types, Completing
  <2>2. \A u \in Actors : /\ Completing(u)' => Completing(u)
                          /\ pc'[u] = "posting" => pc[u] = "posting"
    BY <1>11 DEF TaskCleanup, Goto, threadVars, Types, Controls, Completing
  <2> QED
    BY <2>1, <2>2 DEF PlaceStages
<1>12. ASSUME NEW t \in Actors, Perform(t)
      PROVE  PlaceStages'
  <2>1. Performed(t) /\ current[t] \in Ops
    BY <1>12, PerformDoes DEF Performed, Controls, Completing
  <2>2. UNCHANGED <<ready, posting, current, after>> /\ Completing(t)
    BY <2>1 DEF Performed, Completing
  <2>3. \E l \in {"handler", "cleanup"} : pc' = [pc EXCEPT ![t] = l]
    BY <2>1 DEF Performed
  <2>4. \A u \in Actors : /\ Completing(u)' => Completing(u)
                          /\ pc'[u] = "posting" => pc[u] = "posting"
    BY <2>1, <2>3 DEF Performed, Completing, Types
  <2>5. \/ stage' = stage
        \/ /\ stage[current[t]] \in {"waits", "posted"}
           /\ stage' = [stage EXCEPT ![current[t]] = "running"]
    BY <2>1 DEF Performed
  <2>6. \A p \in Ops : stage'[p] = stage[p] \/ (p = current[t] /\ stage'[p] = "running")
    BY <2>1, <2>5 DEF Types
  <2>7. \A u \in Actors : pc[u] = "posting" => posting[u] \in Ops
          /\ stage[posting[u]] = "posted"
    BY DEF PlaceStages, Controls, Types
  <2>8. \A u \in Actors : pc[u] = "posting" => posting[u] # current[t]
    BY <2>1, <2>2, <2>7 DEF PostedOnce, Has, Completing, Performed
  <2>9. \A u \in Actors : Completing(u) => current[u] \in Ops
    BY DEF Controls
  <2> QED
    BY <2>2, <2>4, <2>6, <2>7, <2>8, <2>9 DEF PlaceStages, Types
<1>13. ASSUME NEW t \in Actors, Push(t)
      PROVE  PlaceStages'
  <2>1. Woke(t, Back(t)) /\ posting[t] \in Ops
    BY <1>13, WakeDoes DEF Push, Controls, Types
  <2>2. UNCHANGED <<stage, ready, current>>
          /\ \A u \in Actors \ {t} : posting'[u] = posting[u] /\ pc'[u] = pc[u]
    BY <1>13, <2>1 DEF Push, Woke, opVars, Types
  <2>3. pc'[t] # "posting" /\ \A u \in Actors : Completing(u)' => Completing(u)
    BY <1>13, <2>1 DEF Push, Woke, Back, Types, Completing
  <2> QED
    BY <2>2, <2>3 DEF PlaceStages
<1>14. ASSUME NEW t \in Actors, WorkCleanup(t)
      PROVE  PlaceStages'
  <2>1. /\ UNCHANGED <<stage, posting>> /\ \A o \in ready' : o \in ready
        /\ \A u \in Actors : Completing(u)' => current'[u] = current[u]
    BY <1>14 DEF WorkCleanup, Goto, threadVars, opVars, Types, Completing
  <2>2. \A u \in Actors : /\ Completing(u)' => Completing(u)
                          /\ pc'[u] = "posting" => pc[u] = "posting"
    BY <1>14 DEF WorkCleanup, Goto, threadVars, Types, Controls, Completing
  <2> QED
    BY <2>1, <2>2 DEF PlaceStages
<1>15. ASSUME NEW t \in Actors, PushPrivate(t)
      PROVE  PlaceStages'
  <2>1. /\ UNCHANGED <<stage, current, posting>> /\ \A o \in ready' : o \in ready
    BY <1>15 DEF PushPrivate, Goto, threadVars, opVars, Types, Completing
  <2>2. \A u \in Actors : /\ Completing(u)' => Completing(u)
                          /\ pc'[u] = "posting" => pc[u] = "posting"
    BY <1>15 DEF PushPrivate, Goto, threadVars, Types, Controls, Completing
  <2> QED
    BY <2>1, <2>2 DEF PlaceStages
<1>16. ASSUME NEW t \in Actors, SpuriousWakeup(t)
      PROVE  PlaceStages'
  <2>1. /\ UNCHANGED <<stage, current, posting>> /\ \A o \in ready' : o \in ready
    BY <1>16 DEF SpuriousWakeup, threadVars, opVars, Types, Completing
  <2>2. \A u \in Actors : /\ Completing(u)' => Completing(u)
                          /\ pc'[u] = "posting" => pc[u] = "posting"
    BY <1>16 DEF SpuriousWakeup, threadVars, Types, Controls, Completing
  <2> QED
    BY <2>1, <2>2 DEF PlaceStages
<1>17. ASSUME NEW t \in Actors, InitTask(t)
      PROVE  PlaceStages'
  <2>1. Woke(t, Back(t))
    BY <1>17, WakeDoes DEF InitTask
  <2>2. /\ UNCHANGED <<stage, current, posting>> /\ \A o \in ready' : o \in ready
    BY <1>17, <2>1 DEF InitTask, Woke, Back, MayPost, threadVars, opVars, Types,
         Completing
  <2>3. \A u \in Actors : /\ Completing(u)' => Completing(u)
                          /\ pc'[u] = "posting" => pc[u] = "posting"
    BY <1>17, <2>1 DEF InitTask, Woke, Back, MayPost, threadVars, Types, Controls,
         Completing
  <2> QED
    BY <2>2, <2>3 DEF PlaceStages
<1>18. ASSUME NEW t \in Actors, StopInHandler(t)
      PROVE  PlaceStages'
  <2>1. /\ UNCHANGED <<stage, current, posting>> /\ \A o \in ready' : o \in ready
    BY <1>18 DEF StopInHandler, Goto, threadVars, opVars, Types, Completing
  <2>2. \A u \in Actors : /\ Completing(u)' => Completing(u)
                          /\ pc'[u] = "posting" => pc[u] = "posting"
    BY <1>18 DEF StopInHandler, Goto, threadVars, Types, Controls, Completing
  <2> QED
    BY <2>1, <2>2 DEF PlaceStages
<1>19. ASSUME NEW t \in Actors, HandlerReturns(t)
      PROVE  PlaceStages'
  <2>1. /\ stage[current[t]] = "running" /\ current[t] \in Ops
          /\ UNCHANGED <<current, posting, ready>>
        /\ stage' = [stage EXCEPT ![current[t]] = "done"]
    BY <1>19 DEF HandlerReturns, RunsOnce, InHandler, Controls, Counting
  <2>2. \A u \in Actors : /\ Completing(u)' => Completing(u)
                          /\ pc'[u] = "posting" => pc[u] = "posting"
    BY <1>19 DEF HandlerReturns, Goto, Completing, Types
  <2>3. \A p \in Ops : stage'[p] = stage[p] \/ (p = current[t]
          /\ stage'[p] = "done" /\ stage[p] = "running")
    BY <2>1 DEF Types
  <2>4. \A u \in Actors : pc[u] = "posting" => posting[u] \in Ops
    BY DEF Controls, Types
  <2>5. \A u \in Actors : Completing(u) => current[u] \in Ops
    BY DEF Controls
  <2> QED
    BY <2>1, <2>2, <2>3, <2>4, <2>5 DEF PlaceStages, Types
<1>20. ASSUME NEW t \in Actors, NEW o \in Ops, PostContinuation(t, o)
      PROVE  PlaceStages'
  <2>1. /\ stage[o] = "new" /\ UNCHANGED <<ready, current>>
        /\ \E s \in {"waits", "posted"} : stage' = [stage EXCEPT ![o] = s]
    BY <1>20 DEF PostContinuation, threadVars
  <2>2. \A p \in Ops \ {o} : stage'[p] = stage[p]
    BY <2>1 DEF Types
  <2>3. \A u \in Actors : /\ Completing(u) => current[u] \in Ops \ {o}
                          /\ pc[u] = "posting" => posting[u] \in Ops \ {o}
    BY <2>1 DEF PlaceStages, Controls, Types
  <2>4. ready \subseteq Ops \ {o}
    BY <2>1 DEF PlaceStages, Types
  <2>5. UNCHANGED posting /\ \A u \in Actors : (Completing(u)' <=> Completing(u))
          /\ pc'[u] = pc[u]
    BY <1>20 DEF PostContinuation, threadVars, Completing
  <2> QED
    BY <2>1, <2>2, <2>3, <2>4, <2>5 DEF PlaceStages
<1>21. ASSUME NEW t \in Actors, NEW o \in Ops, Post(t, o)
      PROVE  PlaceStages'
  <2>1. /\ stage[o] = "new" /\ UNCHANGED <<ready, current>>
        /\ \E s \in {"waits", "posted"} : stage' = [stage EXCEPT ![o] = s]
    BY <1>21 DEF Post, threadVars
  <2>2. \A p \in Ops \ {o} : stage'[p] = stage[p]
    BY <2>1 DEF Types
  <2>3. \A u \in Actors : /\ Completing(u) => current[u] \in Ops \ {o}
                          /\ pc[u] = "posting" => posting[u] \in Ops \ {o}
    BY <2>1 DEF PlaceStages, Controls, Types
  <2>4. ready \subseteq Ops \ {o}
    BY <2>1 DEF PlaceStages, Types
  <2>5. \A u \in Actors \ {t} : posting'[u] = posting[u] /\ pc'[u] = pc[u]
    BY <1>21 DEF Post, Goto, Types
  <2>6. posting'[t] = o /\ stage'[o] = "posted"
    BY <1>21 DEF Post, Types
  <2>7. \A u \in Actors : Completing(u)' => Completing(u)
    BY <1>21 DEF Post, Goto, Completing, Types
  <2> QED
    BY <2>1, <2>2, <2>3, <2>4, <2>5, <2>6, <2>7 DEF PlaceStages
<1>22. ASSUME NEW t \in Actors, NEW o \in Ops, StartOp(t, o)
      PROVE  PlaceStages'
  <2>1. /\ stage[o] = "new" /\ UNCHANGED <<ready, current>>
        /\ \E s \in {"waits", "posted"} : stage' = [stage EXCEPT ![o] = s]
    BY <1>22 DEF StartOp, threadVars
  <2>2. \A p \in Ops \ {o} : stage'[p] = stage[p]
    BY <2>1 DEF Types
  <2>3. \A u \in Actors : /\ Completing(u) => current[u] \in Ops \ {o}
                          /\ pc[u] = "posting" => posting[u] \in Ops \ {o}
    BY <2>1 DEF PlaceStages, Controls, Types
  <2>4. ready \subseteq Ops \ {o}
    BY <2>1 DEF PlaceStages, Types
  <2>5. UNCHANGED posting /\ \A u \in Actors : (Completing(u)' <=> Completing(u))
          /\ pc'[u] = pc[u]
    BY <1>22 DEF StartOp, threadVars, Completing
  <2> QED
    BY <2>1, <2>2, <2>3, <2>4, <2>5 DEF PlaceStages
<1>23. ASSUME NEW o \in Ops, Ready(o)
      PROVE  PlaceStages'
  <2>1. stage[o] = "waits" /\ ready' = ready \cup {o}
          /\ UNCHANGED <<stage, current, posting, pc, after>>
    BY <1>23 DEF Ready, threadVars
  <2> QED
    BY <2>1 DEF PlaceStages, Completing
<1> QED
  BY <1>1, <1>2, <1>3, <1>4, <1>5, <1>6, <1>7, <1>8, <1>9, <1>10, <1>11, <1>12, <1>13,
       <1>14, <1>15, <1>16, <1>17, <1>18, <1>19, <1>20, <1>21, <1>22, <1>23 DEF Next,
       Proceed, Loop

\* An operation is in no place where it was not.
Fewer(o) ==
  /\ InQueue(o)' => InQueue(o)
  /\ \A u \in Actors :
       /\ o \in Range(private_op_queue'[u]) => o \in Range(private_op_queue[u])
       /\ posting'[u] = o => posting[u] = o
       /\ Completing(u)' /\ current'[u] = o => Completing(u) /\ current[u] = o

\* An operation is with t only, and once.
OnlyWith(t, o) ==
  /\ ~InQueue(o)
  /\ \A u \in Actors \ {t} : ~Has(u, o)
  /\ o \in Range(private_op_queue[t]) =>
       posting[t] # o /\ ~(Completing(t) /\ current[t] = o)

\* What was posted stays in one place if each operation does.
LEMMA PostedOnceMoves ==
  ASSUME PostedOnce,
         \A o \in Ops : stage'[o] = "posted" =>
           \/ stage[o] = "posted" /\ Fewer(o)
           \/ \A u \in Actors : ~Has(u, o)'
           \/ \E t \in Actors : OnlyWith(t, o)'
  PROVE  PostedOnce'
<1> SUFFICES ASSUME NEW o \in Ops, stage'[o] = "posted"
             PROVE  /\ \A t \in Actors : Has(t, o)' => ~InQueue(o)'
                    /\ \A t \in Actors : o \in Range(private_op_queue'[t]) =>
                         posting'[t] # o /\ ~(Completing(t)' /\ current'[t] = o)
                    /\ \A t, u \in Actors : Has(t, o)' /\ Has(u, o)' => t = u
  BY DEF PostedOnce
<1>1. CASE stage[o] = "posted" /\ Fewer(o)
  <2>1. \A u \in Actors : Has(u, o)' => Has(u, o)
    BY <1>1 DEF Fewer, Has
  <2> QED
    BY <1>1, <2>1 DEF Fewer, PostedOnce
<1>2. CASE \A u \in Actors : ~Has(u, o)'
  BY <1>2 DEF Has
<1>3. CASE \E t \in Actors : OnlyWith(t, o)'
  <2>1. PICK t \in Actors : OnlyWith(t, o)'
    BY <1>3
  <2> QED
    BY <2>1 DEF OnlyWith, Has
<1> QED
  BY <1>1, <1>2, <1>3

\* Every step keeps what was posted in one place.
LEMMA PostedOnceStep ==
  ASSUME Types, Controls, TaskOnce, RunsOnce, Stages, PostedOnce, QueuesDistinct, [Next]_schedulerVars
  PROVE  PostedOnce'
<1> USE SchedulerAssumption DEF Actors
<1>1. CASE UNCHANGED schedulerVars
  <2>1. \A p \in Ops : Fewer(p)
    BY <1>1 DEF schedulerVars, queueVars, wakeVars, threadVars, opVars, Fewer,
         InQueue, Completing
  <2> QED
    BY <1>1, <2>1, PostedOnceMoves DEF schedulerVars, opVars
<1>2. ASSUME NEW t \in Actors, Run(t)
      PROVE  PostedOnce'
  <2>1. UNCHANGED <<private_op_queue, posting>>
          /\ \A u \in Actors : Completing(u)' => Completing(u) /\ current'[u] = current[u]
    BY <1>2 DEF Run, Goto, threadVars, Types, Controls, Completing
  <2>2. op_queue_' = op_queue_
    BY <1>2 DEF Run, Goto, queueVars
  <2>3. stage' = stage
    BY <1>2 DEF Run, Goto, opVars
  <2>4. \A p \in Ops : Fewer(p)
    BY <2>1, <2>2 DEF Fewer, InQueue
  <2> QED
    BY <2>3, <2>4, PostedOnceMoves
<1>3. ASSUME NEW t \in Actors, Signal(t)
      PROVE  PostedOnce'
  <2>1. Signalled(t)
    BY <1>3, SignalDoes
  <2>2. UNCHANGED <<private_op_queue, posting>>
          /\ \A u \in Actors : Completing(u)' => Completing(u) /\ current'[u] = current[u]
    BY <2>1 DEF Signalled, threadVars, Types, Controls, Completing
  <2>3. op_queue_' = op_queue_
    BY <2>1 DEF Signalled, queueVars
  <2>4. stage' = stage
    BY <2>1 DEF Signalled, opVars
  <2>5. \A p \in Ops : Fewer(p)
    BY <2>2, <2>3 DEF Fewer, InQueue
  <2> QED
    BY <2>4, <2>5, PostedOnceMoves
<1>4. ASSUME NEW t \in Actors, Stop(t)
      PROVE  PostedOnce'
  <2>1. UNCHANGED <<private_op_queue, posting>>
          /\ \A u \in Actors : Completing(u)' => Completing(u) /\ current'[u] = current[u]
    BY <1>4 DEF Stop, Goto, StopAll, Interrupt, threadVars, Types, Controls, Completing
  <2>2. op_queue_' = op_queue_
    BY <1>4 DEF Stop, Goto, StopAll, Interrupt, queueVars
  <2>3. stage' = stage
    BY <1>4 DEF Stop, Goto, StopAll, Interrupt, opVars
  <2>4. \A p \in Ops : Fewer(p)
    BY <2>1, <2>2 DEF Fewer, InQueue
  <2> QED
    BY <2>3, <2>4, PostedOnceMoves
<1>5. ASSUME NEW t \in Actors, Leave(t)
      PROVE  PostedOnce'
  <2>1. UNCHANGED <<private_op_queue, posting>>
          /\ \A u \in Actors : Completing(u)' => Completing(u) /\ current'[u] = current[u]
    BY <1>5 DEF Leave, Goto, threadVars, Types, Controls, Completing
  <2>2. op_queue_' = op_queue_
    BY <1>5 DEF Leave, Goto, queueVars
  <2>3. stage' = stage
    BY <1>5 DEF Leave, Goto, opVars
  <2>4. \A p \in Ops : Fewer(p)
    BY <2>1, <2>2 DEF Fewer, InQueue
  <2> QED
    BY <2>3, <2>4, PostedOnceMoves
<1>6. ASSUME NEW t \in Actors, TakeTask(t)
      PROVE  PostedOnce'
  <2>1. TookTask(t)
    BY <1>6, TakeTaskDoes
  <2>2. Ahead
    BY <2>1, QueueAhead DEF TookTask
  <2>3. UNCHANGED <<private_op_queue, posting>>
          /\ \A u \in Actors : Completing(u)' => Completing(u) /\ current'[u] = current[u]
    BY <2>1 DEF TookTask, threadVars, Types, Controls, Completing
  <2>4. Range(op_queue_)' = Range(op_queue_) \ {Task} /\ Task \in Range(op_queue_)
    BY <2>1, RangeOfTail DEF TookTask, Types, QueuesDistinct
  <2>5. stage' = stage
    BY <2>1 DEF TookTask, opVars
  <2>6. \A p \in Ops : Fewer(p)
    BY <2>3, <2>4 DEF Fewer, InQueue
  <2> QED
    BY <2>5, <2>6, PostedOnceMoves
<1>7. ASSUME NEW t \in Actors, TakeOperation(t)
      PROVE  PostedOnce'
  <2>1. TookOperation(t)
    BY <1>7, TakeOperationDoes
  <2>2. Ahead
    BY <2>1, QueueAhead DEF TookOperation
  <2>3. UNCHANGED <<stage, private_op_queue, posting>> /\ op_queue_[1] \in Ops
          /\ current'[t] = op_queue_[1]
        /\ \A u \in Actors \ {t} : current'[u] = current[u]
    BY <2>1 DEF TookOperation, Types
  <2>4. Range(op_queue_)' = Range(op_queue_) \ {op_queue_[1]}
          /\ op_queue_[1] \in Range(op_queue_)
    BY <2>1, RangeOfTail DEF TookOperation, Types, QueuesDistinct
  <2>5. \A u \in Actors \ {t} : pc'[u] = pc[u] /\ after'[u] = after[u]
    BY <2>1 DEF TookOperation, Woke, Types
  <2>6. \A u \in Actors \ {t} : Completing(u)' => Completing(u)
    BY <2>5 DEF Completing
  <2>7. \A o \in Ops \ {op_queue_[1]} : Fewer(o)
    BY <2>3, <2>4, <2>6 DEF Fewer, InQueue
  <2>8. stage[op_queue_[1]] = "posted" => \A u \in Actors : ~Has(u, op_queue_[1])
    BY <2>3, <2>4 DEF PostedOnce, InQueue
  <2>9. \A o \in Ops : o = op_queue_[1] => ~InQueue(o)'
    BY <2>4 DEF InQueue
  <2>10. \A o \in Ops : o = op_queue_[1] /\ stage[o] = "posted"
          => \A u \in Actors \ {t} : ~Has(u, o)'
    BY <2>3, <2>6, <2>8 DEF Has
  <2>11. \A o \in Ops : o = op_queue_[1] /\ stage[o] = "posted"
          => o \notin Range(private_op_queue'[t])
    BY <2>3, <2>8 DEF Has
  <2>12. \A o \in Ops : o = op_queue_[1] /\ stage[o] = "posted" => OnlyWith(t, o)'
    BY <2>9, <2>10, <2>11 DEF OnlyWith
  <2>13. \A o \in Ops : stage'[o] = "posted" => (stage[o] = "posted"
          /\ Fewer(o)) \/ OnlyWith(t, o)'
    BY <2>3, <2>7, <2>12
  <2> QED
    BY <2>13, PostedOnceMoves
<1>8. ASSUME NEW t \in Actors, Sleep(t)
      PROVE  PostedOnce'
  <2>1. UNCHANGED <<private_op_queue, posting>>
          /\ \A u \in Actors : Completing(u)' => Completing(u) /\ current'[u] = current[u]
    BY <1>8 DEF Sleep, Goto, threadVars, Types, Controls, Completing
  <2>2. op_queue_' = op_queue_
    BY <1>8 DEF Sleep, Goto, queueVars
  <2>3. stage' = stage
    BY <1>8 DEF Sleep, Goto, opVars
  <2>4. \A p \in Ops : Fewer(p)
    BY <2>1, <2>2 DEF Fewer, InQueue
  <2> QED
    BY <2>3, <2>4, PostedOnceMoves
<1>9. ASSUME NEW t \in Actors, Awake(t)
      PROVE  PostedOnce'
  <2>1. Awoke(t)
    BY <1>9, AwakeDoes
  <2>2. UNCHANGED <<private_op_queue, posting>>
          /\ \A u \in Actors : Completing(u)' => Completing(u) /\ current'[u] = current[u]
    BY <2>1 DEF Awoke, threadVars, Types, Controls, Completing
  <2>3. op_queue_' = op_queue_
    BY <2>1 DEF Awoke, queueVars
  <2>4. stage' = stage
    BY <2>1 DEF Awoke, opVars
  <2>5. \A p \in Ops : Fewer(p)
    BY <2>2, <2>3 DEF Fewer, InQueue
  <2> QED
    BY <2>4, <2>5, PostedOnceMoves
<1>10. ASSUME NEW t \in Actors, RunTask(t)
      PROVE  PostedOnce'
  <2>1. RanTask(t)
    BY <1>10, RunTaskDoes
  <2>2. UNCHANGED <<op_queue_, stage, posting>>
          /\ \A u \in Actors : Completing(u)' => Completing(u) /\ current'[u] = current[u]
    BY <2>1 DEF RanTask, queueVars, Types, Completing
  <2>3. Range(private_op_queue'[t]) \subseteq ready
          /\ \A u \in Actors \ {t} : private_op_queue'[u] = private_op_queue[u]
    BY <2>1 DEF RanTask, Types
  <2>4. \A o \in Ops : stage'[o] = "posted" => stage[o] = "posted" /\ Fewer(o)
    BY <2>2, <2>3 DEF Fewer, InQueue, Stages, PlaceStages
  <2> QED
    BY <2>4, PostedOnceMoves
<1>11. ASSUME NEW t \in Actors, TaskCleanup(t)
      PROVE  PostedOnce'
  <2>1. UNCHANGED <<stage, posting>> /\ \A u \in Actors : Completing(u)'
          => Completing(u) /\ current'[u] = current[u]
    BY <1>11 DEF TaskCleanup, Goto, opVars, Types, Completing
  <2>2. private_op_queue'[t] = << >>
          /\ \A u \in Actors \ {t} : private_op_queue'[u] = private_op_queue[u]
    BY <1>11 DEF TaskCleanup, Types
  <2>3. Range(private_op_queue'[t]) = {}
    BY <2>2, RangeOfNone
  <2>4. Range(op_queue_)' = Range(op_queue_) \cup Range(private_op_queue[t]) \cup {Task}
    BY <1>11, QueuePushed DEF TaskCleanup
  <2>5. \A p \in Range(private_op_queue[t]) : stage[p] # "posted"
    BY <1>11 DEF TaskCleanup, Stages, PrivateStages
  <2>6. \A o \in Ops : stage'[o] = "posted" => stage[o] = "posted" /\ Fewer(o)
    BY <2>1, <2>2, <2>3, <2>4, <2>5 DEF Fewer, InQueue
  <2> QED
    BY <2>6, PostedOnceMoves
<1>12. ASSUME NEW t \in Actors, Perform(t)
      PROVE  PostedOnce'
  <2>1. Performed(t) /\ current[t] \in Ops
    BY <1>12, PerformDoes DEF Performed, Controls, Completing
  <2>2. UNCHANGED <<private_op_queue, posting>>
          /\ \A u \in Actors : Completing(u)' => Completing(u) /\ current'[u] = current[u]
    BY <2>1 DEF Performed, threadVars, Types, Controls, Completing
  <2>3. op_queue_' = op_queue_
    BY <2>1 DEF Performed, queueVars
  <2>4. \A p \in Ops : stage'[p] = "posted" => stage[p] = "posted"
    BY <2>1 DEF Performed, Types
  <2>5. \A p \in Ops : Fewer(p)
    BY <2>2, <2>3 DEF Fewer, InQueue
  <2> QED
    BY <2>4, <2>5, PostedOnceMoves
<1>13. ASSUME NEW t \in Actors, Push(t)
      PROVE  PostedOnce'
  <2>1. Woke(t, Back(t)) /\ posting[t] \in Ops
    BY <1>13, WakeDoes DEF Push, Controls, Types
  <2>2. UNCHANGED <<stage, private_op_queue, current>> /\ pc[t] = "posting"
        /\ \A u \in Actors : Completing(u)' => Completing(u)
    BY <1>13, <2>1 DEF Push, Woke, Back, opVars, Types, Completing
  <2>3. posting'[t] = Nobody /\ \A u \in Actors \ {t} : posting'[u] = posting[u]
    BY <1>13 DEF Push, Types
  <2>4. /\ op_queue_' = Append(op_queue_, posting[t])
        /\ posting[t] \in Ops \cup {Task}
    BY <1>13, <2>1 DEF Push
  <2>5. Range(op_queue_)' = Range(op_queue_) \cup {posting[t]}
    BY <2>4, QueueGrows
  <2>6. stage[posting[t]] = "posted" /\ posting[t] \in Ops
    BY <2>1, <2>2 DEF Stages, PlaceStages
  <2>7. \A o \in Ops \ {posting[t]} : Fewer(o)
    BY <2>2, <2>3, <2>5 DEF Fewer, InQueue
  <2>8. ~Completing(t) /\ Has(t, posting[t]) /\ posting[t] \notin Range(private_op_queue[t])
    BY <2>2, <2>6 DEF Completing, Has, PostedOnce
  <2>9. \A o \in Ops, u \in Actors : o = posting[t] /\ Has(u, o)' => Has(u, o) /\ u # t
    BY <2>2, <2>3, <2>6, <2>8 DEF Has
  <2>10. \A o \in Ops, u \in Actors : o = posting[t] => ~Has(u, o)'
    BY <2>6, <2>8, <2>9 DEF PostedOnce
  <2> QED
    BY <2>2, <2>6, <2>7, <2>10, PostedOnceMoves
<1>14. ASSUME NEW t \in Actors, WorkCleanup(t)
      PROVE  PostedOnce'
  <2>1. UNCHANGED <<private_op_queue, posting>>
          /\ \A u \in Actors : Completing(u)' => Completing(u) /\ current'[u] = current[u]
    BY <1>14 DEF WorkCleanup, Goto, threadVars, Types, Controls, Completing
  <2>2. op_queue_' = op_queue_
    BY <1>14 DEF WorkCleanup, Goto, queueVars
  <2>3. stage' = stage
    BY <1>14 DEF WorkCleanup, Goto, opVars
  <2>4. \A p \in Ops : Fewer(p)
    BY <2>1, <2>2 DEF Fewer, InQueue
  <2> QED
    BY <2>3, <2>4, PostedOnceMoves
<1>15. ASSUME NEW t \in Actors, PushPrivate(t)
      PROVE  PostedOnce'
  <2>1. UNCHANGED <<stage, posting>> /\ \A u \in Actors : Completing(u)'
          => Completing(u) /\ current'[u] = current[u]
    BY <1>15 DEF PushPrivate, Goto, opVars, Types, Completing
  <2>2. private_op_queue'[t] = << >>
          /\ \A u \in Actors \ {t} : private_op_queue'[u] = private_op_queue[u]
    BY <1>15 DEF PushPrivate, Types
  <2>3. Range(private_op_queue'[t]) = {}
    BY <2>2, RangeOfNone
  <2>4. Range(op_queue_)' = Range(op_queue_) \cup Range(private_op_queue[t])
    BY <1>15, QueuePushed DEF PushPrivate
  <2>5. \A o \in Ops \ Range(private_op_queue[t]) : Fewer(o)
    BY <2>1, <2>2, <2>3, <2>4 DEF Fewer, InQueue
  <2>6. \A u \in Actors, o \in Ops : Has(u, o)' => Has(u, o)
          /\ (u = t => o \notin Range(private_op_queue'[t]))
    BY <2>1, <2>2, <2>3 DEF Has
  <2>7. ~Completing(t)' /\ posting'[t] \notin Ops
    BY <1>15 DEF PushPrivate, Goto, Types, Completing, Controls
  <2>8. \A o \in Ops : ~Has(t, o)'
    BY <2>3, <2>7 DEF Has
  <2>9. \A o \in Range(private_op_queue[t]) : Has(t, o)
    BY DEF Has
  <2>10. \A o \in Ops : stage'[o] = "posted"
          /\ o \in Range(private_op_queue[t]) => \A u \in Actors : ~Has(u, o)'
    BY <2>1, <2>6, <2>8, <2>9 DEF PostedOnce
  <2> QED
    BY <2>1, <2>5, <2>10, PostedOnceMoves
<1>16. ASSUME NEW t \in Actors, SpuriousWakeup(t)
      PROVE  PostedOnce'
  <2>1. UNCHANGED <<private_op_queue, posting>>
          /\ \A u \in Actors : Completing(u)' => Completing(u) /\ current'[u] = current[u]
    BY <1>16 DEF SpuriousWakeup, threadVars, Types, Controls, Completing
  <2>2. op_queue_' = op_queue_
    BY <1>16 DEF SpuriousWakeup, queueVars
  <2>3. stage' = stage
    BY <1>16 DEF SpuriousWakeup, opVars
  <2>4. \A p \in Ops : Fewer(p)
    BY <2>1, <2>2 DEF Fewer, InQueue
  <2> QED
    BY <2>3, <2>4, PostedOnceMoves
<1>17. ASSUME NEW t \in Actors, InitTask(t)
      PROVE  PostedOnce'
  <2>1. Woke(t, Back(t))
    BY <1>17, WakeDoes DEF InitTask
  <2>2. UNCHANGED <<private_op_queue, posting>>
          /\ \A u \in Actors : Completing(u)' => Completing(u) /\ current'[u] = current[u]
    BY <1>17, <2>1 DEF InitTask, Woke, Back, MayPost, threadVars, Types, Controls,
         Completing
  <2>3. Range(op_queue_)' = Range(op_queue_) \cup {Task}
    BY <1>17, QueueGrows DEF InitTask
  <2>4. stage' = stage
    BY <1>17, <2>1 DEF InitTask, Woke, Back, MayPost, opVars
  <2>5. \A p \in Ops : Fewer(p)
    BY <2>2, <2>3 DEF Fewer, InQueue
  <2> QED
    BY <2>4, <2>5, PostedOnceMoves
<1>18. ASSUME NEW t \in Actors, StopInHandler(t)
      PROVE  PostedOnce'
  <2>1. UNCHANGED <<private_op_queue, posting>>
          /\ \A u \in Actors : Completing(u)' => Completing(u) /\ current'[u] = current[u]
    BY <1>18 DEF StopInHandler, Goto, threadVars, Types, Controls, Completing
  <2>2. op_queue_' = op_queue_
    BY <1>18 DEF StopInHandler, Goto, queueVars
  <2>3. stage' = stage
    BY <1>18 DEF StopInHandler, Goto, opVars
  <2>4. \A p \in Ops : Fewer(p)
    BY <2>1, <2>2 DEF Fewer, InQueue
  <2> QED
    BY <2>3, <2>4, PostedOnceMoves
<1>19. ASSUME NEW t \in Actors, HandlerReturns(t)
      PROVE  PostedOnce'
  <2>1. UNCHANGED <<private_op_queue, posting>>
          /\ \A u \in Actors : Completing(u)' => Completing(u) /\ current'[u] = current[u]
    BY <1>19 DEF HandlerReturns, Goto, threadVars, Types, Controls, Completing
  <2>2. op_queue_' = op_queue_
    BY <1>19 DEF HandlerReturns, Goto, queueVars
  <2>3. \A p \in Ops : stage'[p] = "posted" => stage[p] = "posted"
    BY <1>19 DEF HandlerReturns, Types, Controls, Counting, InHandler
  <2>4. \A p \in Ops : Fewer(p)
    BY <2>1, <2>2 DEF Fewer, InQueue
  <2> QED
    BY <2>3, <2>4, PostedOnceMoves
<1>20. ASSUME NEW t \in Actors, NEW o \in Ops, PostContinuation(t, o)
      PROVE  PostedOnce'
  <2>1. /\ stage[o] = "new" /\ stage' = [stage EXCEPT ![o] = "posted"]
        /\ UNCHANGED <<op_queue_, current, posting>>
    BY <1>20 DEF PostContinuation, queueVars
  <2>2. \A p \in Ops \ {o} : stage'[p] = stage[p]
    BY <2>1 DEF Types
  <2>3. \A u \in Actors : Completing(u)' => Completing(u)
    BY <1>20 DEF PostContinuation, Goto, Types, Completing
  <2>4. ~InQueue(o)
    BY <2>1, QueueStages DEF InQueue
  <2>5. \A u \in Actors : ~Has(u, o)
    BY <2>1 DEF Has, Stages, PlaceStages, PrivateStages, Controls
  <2>6. \A u \in Actors \ {t} : private_op_queue'[u] = private_op_queue[u]
    BY <1>20 DEF PostContinuation, Types
  <2>7. Range(private_op_queue'[t]) = Range(private_op_queue[t]) \cup {o}
    BY <1>20, RangeOfMore DEF PostContinuation, Types
  <2>8. \A p \in Ops \ {o} : Fewer(p)
    BY <2>1, <2>3, <2>6, <2>7 DEF Fewer, InQueue
  <2>9. \A u \in Actors \ {t} : ~Has(u, o)'
    BY <2>1, <2>3, <2>5, <2>6 DEF Has
  <2>10. OnlyWith(t, o)'
    BY <2>1, <2>3, <2>4, <2>5, <2>7, <2>9 DEF OnlyWith, Has, InQueue
  <2> QED
    BY <2>1, <2>2, <2>8, <2>10, PostedOnceMoves
<1>21. ASSUME NEW t \in Actors, NEW o \in Ops, Post(t, o)
      PROVE  PostedOnce'
  <2>1. /\ stage[o] = "new" /\ stage' = [stage EXCEPT ![o] = "posted"]
        /\ UNCHANGED <<op_queue_, current, private_op_queue>>
    BY <1>21 DEF Post, queueVars
  <2>2. \A p \in Ops \ {o} : stage'[p] = stage[p]
    BY <2>1 DEF Types
  <2>3. \A u \in Actors : Completing(u)' => Completing(u)
    BY <1>21 DEF Post, Goto, Types, Completing
  <2>4. ~InQueue(o)
    BY <2>1, QueueStages DEF InQueue
  <2>5. \A u \in Actors : ~Has(u, o)
    BY <2>1 DEF Has, Stages, PlaceStages, PrivateStages, Controls
  <2>6. \A u \in Actors \ {t} : posting'[u] = posting[u]
    BY <1>21 DEF Post, Types
  <2>7. posting'[t] = o
    BY <1>21 DEF Post, Types
  <2>8. \A p \in Ops \ {o} : Fewer(p)
    BY <2>1, <2>3, <2>6, <2>7 DEF Fewer, InQueue
  <2>9. \A u \in Actors \ {t} : ~Has(u, o)'
    BY <2>1, <2>3, <2>5, <2>6 DEF Has
  <2>10. OnlyWith(t, o)'
    BY <2>1, <2>3, <2>4, <2>5, <2>7, <2>9 DEF OnlyWith, Has, InQueue
  <2> QED
    BY <2>1, <2>2, <2>8, <2>10, PostedOnceMoves
<1>22. ASSUME NEW t \in Actors, NEW o \in Ops, StartOp(t, o)
      PROVE  PostedOnce'
  <2>1. UNCHANGED <<private_op_queue, posting>>
          /\ \A u \in Actors : Completing(u)' => Completing(u) /\ current'[u] = current[u]
    BY <1>22 DEF StartOp, MayPost, Back, threadVars, Types, Controls, Completing
  <2>2. op_queue_' = op_queue_
    BY <1>22 DEF StartOp, MayPost, Back, queueVars
  <2>3. \A p \in Ops : stage'[p] = "posted" => stage[p] = "posted"
    BY <1>22 DEF StartOp, Types
  <2>4. \A p \in Ops : Fewer(p)
    BY <2>1, <2>2 DEF Fewer, InQueue
  <2> QED
    BY <2>3, <2>4, PostedOnceMoves
<1>23. ASSUME NEW o \in Ops, Ready(o)
      PROVE  PostedOnce'
  <2>1. UNCHANGED <<private_op_queue, posting>>
          /\ \A u \in Actors : Completing(u)' => Completing(u) /\ current'[u] = current[u]
    BY <1>23 DEF Ready, threadVars, Types, Controls, Completing
  <2>2. op_queue_' = op_queue_
    BY <1>23 DEF Ready, queueVars
  <2>3. stage' = stage
    BY <1>23 DEF Ready, opVars
  <2>4. \A p \in Ops : Fewer(p)
    BY <2>1, <2>2 DEF Fewer, InQueue
  <2> QED
    BY <2>3, <2>4, PostedOnceMoves
<1> QED
  BY <1>1, <1>2, <1>3, <1>4, <1>5, <1>6, <1>7, <1>8, <1>9, <1>10, <1>11, <1>12, <1>13,
       <1>14, <1>15, <1>16, <1>17, <1>18, <1>19, <1>20, <1>21, <1>22, <1>23 DEF Next,
       Proceed, Loop

\* No step puts an operation into a queue that has it.
LEMMA QueuesDistinctStep ==
  ASSUME Types, Controls, TaskOnce, Stages, PostedOnce, QueuesDistinct, [Next]_schedulerVars
  PROVE  QueuesDistinct'
<1> USE SchedulerAssumption DEF Actors
<1>1. CASE UNCHANGED schedulerVars
  BY <1>1 DEF schedulerVars, queueVars, wakeVars, threadVars, opVars, QueuesDistinct
<1>2. ASSUME NEW t \in Actors, Run(t)
      PROVE  QueuesDistinct'
  <2>1. UNCHANGED <<op_queue_, private_op_queue>>
    BY <1>2 DEF Run, Goto, queueVars, threadVars
  <2> QED
    BY <2>1 DEF QueuesDistinct
<1>3. ASSUME NEW t \in Actors, Signal(t)
      PROVE  QueuesDistinct'
  <2>1. Signalled(t)
    BY <1>3, SignalDoes
  <2>2. UNCHANGED <<op_queue_, private_op_queue>>
    BY <2>1 DEF Signalled, queueVars, threadVars
  <2> QED
    BY <2>2 DEF QueuesDistinct
<1>4. ASSUME NEW t \in Actors, Stop(t)
      PROVE  QueuesDistinct'
  <2>1. UNCHANGED <<op_queue_, private_op_queue>>
    BY <1>4 DEF Stop, Goto, StopAll, Interrupt, queueVars, threadVars
  <2> QED
    BY <2>1 DEF QueuesDistinct
<1>5. ASSUME NEW t \in Actors, Leave(t)
      PROVE  QueuesDistinct'
  <2>1. UNCHANGED <<op_queue_, private_op_queue>>
    BY <1>5 DEF Leave, Goto, queueVars, threadVars
  <2> QED
    BY <2>1 DEF QueuesDistinct
<1>6. ASSUME NEW t \in Actors, TakeTask(t)
      PROVE  QueuesDistinct'
  <2>1. TookTask(t)
    BY <1>6, TakeTaskDoes
  <2>2. Ahead
    BY <2>1, QueueAhead DEF TookTask
  <2>3. op_queue_' = Tail(op_queue_) /\ op_queue_ # << >> /\ UNCHANGED private_op_queue
    BY <2>1 DEF TookTask
  <2>4. op_queue_ \in Seq(Ops \cup {Task}) /\ IsInjective(op_queue_)
    BY DEF Types, QueuesDistinct
  <2>5. IsInjective(Tail(op_queue_))
    BY <2>3, <2>4, RangeOfTail
  <2> QED
    BY <2>3, <2>5 DEF QueuesDistinct
<1>7. ASSUME NEW t \in Actors, TakeOperation(t)
      PROVE  QueuesDistinct'
  <2>1. TookOperation(t)
    BY <1>7, TakeOperationDoes
  <2>2. Ahead
    BY <2>1, QueueAhead DEF TookOperation
  <2>3. op_queue_' = Tail(op_queue_) /\ op_queue_ # << >> /\ UNCHANGED private_op_queue
    BY <2>1 DEF TookOperation
  <2>4. op_queue_ \in Seq(Ops \cup {Task}) /\ IsInjective(op_queue_)
    BY DEF Types, QueuesDistinct
  <2>5. IsInjective(Tail(op_queue_))
    BY <2>3, <2>4, RangeOfTail
  <2> QED
    BY <2>3, <2>5 DEF QueuesDistinct
<1>8. ASSUME NEW t \in Actors, Sleep(t)
      PROVE  QueuesDistinct'
  <2>1. UNCHANGED <<op_queue_, private_op_queue>>
    BY <1>8 DEF Sleep, Goto, queueVars, threadVars
  <2> QED
    BY <2>1 DEF QueuesDistinct
<1>9. ASSUME NEW t \in Actors, Awake(t)
      PROVE  QueuesDistinct'
  <2>1. Awoke(t)
    BY <1>9, AwakeDoes
  <2>2. UNCHANGED <<op_queue_, private_op_queue>>
    BY <2>1 DEF Awoke, queueVars, threadVars
  <2> QED
    BY <2>2 DEF QueuesDistinct
<1>10. ASSUME NEW t \in Actors, RunTask(t)
      PROVE  QueuesDistinct'
  <2>1. RanTask(t)
    BY <1>10, RunTaskDoes
  <2>2. UNCHANGED op_queue_ /\ IsInjective(private_op_queue'[t])
        /\ \A u \in Actors \ {t} : private_op_queue'[u] = private_op_queue[u]
    BY <2>1 DEF RanTask, queueVars, Types
  <2> QED
    BY <2>2 DEF QueuesDistinct
<1>11. ASSUME NEW t \in Actors, TaskCleanup(t)
      PROVE  QueuesDistinct'
  <2>1. private_op_queue'[t] = << >>
          /\ \A u \in Actors \ {t} : private_op_queue'[u] = private_op_queue[u]
    BY <1>11 DEF TaskCleanup, Types
  <2>2. op_queue_' = op_queue_ \o private_op_queue[t] \o <<Task>> /\ pc[t] = "taskDone"
    BY <1>11 DEF TaskCleanup
  <2>3. Task \notin Range(op_queue_)
    BY <2>2 DEF TaskOnce, InReactor, InQueue
  <2>4. \A p \in Range(private_op_queue[t]) : p \in Ops /\ stage[p] # "posted"
    BY <2>2, QueuePushed DEF Stages, PrivateStages
  <2>5. Range(op_queue_) \cap Range(private_op_queue[t]) = {}
    BY <2>3, <2>4, QueueStages
  <2>6. IsInjective(op_queue_) /\ \A u \in Actors : IsInjective(private_op_queue[u])
    BY DEF QueuesDistinct
  <2>7. IsInjective(op_queue_)'
    BY <2>2, <2>3, <2>5, <2>6, QueuePushed
  <2>8. IsInjective(private_op_queue'[t])
    BY <2>1, RangeOfNone
  <2> QED
    BY <2>1, <2>6, <2>7, <2>8 DEF QueuesDistinct
<1>12. ASSUME NEW t \in Actors, Perform(t)
      PROVE  QueuesDistinct'
  <2>1. Performed(t) /\ current[t] \in Ops
    BY <1>12, PerformDoes DEF Performed, Controls, Completing
  <2>2. UNCHANGED <<op_queue_, private_op_queue>>
    BY <2>1 DEF Performed, queueVars, threadVars
  <2> QED
    BY <2>2 DEF QueuesDistinct
<1>13. ASSUME NEW t \in Actors, Push(t)
      PROVE  QueuesDistinct'
  <2>1. Woke(t, Back(t)) /\ posting[t] \in Ops
    BY <1>13, WakeDoes DEF Push, Controls, Types
  <2>2. op_queue_' = Append(op_queue_, posting[t]) /\ pc[t] = "posting"
          /\ UNCHANGED private_op_queue
    BY <1>13 DEF Push
  <2>3. stage[posting[t]] = "posted" /\ posting[t] \in Ops /\ Has(t, posting[t])
    BY <2>1, <2>2 DEF Stages, PlaceStages, Has
  <2>4. posting[t] \notin Range(op_queue_)
    BY <2>3 DEF PostedOnce, InQueue
  <2>5. IsInjective(op_queue_) /\ \A u \in Actors : IsInjective(private_op_queue[u])
    BY DEF QueuesDistinct
  <2>6. IsInjective(Append(op_queue_, posting[t]))
    BY <2>3, <2>4, <2>5, QueueGrows
  <2> QED
    BY <2>2, <2>5, <2>6 DEF QueuesDistinct
<1>14. ASSUME NEW t \in Actors, WorkCleanup(t)
      PROVE  QueuesDistinct'
  <2>1. UNCHANGED <<op_queue_, private_op_queue>>
    BY <1>14 DEF WorkCleanup, Goto, queueVars, threadVars
  <2> QED
    BY <2>1 DEF QueuesDistinct
<1>15. ASSUME NEW t \in Actors, PushPrivate(t)
      PROVE  QueuesDistinct'
  <2>1. private_op_queue'[t] = << >>
          /\ \A u \in Actors \ {t} : private_op_queue'[u] = private_op_queue[u]
    BY <1>15 DEF PushPrivate, Types
  <2>2. op_queue_' = op_queue_ \o private_op_queue[t] /\ pc[t] = "pushing"
    BY <1>15 DEF PushPrivate
  <2>3. \A p \in Range(private_op_queue[t]) : p \in Ops /\ stage[p] = "posted" /\ Has(t, p)
    BY <2>2, QueuePushed DEF Stages, PrivateStages, Has
  <2>4. Range(op_queue_) \cap Range(private_op_queue[t]) = {}
    BY <2>3 DEF PostedOnce, InQueue
  <2>5. IsInjective(op_queue_) /\ \A u \in Actors : IsInjective(private_op_queue[u])
    BY DEF QueuesDistinct
  <2>6. IsInjective(op_queue_)'
    BY <2>2, <2>4, <2>5, QueuePushed
  <2>7. IsInjective(private_op_queue'[t])
    BY <2>1, RangeOfNone
  <2> QED
    BY <2>1, <2>5, <2>6, <2>7 DEF QueuesDistinct
<1>16. ASSUME NEW t \in Actors, SpuriousWakeup(t)
      PROVE  QueuesDistinct'
  <2>1. UNCHANGED <<op_queue_, private_op_queue>>
    BY <1>16 DEF SpuriousWakeup, queueVars, threadVars
  <2> QED
    BY <2>1 DEF QueuesDistinct
<1>17. ASSUME NEW t \in Actors, InitTask(t)
      PROVE  QueuesDistinct'
  <2>1. op_queue_' = Append(op_queue_, Task) /\ ~task_ /\ UNCHANGED private_op_queue
    BY <1>17 DEF InitTask
  <2>2. Task \notin Range(op_queue_)
    BY <2>1 DEF TaskOnce, InQueue
  <2>3. IsInjective(op_queue_) /\ \A u \in Actors : IsInjective(private_op_queue[u])
    BY DEF QueuesDistinct
  <2>4. IsInjective(Append(op_queue_, Task))
    BY <2>2, <2>3, QueueGrows
  <2> QED
    BY <2>1, <2>3, <2>4 DEF QueuesDistinct
<1>18. ASSUME NEW t \in Actors, StopInHandler(t)
      PROVE  QueuesDistinct'
  <2>1. UNCHANGED <<op_queue_, private_op_queue>>
    BY <1>18 DEF StopInHandler, Goto, queueVars, threadVars
  <2> QED
    BY <2>1 DEF QueuesDistinct
<1>19. ASSUME NEW t \in Actors, HandlerReturns(t)
      PROVE  QueuesDistinct'
  <2>1. UNCHANGED <<op_queue_, private_op_queue>>
    BY <1>19 DEF HandlerReturns, Goto, queueVars, threadVars
  <2> QED
    BY <2>1 DEF QueuesDistinct
<1>20. ASSUME NEW t \in Actors, NEW o \in Ops, PostContinuation(t, o)
      PROVE  QueuesDistinct'
  <2>1. /\ stage[o] = "new" /\ UNCHANGED op_queue_
        /\ private_op_queue' = [private_op_queue EXCEPT ![t]
                = Append(private_op_queue[t], o)]
    BY <1>20 DEF PostContinuation, queueVars
  <2>2. o \notin Range(private_op_queue[t]) /\ private_op_queue[t] \in Seq(Ops)
    BY <2>1 DEF Stages, PrivateStages, Types
  <2>3. IsInjective(op_queue_) /\ \A u \in Actors : IsInjective(private_op_queue[u])
    BY DEF QueuesDistinct
  <2>4. IsInjective(Append(private_op_queue[t], o))
    BY <2>2, <2>3, RangeOfMore
  <2>5. private_op_queue'[t] = Append(private_op_queue[t], o)
        /\ \A u \in Actors \ {t} : private_op_queue'[u] = private_op_queue[u]
    BY <2>1 DEF Types
  <2> QED
    BY <2>1, <2>3, <2>4, <2>5 DEF QueuesDistinct
<1>21. ASSUME NEW t \in Actors, NEW o \in Ops, Post(t, o)
      PROVE  QueuesDistinct'
  <2>1. UNCHANGED <<op_queue_, private_op_queue>>
    BY <1>21 DEF Post, Goto, MayPost, Back, queueVars, threadVars
  <2> QED
    BY <2>1 DEF QueuesDistinct
<1>22. ASSUME NEW t \in Actors, NEW o \in Ops, StartOp(t, o)
      PROVE  QueuesDistinct'
  <2>1. UNCHANGED <<op_queue_, private_op_queue>>
    BY <1>22 DEF StartOp, MayPost, Back, queueVars, threadVars
  <2> QED
    BY <2>1 DEF QueuesDistinct
<1>23. ASSUME NEW o \in Ops, Ready(o)
      PROVE  QueuesDistinct'
  <2>1. UNCHANGED <<op_queue_, private_op_queue>>
    BY <1>23 DEF Ready, queueVars, threadVars
  <2> QED
    BY <2>1 DEF QueuesDistinct
<1> QED
  BY <1>1, <1>2, <1>3, <1>4, <1>5, <1>6, <1>7, <1>8, <1>9, <1>10, <1>11, <1>12, <1>13,
       <1>14, <1>15, <1>16, <1>17, <1>18, <1>19, <1>20, <1>21, <1>22, <1>23 DEF Next,
       Proceed, Loop

-----------------------------------------------------------------------------
(* What follows from the invariant.                                        *)

\* An injective sequence is as long as its range is large.
LEMMA RangeCounts ==
  ASSUME NEW S, NEW s \in Seq(S), IsInjective(s)
  PROVE  IsFiniteSet(Range(s)) /\ Cardinality(Range(s)) = Len(s)
<1> DEFINE n == Len(s)
<1>1. n \in Nat /\ DOMAIN s = 1..n /\ s \in [1..n -> S]
  BY LenProperties
<1> HIDE DEF n
<1>2. s \in [1..n -> Range(s)] /\ \A x \in Range(s) : \E i \in 1..n : s[i] = x
  BY <1>1 DEF Range
<1>3. s \in Bijection(1..n, Range(s))
  BY <1>1, <1>2 DEF Bijection, Injection, Surjection, IsInjective
<1>4. ExistsBijection(1..n, Range(s))
  BY <1>3 DEF ExistsBijection
<1>5. Cardinality(Range(s)) = n
  BY <1>1, <1>4, FS_CountingElements
<1>6. IsFiniteSet(Range(s))
  BY <1>1, <1>4, FS_Interval, FS_Bijection
<1> QED
  BY <1>5, <1>6 DEF n

\* A set without two different elements.
LEMMA AtMostOne ==
  ASSUME NEW S, \A x, y \in S : x = y
  PROVE  /\ IsFiniteSet(S)
         /\ (S = {} /\ Cardinality(S) = 0) \/ (S # {} /\ Cardinality(S) = 1)
<1>1. CASE S = {}
  BY <1>1, FS_EmptySet
<1>2. CASE S # {}
  <2>1. PICK x : S = {x}
    BY <1>2
  <2> QED
    BY <2>1, FS_Singleton
<1> QED
  BY <1>1, <1>2

\* The same set beside another one counts as much as alone.
LEMMA Beside ==
  ASSUME NEW S, IsFiniteSet(S), NEW k
  PROVE  IsFiniteSet({k} \X S) /\ Cardinality({k} \X S) = Cardinality(S)
<1>1. IsFiniteSet({k}) /\ Cardinality({k}) = 1 /\ Cardinality(S) \in Nat
  BY FS_Singleton, FS_CardinalityType
<1>2. IsFiniteSet({k} \X S) /\ Cardinality({k} \X S) = 1 * Cardinality(S)
  BY <1>1, FS_Product
<1> QED
  BY <1>1, <1>2

\* What is left to do: the operations, and the threads that have still to
\* account for one.
LeftToDo == ({1} \X Unfinished) \cup ({2} \X InCleanup)

\* What the private count of t counts: the operations of its private queue, or
\* the one that it has just tried in vain.
OwnWork(t) ==
  ({1} \X (IF Counting(t) THEN Range(private_op_queue[t]) ELSE {})) \cup
  ({2} \X (IF /\ pc[t] = "cleanup"
              /\ private_outstanding_work[t] # Len(private_op_queue[t])
           THEN {t} ELSE {}))

\* Both kinds of what is left are counted.
LEMMA LeftIsCounted ==
  /\ IsFiniteSet(LeftToDo)
  /\ Cardinality(LeftToDo) = Cardinality(Unfinished) + Cardinality(InCleanup)
<1> DEFINE A == {1} \X Unfinished
           B == {2} \X InCleanup
<1>1. IsFiniteSet(A) /\ Cardinality(A) = Cardinality(Unfinished) /\ Cardinality(A) \in Nat
  BY Beside, FinitelyMany
<1>2. IsFiniteSet(B) /\ Cardinality(B) = Cardinality(InCleanup) /\ Cardinality(B) \in Nat
  BY Beside, FinitelyMany
<1>3. A \cap B = {}
  OBVIOUS
<1>4. LeftToDo = A \cup B
  BY DEF LeftToDo
<1> HIDE DEF A, B
<1>5. IsFiniteSet(A \cup B) /\ Cardinality(A \cup B) = Cardinality(A) + Cardinality(B) - 0
  BY <1>1, <1>2, <1>3, FS_Union, FS_EmptySet
<1> QED
  BY <1>1, <1>2, <1>4, <1>5

\* What a thread has pushed to its private queue in a handler is posted.
LEMMA OwnIsPosted ==
  ASSUME Types, Stages, NEW t \in Actors, Counting(t), NEW o \in Range(private_op_queue[t])
  PROVE  o \in Ops /\ stage[o] = "posted"
<1>1. pc[t] # "taskDone"
  BY DEF Counting, InHandler
<1> QED
  BY <1>1, QueuePushed DEF Stages, PrivateStages

\* Private counts are of work that is not finished, so that the count of the
\* scheduler is never below what no thread counts on its own.
LEMMA CountOfOthers ==
  ASSUME Types, Controls, PrivateUse, Stages, PostedOnce, QueuesDistinct, WorkIsCounted,
         NEW E \in SUBSET LeftToDo, \A t \in Actors : OwnWork(t) \cap E = {}
  PROVE  Cardinality(E) \in Nat /\ outstanding_work_ >= Cardinality(E)
<1> DEFINE U == LeftToDo \ E
           Part == [t \in Actors |-> OwnWork(t)]
           f == private_outstanding_work
<1>1. /\ IsFiniteSet(U) /\ Cardinality(E) \in Nat
      /\ Cardinality(U) = Cardinality(Unfinished) + Cardinality(InCleanup) - Cardinality(E)
  <2>1. IsFiniteSet(E) /\ Cardinality(E) \in Nat
    BY LeftIsCounted, FS_Subset, FS_CardinalityType
  <2>2. LeftToDo \cap E = E
    OBVIOUS
  <2>3. IsFiniteSet(LeftToDo)
    BY LeftIsCounted
  <2>4. IsFiniteSet(U) /\ Cardinality(U) = Cardinality(LeftToDo) - Cardinality(LeftToDo \cap E)
    BY <2>3, FS_Difference
  <2>5. Cardinality(LeftToDo \cap E) = Cardinality(E)
    BY <2>2, Zenon
  <2>6. Cardinality(LeftToDo) = Cardinality(Unfinished) + Cardinality(InCleanup)
    BY LeftIsCounted
  <2>7. Cardinality(U) = Cardinality(Unfinished) + Cardinality(InCleanup) - Cardinality(E)
    <3>1. Cardinality(Unfinished) \in Nat /\ Cardinality(InCleanup) \in Nat
      BY FinitelyMany
    <3>2. Cardinality(U) = Cardinality(LeftToDo) - Cardinality(E)
      BY <2>4, <2>5, Zenon
    <3> HIDE DEF U
    <3> QED
      BY <2>1, <2>6, <3>1, <3>2
  <2> QED
    BY <2>1, <2>4, <2>7
<1>3. Part \in [Actors -> SUBSET U]
  <2> SUFFICES ASSUME NEW t \in Actors
               PROVE  OwnWork(t) \subseteq LeftToDo
    OBVIOUS
  <2>1. Counting(t) => Range(private_op_queue[t]) \subseteq Unfinished
    BY OwnIsPosted DEF Unfinished
  <2>2. (pc[t] = "cleanup") => t \in InCleanup
    BY DEF InCleanup
  <2> QED
    BY <2>1, <2>2 DEF OwnWork, LeftToDo
<1>4. ASSUME NEW d \in Actors, NEW e \in Actors, d # e
      PROVE  OwnWork(d) \cap OwnWork(e) = {}
  <2>1. ASSUME Counting(d), Counting(e)
        PROVE  Range(private_op_queue[d]) \cap Range(private_op_queue[e]) = {}
    BY <1>4, <2>1, OwnIsPosted DEF PostedOnce, Has
  <2> QED
    BY <1>4, <2>1 DEF OwnWork
<1>5. ASSUME NEW t \in Actors
      PROVE  f[t] <= Cardinality(OwnWork(t))
  <2>1. IsFiniteSet(OwnWork(t)) /\ Cardinality(OwnWork(t)) \in Nat
    <3>1. OwnWork(t) \in SUBSET U
      BY <1>3
    <3> QED
      BY <1>1, <3>1, FS_Subset, FS_CardinalityType
  <2>2. f[t] \in Nat
    BY DEF Types
  <2>3. CASE f[t] = 0
    BY <2>1, <2>3
  <2>4. CASE Counting(t) /\ f[t] = Len(private_op_queue[t])
    <3>1. private_op_queue[t] \in Seq(Ops) /\ IsInjective(private_op_queue[t])
      BY DEF Types, QueuesDistinct
    <3>2. /\ IsFiniteSet(Range(private_op_queue[t]))
          /\ Cardinality(Range(private_op_queue[t])) = f[t]
      BY <2>4, <3>1, RangeCounts
    <3>3. Cardinality({1} \X Range(private_op_queue[t])) = f[t]
      BY <3>2, Beside
    <3>4. ({1} \X Range(private_op_queue[t])) \in SUBSET OwnWork(t)
      BY <2>4 DEF OwnWork
    <3>5. Cardinality({1} \X Range(private_op_queue[t])) <= Cardinality(OwnWork(t))
      BY <2>1, <3>4, FS_Subset
    <3> QED
      BY <3>3, <3>5
  <2>5. CASE pc[t] = "cleanup" /\ f[t] = 1 /\ private_op_queue[t] = << >>
    <3>1. Cardinality({2} \X {t}) = 1
      BY Beside, FS_Singleton
    <3>2. Len(private_op_queue[t]) = 0
      BY <2>5
    <3>3. ({2} \X {t}) \in SUBSET OwnWork(t)
      BY <2>5, <3>2 DEF OwnWork
    <3>4. Cardinality({2} \X {t}) <= Cardinality(OwnWork(t))
      BY <2>1, <3>3, FS_Subset
    <3> QED
      BY <2>5, <3>1, <3>4
  <2> QED
    BY <2>3, <2>4, <2>5 DEF PrivateUse, Counting
<1>6. f \in [Actors -> Int] /\ outstanding_work_ \in Int
  BY DEF Types
<1>7. IsFiniteSet(Actors) /\ Cardinality(Unfinished) \in Nat
        /\ Cardinality(InCleanup) \in Nat
  BY FinitelyMany
<1>8. SumFunction(f) <= Cardinality(U)
  <2>1. \A d \in Actors : f[d] <= Cardinality(Part[d])
    BY <1>5
  <2>2. \A d, e \in Actors : d # e => Part[d] \cap Part[e] = {}
    BY <1>4
  <2> HIDE DEF U, Part, f
  <2> QED
    BY <1>1, <1>3, <1>6, <1>7, <2>1, <2>2, SumIsBounded
<1>9. outstanding_work_ + SumFunction(f) = Cardinality(Unfinished) + Cardinality(InCleanup)
  BY CountIs
<1>10. SumFunction(f) \in Int
  <2> HIDE DEF f
  <2>1. Adds(f, Actors)
    BY <1>6, <1>7, SumIsRecursive
  <2>2. Actors \in SUBSET Actors
    OBVIOUS
  <2> QED
    BY <2>1, <2>2 DEF Adds
<1> HIDE DEF U, f
<1> QED
  BY <1>1, <1>6, <1>7, <1>8, <1>9, <1>10

\* The count of the scheduler is never negative.
LEMMA WorkIsLeft ==
  ASSUME Types, Controls, PrivateUse, Stages, PostedOnce, QueuesDistinct, WorkIsCounted
  PROVE  outstanding_work_ \in Nat
<1>1. {} \in SUBSET LeftToDo /\ \A t \in Actors : OwnWork(t) \cap {} = {}
  OBVIOUS
<1>2. outstanding_work_ >= Cardinality({})
  BY <1>1, CountOfOthers
<1> QED
  BY <1>2, FS_EmptySet DEF Types

\* When it is zero, nothing is left to do, in no thread: whoever counts something
\* on its own has an operation that no thread counts on its own, the one whose
\* handler it is in or that it accounts for.
LEMMA NothingIsLeft ==
  ASSUME Types, Controls, RunsOnce, PrivateUse, Stages, PostedOnce, QueuesDistinct,
         WorkIsCounted, outstanding_work_ = 0
  PROVE  Unfinished = {}
<1>1. ASSUME NEW e \in LeftToDo, \A t \in Actors : e \notin OwnWork(t)
      PROVE  FALSE
  <2>1. {e} \in SUBSET LeftToDo /\ \A t \in Actors : OwnWork(t) \cap {e} = {}
    BY <1>1
  <2>2. outstanding_work_ >= Cardinality({e})
    BY <2>1, CountOfOthers
  <2> QED
    BY <2>2, FS_Singleton
<1>2. ASSUME NEW t \in Actors, InHandler(t)
      PROVE  FALSE
  <2>1. stage[current[t]] = "running" /\ current[t] \in Ops
    BY <1>2 DEF RunsOnce, Controls, Counting
  <2>2. <<1, current[t]>> \in LeftToDo
    BY <2>1 DEF LeftToDo, Unfinished
  <2>3. \A u \in Actors : <<1, current[t]>> \notin OwnWork(u)
    BY <2>1, OwnIsPosted DEF OwnWork
  <2> QED
    BY <1>1, <2>2, <2>3
<1>3. ASSUME NEW t \in Actors, pc[t] = "cleanup",
             private_outstanding_work[t] = Len(private_op_queue[t])
      PROVE  FALSE
  <2>1. <<2, t>> \in LeftToDo
    BY <1>3 DEF LeftToDo, InCleanup
  <2>2. \A u \in Actors : <<2, t>> \notin OwnWork(u)
    BY <1>3 DEF OwnWork
  <2> QED
    BY <1>1, <2>1, <2>2
<1>4. ASSUME NEW o \in Unfinished
      PROVE  FALSE
  <2>1. <<1, o>> \in LeftToDo
    BY DEF LeftToDo
  <2>2. \A u \in Actors : Counting(u) => private_op_queue[u] = << >>
    BY <1>2, <1>3 DEF Counting, PrivateUse
  <2>3. \A u \in Actors : Counting(u) => Range(private_op_queue[u]) = {}
    BY <2>2 DEF Range
  <2>4. \A u \in Actors : <<1, o>> \notin OwnWork(u)
    BY <2>3 DEF OwnWork
  <2> QED
    BY <1>1, <2>1, <2>4
<1> QED
  BY <1>4

\* An operation is in one place, whatever its stage.
LEMMA OpOnce ==
  ASSUME Types, Controls, TaskOnce, Stages, PostedOnce, NEW o \in Ops
  PROVE  /\ \A t, u \in Actors : ~(posting[t] = o /\ o \in Range(private_op_queue[u]))
         /\ \A t, u \in Actors : posting[t] = o /\ posting[u] = o => t = u
         /\ \A t, u \in Actors : o \in Range(private_op_queue[t]) /\
                                 o \in Range(private_op_queue[u]) => t = u
         /\ InQueue(o) => \A t \in Actors : posting[t] # o
                 /\ o \notin Range(private_op_queue[t])
<1>1. \A t \in Actors : posting[t] = o => stage[o] = "posted"
  BY SchedulerAssumption DEF Stages, PlaceStages, Controls, Actors
<1>2. \A t \in Actors : o \in Range(private_op_queue[t])
        /\ stage[o] # "posted" => InReactor(t)
  BY DEF Stages, PrivateStages, InReactor
<1>3. CASE stage[o] = "posted"
  BY <1>3 DEF PostedOnce, Has
<1>4. CASE stage[o] # "posted"
  <2>1. \A t \in Actors : posting[t] # o
    BY <1>1, <1>4
  <2>2. \A t, u \in Actors : o \in Range(private_op_queue[t]) /\
                             o \in Range(private_op_queue[u]) => t = u
    BY <1>2, <1>4 DEF TaskOnce
  <2>3. ASSUME InQueue(o), NEW t \in Actors, o \in Range(private_op_queue[t])
        PROVE  FALSE
    <3>1. Task \notin Range(op_queue_)
      BY <1>2, <1>4, <2>3 DEF TaskOnce, InQueue
    <3>2. stage[o] = "posted"
      BY <2>3, <3>1, QueueStages, SchedulerAssumption DEF InQueue
    <3> QED
      BY <1>4, <3>2
  <2> QED
    BY <2>1, <2>2, <2>3
<1> QED
  BY <1>3, <1>4

\* The invariant keeps the reactor and the operations in one place.
LEMMA PlacesFollow ==
  ASSUME Types, Controls, TaskOnce, Stages, PostedOnce, QueuesDistinct
  PROVE  OnePlaceEach
<1>1. \A x : (\A i, j \in Positions(x) : i = j) /\ (Positions(x) # {} <=> InQueue(x))
  <2>1. op_queue_ \in Seq(Ops \cup {Task})
    BY DEF Types
  <2>2. DOMAIN op_queue_ = 1..Len(op_queue_)
    BY <2>1, LenProperties
  <2> QED
    BY <2>2 DEF Positions, QueuesDistinct, IsInjective, InQueue, Range
<1>2. InTask = {t \in Actors : InReactor(t)}
  BY DEF InTask, InReactor
<1>3. ASSUME task_
      PROVE  Cardinality(Positions(Task)) + Cardinality(InTask) = 1
  <2>1. \A t, u \in InTask : t = u
    BY <1>2 DEF TaskOnce
  <2>2. (InTask # {}) <=> ~InQueue(Task)
    BY <1>2, <1>3 DEF TaskOnce
  <2>3. (InTask = {} /\ Cardinality(InTask) = 0) \/ (InTask # {} /\ Cardinality(InTask) = 1)
    BY <2>1, AtMostOne
  <2>4. \/ Positions(Task) = {} /\ Cardinality(Positions(Task)) = 0
        \/ Positions(Task) # {} /\ Cardinality(Positions(Task)) = 1
    BY <1>1, AtMostOne
  <2> QED
    BY <1>1, <2>2, <2>3, <2>4
<1>4. ASSUME NEW o \in Ops
      PROVE  Cardinality(Positions(o)) + Cardinality({t \in Actors : posting[t] = o}) +
             Cardinality(Slots(o)) <= 1
  <2> DEFINE P == {t \in Actors : posting[t] = o}
  <2>1. /\ \A t, u \in Actors : ~(posting[t] = o /\ o \in Range(private_op_queue[u]))
        /\ \A t, u \in Actors : posting[t] = o /\ posting[u] = o => t = u
        /\ \A t, u \in Actors : o \in Range(private_op_queue[t]) /\
                                o \in Range(private_op_queue[u]) => t = u
        /\ InQueue(o) => \A t \in Actors : posting[t] # o
                /\ o \notin Range(private_op_queue[t])
    BY OpOnce
  <2>2. \A s \in Slots(o) : s[1] \in Actors /\ o \in Range(private_op_queue[s[1]])
    BY DEF Slots, Range
  <2>3. ASSUME NEW s \in Slots(o), NEW r \in Slots(o)
        PROVE  s = r
    <3>1. s[1] = r[1]
      BY <2>1, <2>2
    <3>2. s[2] = r[2]
      BY <2>2, <3>1 DEF Slots, QueuesDistinct, IsInjective
    <3>3. s = <<s[1], s[2]>> /\ r = <<r[1], r[2]>>
      BY DEF Slots
    <3> QED
      BY <3>1, <3>2, <3>3
  <2>4. \/ Slots(o) = {} /\ Cardinality(Slots(o)) = 0
        \/ Slots(o) # {} /\ Cardinality(Slots(o)) = 1
    BY <2>3, AtMostOne
  <2>5. (P = {} /\ Cardinality(P) = 0) \/ (P # {} /\ Cardinality(P) = 1)
    <3>1. \A t, u \in P : t = u
      BY <2>1
    <3> HIDE DEF P
    <3> QED
      BY <3>1, AtMostOne
  <2>6. \/ Positions(o) = {} /\ Cardinality(Positions(o)) = 0
        \/ Positions(o) # {} /\ Cardinality(Positions(o)) = 1
    BY <1>1, AtMostOne
  <2>7. ~(Positions(o) # {} /\ P # {}) /\ ~(Positions(o) # {} /\ Slots(o) # {})
        /\ ~(P # {} /\ Slots(o) # {})
    BY <1>1, <2>1, <2>2
  <2> HIDE DEF P
  <2>8. Cardinality(Positions(o)) + Cardinality(P) + Cardinality(Slots(o)) <= 1
    BY <2>4, <2>5, <2>6, <2>7
  <2> QED
    BY <2>8 DEF P
<1> QED
  BY <1>3, <1>4 DEF OnePlaceEach

\* Whoever is idle while an operation is in the queue has somebody coming.
LEMMA WatchedFollows ==
  ASSUME Types, Controls, Waking
  PROVE  QueueIsWatched
<1> SUFFICES ASSUME op_queue_ # << >>, ~stopped_, NEW t \in Threads, Idle(t)
             PROVE  \E u \in Actors : Coming(u)
  BY DEF QueueIsWatched
<1>1. HeldInLoop /\ SignalledOrHeld /\ SleeperIsWatched /\ BlockedIsWatched /\ t \in Actors
  BY DEF Waking, Actors
<1>2. ASSUME ~signalled
      PROVE  \E u \in Actors : Coming(u)
  <2>1. holder \in Actors /\ pc[holder] = "loop"
    BY <1>1, <1>2 DEF SignalledOrHeld, HeldInLoop, Types
  <2> QED
    BY <2>1 DEF Coming
<1>3. ASSUME NEW u \in Actors, waits[u] = "woken"
      PROVE  \E v \in Actors : Coming(v)
  <2>1. CASE ~signalled
    BY <1>2, <2>1
  <2>2. CASE signalled
    <3>1. pc[u] = "asleep" /\ ~Idle(u)
      BY <1>3, <2>2 DEF Controls, Idle
    <3> QED
      BY <3>1 DEF Coming
  <2> QED
    BY <2>1, <2>2
<1>4. ASSUME NEW u \in Actors, waits[u] = "asleep"
      PROVE  \E v \in Actors : Coming(v)
  <2>1. PICK v \in Actors : pc[v] \in {"loop", "signal"} \/ waits[v] = "woken"
    BY <1>1, <1>4 DEF SleeperIsWatched
  <2>2. CASE pc[v] \in {"loop", "signal"}
    BY <2>2 DEF Coming
  <2> QED
    BY <1>3, <2>1, <2>2
<1>5. CASE Blocked(t)
  <2>1. PICK u \in Actors : pc[u] = "loop" \/ waits[u] # "no"
    BY <1>1, <1>5 DEF BlockedIsWatched
  <2>2. CASE pc[u] = "loop"
    BY <2>2 DEF Coming
  <2>3. CASE waits[u] # "no"
    BY <1>3, <1>4, <2>3 DEF Types
  <2> QED
    BY <2>1, <2>2, <2>3
<1> QED
  BY <1>1, <1>2, <1>3, <1>4, <1>5 DEF Idle, Blocked

-----------------------------------------------------------------------------
(* The invariant, and the theorems.                                        *)

SchedulerInv ==
  /\ Types /\ Controls
  /\ TaskOnce /\ RunsOnce /\ PrivateUse
  /\ Stages /\ PostedOnce /\ QueuesDistinct
  /\ WorkIsCounted
  /\ Waking

\* The invariant holds before any thread runs.
LEMMA InitInv ==
  ASSUME Init
  PROVE  SchedulerInv
<1> USE SchedulerAssumption
<1>1. Types
  <2>1. << >> \in Seq(Ops \cup {Task}) /\ <<Task>> \in Seq(Ops \cup {Task})
          /\ << >> \in Seq(Ops)
    OBVIOUS
  <2>2. {o \in Ops : stage[o] = "waits"} \in SUBSET Ops
    OBVIOUS
  <2>3. outstanding_work_ \in Int
    BY <2>2, FS_Subset, FS_CardinalityType DEF Init
  <2>4. op_queue_ \in Seq(Ops \cup {Task})
    BY <2>1 DEF Init
  <2>5. signalled \in BOOLEAN
    BY DEF Init
  <2> QED
    BY <2>1, <2>3, <2>4, <2>5 DEF Init, Types, Places
<1>2. Controls
  BY DEF Init, Controls, Completing, Counting, InHandler, Actors
<1>3. \A t \in Actors : ~InReactor(t) /\ ~InHandler(t) /\ ~Counting(t) /\ ~Completing(t)
  BY DEF Init, InReactor, InHandler, Counting, Completing
<1>4. Range(op_queue_) = (IF task_ THEN {Task} ELSE {}) /\ IsInjective(op_queue_)
  <2>1. Range(<<Task>>) = {Task} /\ IsInjective(<<Task>>)
    BY DEF Range, IsInjective
  <2> QED
    BY <2>1, RangeOfNone DEF Init
<1>5. TaskOnce
  BY <1>3, <1>4 DEF TaskOnce, InQueue
<1>6. RunsOnce
  BY <1>3 DEF RunsOnce
<1>7. PrivateUse
  BY <1>3 DEF PrivateUse, Init, Counting
<1>8. \A t \in Actors : Range(private_op_queue[t]) = {} /\ IsInjective(private_op_queue[t])
  BY RangeOfNone DEF Init
<1>9. Stages
  <2>1. Ordered(op_queue_, stage)
    <3>1. Ordered(<<Task>>, stage)
      BY DEF Ordered
    <3>2. Ordered(<< >>, stage)
      BY DEF Ordered
    <3> QED
      BY <3>1, <3>2 DEF Init
  <2> QED
    BY <1>3, <1>8, <2>1 DEF Stages, PrivateStages, PlaceStages, Init
<1>10. PostedOnce
  BY DEF PostedOnce, Init
<1>11. QueuesDistinct
  BY <1>4, <1>8 DEF QueuesDistinct
<1>12. WorkIsCounted
  <2>1. SumFunction(private_outstanding_work) = 0
    BY FinitelyMany, SumOfZeros DEF Init
  <2>2. Unfinished = {o \in Ops : stage[o] = "waits"} /\ InCleanup = {}
    BY DEF Init, Unfinished, InCleanup
  <2>3. outstanding_work_ = Cardinality(Unfinished) /\ Cardinality(InCleanup) = 0
    BY <2>2, FS_EmptySet DEF Init
  <2>4. Cardinality(Unfinished) \in Nat
    BY FinitelyMany
  <2> QED
    BY <2>1, <2>3, <2>4, CountIs
<1>13. Waking
  <2>1. HeldInLoop /\ SleeperIsWatched
    BY DEF Init, HeldInLoop, SleeperIsWatched
  <2>2. SignalledOrHeld
    BY Zenon DEF Init, SignalledOrHeld
  <2>3. InterruptArrives /\ BlockedIsWatched
    BY <1>3 DEF Init, InterruptArrives, BlockedIsWatched, Blocked
  <2> QED
    BY <2>1, <2>2, <2>3 DEF Waking
<1> QED
  BY <1>1, <1>2, <1>5, <1>6, <1>7, <1>9, <1>10, <1>11, <1>12, <1>13 DEF SchedulerInv

\* Every step keeps the invariant.
LEMMA NextInv ==
  ASSUME SchedulerInv, [Next]_schedulerVars
  PROVE  SchedulerInv'
<1> USE DEF SchedulerInv
<1>1. Types' /\ Controls'
  BY TypesStep, ControlsStep
<1>2. TaskOnce' /\ RunsOnce' /\ PrivateUse'
  BY TaskOnceStep, RunsOnceStep, PrivateUseStep
<1>3. Stages'
  BY OrderedStep, PrivateStagesStep, PlaceStagesStep DEF Stages
<1>4. PostedOnce' /\ QueuesDistinct'
  BY PostedOnceStep, QueuesDistinctStep
<1>5. WorkIsCounted'
  BY CountStep
<1>6. Waking'
  BY HeldInLoopStep, SignalledOrHeldStep, InterruptArrivesStep, SleeperIsWatchedStep,
     BlockedIsWatchedStep DEF Waking
<1> QED
  BY <1>1, <1>2, <1>3, <1>4, <1>5, <1>6

\* The invariant holds in every state that is reached.
LEMMA Invariant == Spec => []SchedulerInv
<1>1. Init => SchedulerInv
  BY InitInv
<1>2. SchedulerInv /\ [Next]_schedulerVars => SchedulerInv'
  BY NextInv
<1> QED
  BY <1>1, <1>2, PTL DEF Spec

\* The variables have their types: in particular, outstanding_work_ is never
\* negative, though work_cleanup and task_cleanup add private counts late.
THEOREM TypesTheorem == Spec => []TypeOK
<1>1. SchedulerInv => TypeOK
  <2> SUFFICES ASSUME SchedulerInv
               PROVE  TypeOK
    OBVIOUS
  <2>1. outstanding_work_ \in Nat
    BY WorkIsLeft DEF SchedulerInv
  <2> QED
    BY <2>1 DEF SchedulerInv, Types, Places, TypeOK
<1> QED
  BY <1>1, Invariant, PTL

\* The reactor is in the queue or with one thread, and no operation is in two
\* places.
THEOREM PlacesTheorem == Spec => []OnePlaceEach
<1>1. SchedulerInv => OnePlaceEach
  BY PlacesFollow DEF SchedulerInv
<1> QED
  BY <1>1, Invariant, PTL

\* The counts are what is left to do.
THEOREM WorkTheorem == Spec => []WorkIsCounted
<1>1. SchedulerInv => WorkIsCounted
  BY DEF SchedulerInv
<1> QED
  BY <1>1, Invariant, PTL

\* No wakeup is lost.
THEOREM WatchedTheorem == Spec => []QueueIsWatched
<1>1. SchedulerInv => QueueIsWatched
  BY WatchedFollows DEF SchedulerInv
<1> QED
  BY <1>1, Invariant, PTL

-----------------------------------------------------------------------------
(* The promise of IoContext.                                               *)

TakenBy(t) == IF PlaceOf(t) \in {"taken", "calling"} THEN current[t] ELSE Nobody

\* No thread but t changes its place or its operation.
OthersStay(t) ==
  \A u \in Threads : u # t => PlaceOf(u)' = PlaceOf(u) /\ TakenBy(u)' = TakenBy(u)

\* The registers of a thread say where it is.
LEMMA OthersStayPut ==
  ASSUME NEW t, \A u \in Threads : u # t =>
           pc'[u] = pc[u] /\ after'[u] = after[u] /\ current'[u] = current[u]
  PROVE  OthersStay(t)
  BY DEF OthersStay, PlaceOf, TakenBy

\* A step that moves no thread and no operation changes nothing in IoContext.
LEMMA ContextStutters ==
  ASSUME NEW t, OthersStay(t), stage' = stage, stopped_' = stopped_,
         t \in Threads => PlaceOf(t)' = PlaceOf(t) /\ TakenBy(t)' = TakenBy(t)
  PROVE  UNCHANGED Context!contextVars
<1>1. [u \in Threads |-> PlaceOf(u)]' = [u \in Threads |-> PlaceOf(u)]
  BY DEF OthersStay
<1>2. [u \in Threads |-> TakenBy(u)]' = [u \in Threads |-> TakenBy(u)]
  BY DEF OthersStay
<1> QED
  BY <1>1, <1>2 DEF Context!contextVars, TakenBy

\* A step that moves one thread.
LEMMA ContextMoves ==
  ASSUME NEW t \in Threads, OthersStay(t), NEW from, NEW to,
         PlaceOf(t) = from, PlaceOf(t)' = to
  PROVE  /\ Context!Move(t, from, to)
         /\ [u \in Threads |-> TakenBy(u)]' =
              [[u \in Threads |-> TakenBy(u)] EXCEPT ![t] = TakenBy(t)']
         /\ TakenBy(t)' = TakenBy(t) =>
              [u \in Threads |-> TakenBy(u)]' = [u \in Threads |-> TakenBy(u)]
<1>1. [u \in Threads |-> PlaceOf(u)]' = [[u \in Threads |-> PlaceOf(u)] EXCEPT ![t] = to]
  BY DEF OthersStay
<1>2. [u \in Threads |-> TakenBy(u)]' =
        [[u \in Threads |-> TakenBy(u)] EXCEPT ![t] = TakenBy(t)']
  BY DEF OthersStay
<1>3. [u \in Threads |-> PlaceOf(u)][t] = from
  OBVIOUS
<1>4. TakenBy(t)' = TakenBy(t) =>
        [u \in Threads |-> TakenBy(u)]' = [u \in Threads |-> TakenBy(u)]
  BY DEF OthersStay
<1> QED
  BY <1>1, <1>2, <1>3, <1>4 DEF Context!Move

\* Nothing is left to do when the scheduler counts nothing.
Exhausted == outstanding_work_ = 0 => Unfinished = {}

\* What IoContext calls nothing left.
LEMMA NothingLeftIs ==
  ASSUME Types, Unfinished = {}
  PROVE  Context!NothingLeft
  BY DEF Types, Unfinished, Context!NothingLeft

\* A step of t that changes nothing but pc, and nothing that IoContext sees.
LEMMA ContextStays ==
  ASSUME Types, NEW t \in Actors, NEW l, l \in Places, pc' = [pc EXCEPT ![t] = l],
         \A u \in Actors : u # t => after'[u] = after[u],
         current' = current, stage' = stage, stopped_' = stopped_,
         t \in Threads => PlaceOf(t)' = PlaceOf(t)
  PROVE  UNCHANGED Context!contextVars
<1>1. OthersStay(t)
  <2>1. \A u \in Threads : u # t => pc'[u] = pc[u] /\ after'[u] = after[u]
    BY DEF Types, Actors
  <2> QED
    BY <2>1, OthersStayPut
<1>2. t \in Threads => TakenBy(t)' = TakenBy(t)
  BY DEF TakenBy
<1> QED
  BY <1>1, <1>2, ContextStutters

\* run() begins.
LEMMA ContextRun ==
  ASSUME SchedulerInv, Exhausted, NEW t \in Actors, Run(t)
  PROVE  Context!Enter(t) /\ t \in Threads
<1> USE DEF SchedulerInv
<1>1. t \in Threads /\ pc[t] = "out" /\ current' = current /\ stage' = stage /\ stopped_' = stopped_
  BY DEF Run, queueVars, opVars
<1>2. OthersStay(t)
  <2>1. \A u \in Threads : u # t => pc'[u] = pc[u] /\ after'[u] = after[u]
    BY DEF Run, Goto, Types
  <2> QED
    BY <1>1, <2>1, OthersStayPut
<1>3. PlaceOf(t) = "out" /\ TakenBy(t) = Nobody
  BY <1>1 DEF PlaceOf, TakenBy
<1>4. CASE outstanding_work_ = 0
  <2>1. pc'[t] = "stopping" /\ after'[t] = "done"
    BY <1>4 DEF Run, Goto, Types
  <2>2. PlaceOf(t)' = "ending" /\ TakenBy(t)' = Nobody
    BY <2>1 DEF PlaceOf, TakenBy
  <2>3. Context!NothingLeft
    BY <1>4, NothingLeftIs DEF Exhausted
  <2> QED
    BY <1>1, <1>2, <1>3, <2>2, <2>3, ContextMoves DEF Context!Enter, TakenBy
<1>5. CASE outstanding_work_ # 0
  <2>1. pc'[t] = "loop"
    BY <1>5 DEF Run, Goto, Types
  <2>2. PlaceOf(t)' = "in" /\ TakenBy(t)' = Nobody
    BY <2>1 DEF PlaceOf, TakenBy
  <2> QED
    BY <1>1, <1>2, <1>3, <2>2, ContextMoves DEF Context!Enter, TakenBy
<1> QED
  BY <1>4, <1>5

\* stop_all_threads.
LEMMA ContextStop ==
  ASSUME SchedulerInv, NEW t \in Actors, Stop(t)
  PROVE  Context!Stop(t) /\ t \in Threads
<1> USE DEF SchedulerInv
<1>1. /\ pc[t] = "stopping" /\ after' = after /\ current' = current /\ stage' = stage
      /\ stopped_' = TRUE /\ pc' = [pc EXCEPT ![t] = after[t]]
  BY DEF Stop, StopAll, Goto, opVars
<1>2. t \in Threads /\ after[t] \in {"done", "handler", "pushing"}
  BY <1>1 DEF Controls, Actors
<1>3. OthersStay(t)
  <2>1. \A u \in Threads : u # t => pc'[u] = pc[u]
    BY <1>1 DEF Types
  <2> QED
    BY <1>1, <2>1, OthersStayPut
<1>4. pc'[t] = after[t] /\ after'[t] = after[t]
  BY <1>1 DEF Types
<1>5. CASE after[t] = "handler"
  <2>1. PlaceOf(t) = "calling" /\ PlaceOf(t)' = "calling" /\ TakenBy(t)' = TakenBy(t)
    BY <1>1, <1>4, <1>5 DEF PlaceOf, TakenBy
  <2>2. [u \in Threads |-> PlaceOf(u)]' = [u \in Threads |-> PlaceOf(u)]
    BY <1>3, <2>1 DEF OthersStay
  <2>3. [u \in Threads |-> PlaceOf(u)][t] = "calling"
    BY <1>2, <2>1
  <2> QED
    BY <1>1, <1>2, <1>3, <2>1, <2>2, <2>3, ContextMoves DEF Context!Stop, TakenBy
<1>6. CASE after[t] = "done"
  <2>1. /\ PlaceOf(t) = "ending" /\ PlaceOf(t)' = "done"
        /\ TakenBy(t) = Nobody /\ TakenBy(t)' = Nobody
    BY <1>1, <1>4, <1>6 DEF PlaceOf, TakenBy
  <2> QED
    BY <1>1, <1>2, <1>3, <2>1, ContextMoves DEF Context!Stop, TakenBy
<1>7. CASE after[t] = "pushing"
  <2>1. /\ PlaceOf(t) = "ending" /\ PlaceOf(t)' = "in"
        /\ TakenBy(t) = Nobody /\ TakenBy(t)' = Nobody
    BY <1>1, <1>4, <1>7 DEF PlaceOf, TakenBy
  <2> QED
    BY <1>1, <1>2, <1>3, <2>1, ContextMoves DEF Context!Stop, TakenBy
<1> QED
  BY <1>2, <1>5, <1>6, <1>7

\* run() returns.
LEMMA ContextLeave ==
  ASSUME SchedulerInv, NEW t \in Actors, Leave(t)
  PROVE  Context!Leave(t) /\ t \in Threads
<1> USE DEF SchedulerInv
<1>1. /\ pc[t] = "loop" /\ stopped_ /\ after' = after /\ current' = current
      /\ stage' = stage /\ stopped_' = stopped_ /\ pc' = [pc EXCEPT ![t] = "done"]
  BY DEF Leave, Goto, opVars, queueVars
<1>2. t \in Threads
  BY <1>1 DEF Controls, Actors
<1>3. OthersStay(t)
  <2>1. \A u \in Threads : u # t => pc'[u] = pc[u]
    BY <1>1 DEF Types
  <2> QED
    BY <1>1, <2>1, OthersStayPut
<1>4. /\ PlaceOf(t) = "in" /\ PlaceOf(t)' = "done"
      /\ TakenBy(t) = Nobody /\ TakenBy(t)' = Nobody
  BY <1>1 DEF PlaceOf, TakenBy, Types
<1> QED
  BY <1>1, <1>2, <1>3, <1>4, ContextMoves DEF Context!Leave, TakenBy

\* An operation is taken, by no thread that has it already if it was posted.
LEMMA ContextTake ==
  ASSUME SchedulerInv, NEW t \in Actors, TakeOperation(t)
  PROVE  t \in Threads /\ \E o \in Ops : Context!Take(t, o)
<1> USE DEF SchedulerInv
<1>0. TookOperation(t)
  BY TakeOperationDoes
<1>1. PICK o \in Ops : o = op_queue_[1]
  BY <1>0 DEF TookOperation
<1>2. /\ pc[t] = "loop" /\ ~stopped_ /\ o \in Ops /\ op_queue_ # << >>
      /\ current' = [current EXCEPT ![t] = o]
      /\ stage' = stage /\ stopped_' = stopped_
  BY <1>1, <1>0 DEF TookOperation
<1>3. t \in Threads
  BY <1>2 DEF Controls, Actors
<1>4. \/ pc' = [pc EXCEPT ![t] = "complete"] /\ after' = after
      \/ /\ pc' = [pc EXCEPT ![t] = "signal"] \/ pc' = [pc EXCEPT ![t] = "complete"]
         /\ after' = [after EXCEPT ![t] = "complete"]
  BY <1>0 DEF TookOperation, Woke
<1>5. OthersStay(t)
  <2>1. \A u \in Threads : u # t =>
          pc'[u] = pc[u] /\ after'[u] = after[u] /\ current'[u] = current[u]
    BY <1>2, <1>4 DEF Types, Actors
  <2> QED
    BY <2>1, OthersStayPut
<1>6. PlaceOf(t) = "in" /\ PlaceOf(t)' = "taken" /\ TakenBy(t)' = o
  <2>1. current'[t] = o
    BY <1>2 DEF Types
  <2>2. pc'[t] = "complete" \/ (pc'[t] = "signal" /\ after'[t] = "complete")
    BY <1>4 DEF Types
  <2> QED
    BY <1>2, <2>1, <2>2 DEF PlaceOf, TakenBy
<1>7. ASSUME stage[o] = "posted", NEW u \in Threads
      PROVE  TakenBy(u) # o
  <2>1. InQueue(o)
    BY <1>1, <1>2, QueueAhead DEF Ahead, InQueue
  <2>2. ~Has(u, o)
    BY <1>2, <1>7, <2>1 DEF PostedOnce, Actors
  <2>3. CASE PlaceOf(u) = "taken"
    <3>1. Completing(u)
      BY <2>3 DEF PlaceOf, Completing
    <3> QED
      BY <2>2, <2>3, <3>1 DEF Has, TakenBy
  <2>4. CASE PlaceOf(u) = "calling"
    <3>1. InHandler(u)
      <4>1. after[u] \notin {"posting", "stopping"}
        BY DEF Types, Actors
      <4> QED
        BY <2>4, <4>1 DEF PlaceOf, InHandler
    <3>2. stage[current[u]] = "running"
      BY <3>1 DEF RunsOnce, Actors
    <3> QED
      BY <1>7, <2>4, <3>2 DEF TakenBy
  <2>5. CASE PlaceOf(u) \notin {"taken", "calling"}
    BY <1>2, <2>5, SchedulerAssumption DEF TakenBy
  <2> QED
    BY <2>3, <2>4, <2>5
<1>8. stage[o] = "posted" =>
        \A u \in Threads : [v \in Threads |-> TakenBy(v)][u] # o
  BY <1>7
<1>9. Context!Take(t, o)
  BY <1>2, <1>3, <1>5, <1>6, <1>8, ContextMoves DEF Context!Take, TakenBy
<1> QED
  BY <1>3, <1>9

\* A handler is called, or its event was for nothing.
LEMMA ContextPerform ==
  ASSUME SchedulerInv, NEW t \in Actors, Perform(t)
  PROVE  (Context!Call(t) \/ Context!Pass(t)) /\ t \in Threads
<1> USE DEF SchedulerInv
<1>1. Performed(t)
  BY PerformDoes
<1>2. pc[t] = "complete" /\ current' = current /\ after' = after /\ stopped_' = stopped_
  BY <1>1 DEF Performed, queueVars
<1>3. t \in Threads
  BY <1>2 DEF Controls, Actors
<1>4. \A l : pc' = [pc EXCEPT ![t] = l] => OthersStay(t)
  <2>1. \A l : pc' = [pc EXCEPT ![t] = l] => \A u \in Threads : u # t => pc'[u] = pc[u]
    BY DEF Types, Actors
  <2> QED
    BY <1>2, <2>1, OthersStayPut
<1>5. PlaceOf(t) = "taken" /\ TakenBy(t) = current[t]
  BY <1>2 DEF PlaceOf, TakenBy
<1>6. [u \in Threads |-> TakenBy(u)][t] = current[t]
  BY <1>3, <1>5
<1>7. CASE /\ stage[current[t]] \in {"waits", "posted"}
           /\ stage' = [stage EXCEPT ![current[t]] = "running"]
           /\ pc' = [pc EXCEPT ![t] = "handler"]
  <2>1. PlaceOf(t)' = "calling" /\ TakenBy(t)' = TakenBy(t)
    BY <1>2, <1>5, <1>7 DEF PlaceOf, TakenBy, Types
  <2>2. Context!Call(t)
    BY <1>2, <1>3, <1>4, <1>5, <1>6, <1>7, <2>1, ContextMoves DEF Context!Call, TakenBy
  <2> QED
    BY <1>3, <2>2
<1>8. CASE /\ stage[current[t]] # "posted" /\ stage' = stage
           /\ pc' = [pc EXCEPT ![t] = "cleanup"]
  <2>1. PlaceOf(t)' = "in" /\ TakenBy(t)' = Nobody
    BY <1>2, <1>5, <1>8 DEF PlaceOf, TakenBy, Types
  <2>2. Context!Pass(t)
    BY <1>2, <1>3, <1>4, <1>5, <1>6, <1>8, <2>1, ContextMoves DEF Context!Pass, TakenBy
  <2> QED
    BY <1>3, <2>2
<1> QED
  BY <1>1, <1>7, <1>8 DEF Performed

\* A handler returns.
LEMMA ContextReturn ==
  ASSUME SchedulerInv, NEW t \in Actors, HandlerReturns(t)
  PROVE  Context!Return(t) /\ t \in Threads
<1> USE DEF SchedulerInv
<1>1. /\ pc[t] = "handler" /\ current' = current /\ after' = after /\ stopped_' = stopped_
      /\ stage' = [stage EXCEPT ![current[t]] = "done"]
      /\ pc' = [pc EXCEPT ![t] = "cleanup"]
  BY DEF HandlerReturns, queueVars, Goto
<1>2. t \in Threads
  BY <1>1 DEF Controls, Actors
<1>3. OthersStay(t)
  <2>1. \A u \in Threads : u # t => pc'[u] = pc[u]
    BY <1>1 DEF Types, Actors
  <2> QED
    BY <1>1, <2>1, OthersStayPut
<1>4. /\ PlaceOf(t) = "calling" /\ TakenBy(t) = current[t]
      /\ PlaceOf(t)' = "in" /\ TakenBy(t)' = Nobody
  BY <1>1 DEF PlaceOf, TakenBy, Types
<1>5. [u \in Threads |-> TakenBy(u)][t] = current[t]
  BY <1>2, <1>4
<1> QED
  BY <1>1, <1>2, <1>3, <1>4, <1>5, ContextMoves DEF Context!Return, TakenBy

\* work_cleanup goes on, or finds that nothing is left to do.
LEMMA ContextWorkCleanup ==
  ASSUME SchedulerInv, SchedulerInv', Exhausted', NEW t \in Actors, WorkCleanup(t)
  PROVE  (Context!Exhaust(t) /\ t \in Threads) \/ UNCHANGED Context!contextVars
<1> USE DEF SchedulerInv
<1>1. /\ pc[t] = "cleanup" /\ current' = [current EXCEPT ![t] = Nobody]
      /\ after' = [after EXCEPT ![t] = "pushing"] /\ stage' = stage /\ stopped_' = stopped_
  BY DEF WorkCleanup, opVars
<1>2. t \in Threads
  BY <1>1 DEF Controls, Actors
<1>3. \/ pc' = [pc EXCEPT ![t] = "stopping"] /\ outstanding_work_' = 0
      \/ pc' = [pc EXCEPT ![t] = "pushing"]
  BY DEF WorkCleanup, Goto
<1>4. OthersStay(t)
  <2>1. \A u \in Threads : u # t =>
          pc'[u] = pc[u] /\ after'[u] = after[u] /\ current'[u] = current[u]
    BY <1>1, <1>3 DEF Types, Actors
  <2> QED
    BY <2>1, OthersStayPut
<1>5. PlaceOf(t) = "in" /\ TakenBy(t) = Nobody
  BY <1>1 DEF PlaceOf, TakenBy
<1>6. CASE pc' = [pc EXCEPT ![t] = "stopping"] /\ outstanding_work_' = 0
  <2>1. PlaceOf(t)' = "ending" /\ TakenBy(t)' = Nobody
    BY <1>1, <1>6 DEF PlaceOf, TakenBy, Types
  <2>2. Unfinished' = {} /\ Unfinished' = Unfinished
    BY <1>1, <1>6 DEF Exhausted, Unfinished
  <2>3. Context!NothingLeft
    BY <2>2, NothingLeftIs
  <2> QED
    BY <1>1, <1>2, <1>4, <1>5, <2>1, <2>3, ContextMoves DEF Context!Exhaust, TakenBy
<1>7. CASE pc' = [pc EXCEPT ![t] = "pushing"]
  <2>1. PlaceOf(t)' = "in" /\ TakenBy(t)' = Nobody
    BY <1>1, <1>7 DEF PlaceOf, TakenBy, Types
  <2> QED
    BY <1>1, <1>4, <1>5, <2>1, ContextStutters
<1> QED
  BY <1>3, <1>6, <1>7

\* An operation is started, by a handler or by a thread that only does that.
LEMMA ContextStart ==
  ASSUME SchedulerInv, NEW t \in Actors, NEW o \in Ops,
         PostContinuation(t, o) \/ Post(t, o) \/ StartOp(t, o)
  PROVE  Context!Start(o)
<1> USE DEF SchedulerInv
<1>1. /\ stage[o] = "new" /\ \E how \in {"waits", "posted"} : stage' = [stage EXCEPT ![o] = how]
      /\ current' = current /\ after' = after /\ stopped_' = stopped_
      /\ pc[t] = "handler" \/ (pc[t] = "out" /\ t \in Others)
      /\ pc' = pc \/ pc' = [pc EXCEPT ![t] = "posting"]
  <2>1. CASE PostContinuation(t, o)
    BY <2>1 DEF PostContinuation, queueVars
  <2>2. CASE Post(t, o)
    BY <2>2 DEF Post, MayPost, Back, Goto
  <2>3. CASE StartOp(t, o)
    BY <2>3 DEF StartOp, MayPost, Back, threadVars
  <2> QED
    BY <2>1, <2>2, <2>3
<1>2. OthersStay(t)
  <2>1. \A u \in Threads : u # t => pc'[u] = pc[u]
    BY <1>1 DEF Types, Actors
  <2> QED
    BY <1>1, <2>1, OthersStayPut
<1>3. CASE t \in Threads
  <2>1. pc[t] = "handler" /\ pc'[t] \in {"handler", "posting"}
    BY <1>1, <1>3, SchedulerAssumption DEF Types
  <2>2. PlaceOf(t) = "calling" /\ PlaceOf(t)' = "calling" /\ TakenBy(t)' = TakenBy(t)
    BY <1>1, <2>1 DEF PlaceOf, TakenBy
  <2>3. /\ [u \in Threads |-> PlaceOf(u)]' = [u \in Threads |-> PlaceOf(u)]
        /\ [u \in Threads |-> TakenBy(u)]' = [u \in Threads |-> TakenBy(u)]
    BY <1>2, <2>2 DEF OthersStay
  <2>4. [u \in Threads |-> PlaceOf(u)][t] = "calling"
    BY <1>3, <2>2
  <2> QED
    BY <1>1, <1>3, <2>3, <2>4 DEF Context!Start, TakenBy
<1>4. CASE t \notin Threads
  <2>1. Others # {}
    BY <1>4 DEF Actors
  <2>2. /\ [u \in Threads |-> PlaceOf(u)]' = [u \in Threads |-> PlaceOf(u)]
        /\ [u \in Threads |-> TakenBy(u)]' = [u \in Threads |-> TakenBy(u)]
    BY <1>2, <1>4 DEF OthersStay
  <2> QED
    BY <1>1, <2>1, <2>2 DEF Context!Start, TakenBy
<1> QED
  BY <1>3, <1>4

\* wake_one_thread_and_unlock goes on where the caller wants, before or after
\* it signals a waiter.
LEMMA ContextWakes ==
  ASSUME SchedulerInv, NEW t \in Actors, NEW l \in {"out", "handler"}, Wake(t, l),
         current' = current, stage' = stage, stopped_' = stopped_,
         t \in Threads => pc[t] \in {"handler", "posting"} /\ l = "handler"
  PROVE  UNCHANGED Context!contextVars
<1> USE DEF SchedulerInv
<1>1. Woke(t, l)
  BY WakeDoes
<1>2. PICK k \in {"signal", l} : pc' = [pc EXCEPT ![t] = k]
  BY <1>1 DEF Woke
<1>3. after' = [after EXCEPT ![t] = l]
  BY <1>1 DEF Woke
<1>4. t \in Threads => PlaceOf(t)' = "calling" /\ PlaceOf(t) = "calling"
  BY <1>2, <1>3 DEF PlaceOf, Types
<1>5. \A u \in Actors : u # t => after'[u] = after[u]
  BY <1>3 DEF Types
<1>6. k \in Places
  BY DEF Places
<1> QED
  BY <1>2, <1>4, <1>5, <1>6, ContextStays

\* The steps that bring t from one place of run() to the next.
LEMMA ContextInside ==
  ASSUME SchedulerInv, NEW t \in Actors,
         \/ Signal(t) \/ TakeTask(t) \/ Sleep(t) \/ Awake(t) \/ RunTask(t)
         \/ TaskCleanup(t) \/ PushPrivate(t) \/ StopInHandler(t)
  PROVE  UNCHANGED Context!contextVars
<1> USE DEF SchedulerInv
<1>1. CASE Signal(t)
  <2>1. Signalled(t)
    BY <1>1, SignalDoes
  <2>2. /\ pc[t] = "signal" /\ pc' = [pc EXCEPT ![t] = after[t]] /\ after' = after
        /\ current' = current /\ stage' = stage /\ stopped_' = stopped_
    BY <2>1 DEF Signalled, queueVars
  <2>3. after[t] \in Places /\ after[t] \notin {"signal", "stopping"}
    BY DEF Types, Places
  <2>4. PlaceOf(t)' = PlaceOf(t)
    BY <2>2, <2>3 DEF PlaceOf, Types
  <2> QED
    BY <2>2, <2>3, <2>4, ContextStays
<1>2. CASE TakeTask(t)
  <2>1. TookTask(t)
    BY <1>2, TakeTaskDoes
  <2>2. /\ pc[t] = "loop" /\ after' = [after EXCEPT ![t] = "task"]
        /\ current' = current /\ stage' = stage /\ stopped_' = stopped_
    BY <2>1 DEF TookTask
  <2>3. PICK k \in {"signal", "task"} : pc' = [pc EXCEPT ![t] = k]
    BY <2>1 DEF TookTask
  <2>4. k \in Places /\ \A u \in Actors : u # t => after'[u] = after[u]
    BY <2>2 DEF Types, Places
  <2>5. PlaceOf(t) = "in" /\ PlaceOf(t)' = "in"
    BY <2>2, <2>3 DEF PlaceOf, Types
  <2> QED
    BY <2>2, <2>3, <2>4, <2>5, ContextStays
<1>3. CASE Sleep(t)
  <2>1. /\ pc[t] = "loop" /\ pc' = [pc EXCEPT ![t] = "asleep"] /\ after' = after
        /\ current' = current /\ stage' = stage /\ stopped_' = stopped_
    BY <1>3 DEF Sleep, Goto, queueVars, opVars
  <2>2. PlaceOf(t) = "in" /\ PlaceOf(t)' = "in"
    BY <2>1 DEF PlaceOf, Types
  <2> QED
    BY <2>1, <2>2, ContextStays DEF Places
<1>4. CASE Awake(t)
  <2>1. Awoke(t)
    BY <1>4, AwakeDoes
  <2>2. /\ pc[t] = "asleep" /\ after' = after
        /\ current' = current /\ stage' = stage /\ stopped_' = stopped_
    BY <2>1 DEF Awoke, queueVars, Controls
  <2>3. PICK k \in {"asleep", "loop"} : pc' = [pc EXCEPT ![t] = k]
    BY <2>1, <2>2 DEF Awoke, Types
  <2>4. PlaceOf(t) = "in" /\ PlaceOf(t)' = "in" /\ k \in Places
    BY <2>2, <2>3 DEF PlaceOf, Types, Places
  <2> QED
    BY <2>2, <2>3, <2>4, ContextStays
<1>5. CASE RunTask(t)
  <2>1. RanTask(t)
    BY <1>5, RunTaskDoes
  <2>2. /\ pc[t] = "task" /\ pc' = [pc EXCEPT ![t] = "taskDone"] /\ after' = after
        /\ current' = current /\ stage' = stage /\ stopped_' = stopped_
    BY <2>1 DEF RanTask, queueVars
  <2>3. PlaceOf(t) = "in" /\ PlaceOf(t)' = "in"
    BY <2>2 DEF PlaceOf, Types
  <2> QED
    BY <2>2, <2>3, ContextStays DEF Places
<1>6. CASE TaskCleanup(t) \/ PushPrivate(t)
  <2>1. /\ pc[t] \in {"taskDone", "pushing"} /\ pc' = [pc EXCEPT ![t] = "loop"] /\ after' = after
        /\ current' = current /\ stage' = stage /\ stopped_' = stopped_
    BY <1>6 DEF TaskCleanup, PushPrivate, Goto, opVars
  <2>2. PlaceOf(t) = "in" /\ PlaceOf(t)' = "in"
    BY <2>1 DEF PlaceOf, Types
  <2> QED
    BY <2>1, <2>2, ContextStays DEF Places
<1>7. CASE StopInHandler(t)
  <2>1. /\ pc[t] = "handler" /\ pc' = [pc EXCEPT ![t] = "stopping"]
        /\ after' = [after EXCEPT ![t] = "handler"]
        /\ current' = current /\ stage' = stage /\ stopped_' = stopped_
    BY <1>7 DEF StopInHandler, Goto, queueVars, opVars
  <2>2. PlaceOf(t) = "calling" /\ PlaceOf(t)' = "calling"
    BY <2>1 DEF PlaceOf, Types
  <2>3. \A u \in Actors : u # t => after'[u] = after[u]
    BY <2>1 DEF Types
  <2> QED
    BY <2>1, <2>2, <2>3, ContextStays DEF Places
<1> QED
  BY <1>1, <1>2, <1>3, <1>4, <1>5, <1>6, <1>7

\* Every step of the scheduler is one of IoContext, or changes nothing there.
LEMMA ContextStep ==
  ASSUME SchedulerInv, SchedulerInv', Exhausted, Exhausted', [Next]_schedulerVars
  PROVE  [Context!ContextNext]_(Context!contextVars)
<1>1. ASSUME \E t \in Threads :
                \/ Context!Enter(t) \/ Context!Exhaust(t) \/ Context!Call(t)
                \/ Context!Pass(t) \/ Context!Return(t) \/ Context!Stop(t)
                \/ Context!Leave(t)
      PROVE  Context!ContextNext
  BY <1>1 DEF Context!ContextNext
<1>1a. ASSUME NEW t \in Threads, NEW o \in Ops, Context!Take(t, o)
      PROVE  Context!ContextNext
  BY <1>1a DEF Context!ContextNext
<1>2. ASSUME \E o \in Ops : Context!Start(o)
      PROVE  Context!ContextNext
  BY <1>2 DEF Context!ContextNext
<1>3. ASSUME pc' = pc, after' = after, current' = current, stage' = stage, stopped_' = stopped_
      PROVE  UNCHANGED Context!contextVars
  <2>1. \A u \in Threads : PlaceOf(u)' = PlaceOf(u) /\ TakenBy(u)' = TakenBy(u)
    BY <1>3 DEF PlaceOf, TakenBy
  <2> QED
    BY <1>3, <2>1, ContextStutters DEF OthersStay
<1>4. ASSUME NEW t \in Actors,
             \/ Run(t) \/ Stop(t) \/ Leave(t) \/ TakeOperation(t) \/ Perform(t)
             \/ HandlerReturns(t) \/ WorkCleanup(t)
      PROVE  Context!ContextNext \/ UNCHANGED Context!contextVars
  <2>1. CASE Run(t)
    BY <1>1, <2>1, ContextRun
  <2>2. CASE Stop(t)
    BY <1>1, <2>2, ContextStop
  <2>3. CASE Leave(t)
    BY <1>1, <2>3, ContextLeave
  <2>4. CASE TakeOperation(t)
    BY <1>1a, <2>4, ContextTake
  <2>5. CASE Perform(t)
    BY <1>1, <2>5, ContextPerform
  <2>6. CASE HandlerReturns(t)
    BY <1>1, <2>6, ContextReturn
  <2>7. CASE WorkCleanup(t)
    BY <1>1, <2>7, ContextWorkCleanup
  <2> QED
    BY Zenon, <1>4, <2>1, <2>2, <2>3, <2>4, <2>5, <2>6, <2>7
<1>5. ASSUME NEW t \in Actors, Push(t) \/ InitTask(t)
      PROVE  UNCHANGED Context!contextVars
  <2>1. /\ Wake(t, Back(t)) /\ Back(t) \in {"out", "handler"}
        /\ current' = current /\ stage' = stage /\ stopped_' = stopped_
    BY <1>5 DEF Push, InitTask, Back, opVars
  <2>2. t \in Threads => pc[t] \in {"handler", "posting"} /\ Back(t) = "handler"
    BY <1>5, SchedulerAssumption DEF Push, InitTask, MayPost, Back
  <2> QED
    BY <2>1, <2>2, ContextWakes
<1>6. ASSUME NEW t \in Actors, SpuriousWakeup(t)
      PROVE  UNCHANGED Context!contextVars
  BY <1>3, <1>6 DEF SpuriousWakeup, threadVars, opVars, queueVars
<1>7. ASSUME NEW o \in Ops, Ready(o)
      PROVE  UNCHANGED Context!contextVars
  BY <1>3, <1>7 DEF Ready, threadVars, queueVars
<1>8. ASSUME UNCHANGED schedulerVars
      PROVE  UNCHANGED Context!contextVars
  BY <1>3, <1>8 DEF schedulerVars, threadVars, queueVars, opVars
<1> QED
  BY <1>2, <1>4, <1>5, <1>6, <1>7, <1>8, ContextStart, ContextInside
     DEF Next, Proceed, Loop

\* The scheduler keeps the promise of its context (io_context.hpp:178-180 and
\* 285-294): an operation that was posted is taken by one thread, its handler
\* is called once, run() ends only when nothing is left to do in any thread or
\* the context is stopped, and then no thread takes any more.  The count that
\* run() looks at is behind the private counts; NothingIsLeft is why it does
\* not matter.
THEOREM ContextImplemented == Spec => ImplementsIoContext
<1>1. SchedulerInv => Exhausted
  BY NothingIsLeft DEF SchedulerInv, Exhausted
<1>2. Init => Context!ContextInit
  <2> SUFFICES ASSUME Init
               PROVE  Context!ContextInit
    OBVIOUS
  <2>1. \A t \in Threads : PlaceOf(t) = "out"
    BY DEF Init, PlaceOf, Actors
  <2> QED
    BY <2>1 DEF Init, Context!ContextInit
<1>3. SchedulerInv /\ SchedulerInv' /\ Exhausted /\ Exhausted' /\ [Next]_schedulerVars
        => [Context!ContextNext]_(Context!contextVars)
  BY ContextStep
<1> QED
  BY <1>1, <1>2, <1>3, Invariant, PTL DEF Spec, ImplementsIoContext, Context!ContextSpec

=============================================================================
