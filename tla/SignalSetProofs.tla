-------------------------- MODULE SignalSetProofs --------------------------
(***************************************************************************)
(* Theorems about module SignalSet, for any services, sets and signals.    *)
(***************************************************************************)
EXTENDS SignalSet, WellFoundedInduction, FiniteSetTheorems, SequenceTheorems, TLAPS

Holders(n) == {s \in Sets : n \in Registered(s)}

\* registration_count_ is the number of sets that have the signal, and asio's
\* handler is installed while it is not zero.
CountsHolders ==
  \A n \in Signals :
    /\ registration_count_[n] = Cardinality(Holders(n))
    /\ disposition[n] = "asio" <=> registration_count_[n] # 0

IInv == TypeOK /\ CountsHolders /\ NoWaiterWhileQueued /\ WatchesOpenPipe

-----------------------------------------------------------------------------
(* Data.                                                                   *)

\* deliver_signal and cancel complete a number of operations in the same way.
LEMMA Completions ==
  ASSUME NEW S, NEW p \in Seq(S), NEW e \in S, NEW k \in Nat
  PROVE  p \o [i \in 1..k |-> e] \in Seq(S)
<1>1. [i \in 1..k |-> e] \in Seq(S)
  OBVIOUS
<1> QED
  BY <1>1

\* start_wait_op finds the lowest of the signals that were counted.
LEMMA LowestSignal ==
  ASSUME NEW S, S \subseteq Nat, S # {}
  PROVE  (CHOOSE n \in S : \A m \in S : n <= m) \in S
<1>1. PICK x \in S : \A y \in S : ~ (<<y, x>> \in OpToRel(<, Nat))
  BY NatLessThanWellFounded, WFMin
<1>2. OpToRel(<, Nat) = {ss \in Nat \X Nat : ss[1] < ss[2]}
  BY DEF OpToRel
<1>3. \A y \in S : ~ (y < x)
  BY <1>1, <1>2
<1>4. x \in S /\ \A y \in S : x <= y
  BY <1>3
<1> QED
  BY <1>4

\* A number of sets is not more than there are.
LEMMA CountOfSets ==
  ASSUME NEW T, T \subseteq Sets
  PROVE  IsFiniteSet(T) /\ Cardinality(T) \in 0..Cardinality(Sets)
<1>1. IsFiniteSet(T) /\ Cardinality(T) <= Cardinality(Sets)
  BY FS_Subset, SignalSetAssumption
<1>2. Cardinality(T) \in Nat /\ Cardinality(Sets) \in Nat
  BY <1>1, FS_CardinalityType, SignalSetAssumption
<1> QED
  BY <1>1, <1>2

\* The holders of a signal can be counted.
LEMMA HoldersCount ==
  ASSUME NEW n
  PROVE  /\ IsFiniteSet(Holders(n)) /\ Cardinality(Holders(n)) \in 0..Cardinality(Sets)
         /\ Cardinality(Holders(n)') \in 0..Cardinality(Sets)
  BY CountOfSets DEF Holders

-----------------------------------------------------------------------------
(* The steps.                                                              *)

\* At the start there is no service and nothing is registered.
LEMMA InitInvariant == Init => IInv
<1> SUFFICES ASSUME Init PROVE IInv
  OBVIOUS
<1> USE DEF Init
<1>1. Cardinality(Sets) \in Nat
  BY FS_CardinalityType, SignalSetAssumption
<1>2. \A s \in Sets : Registered(s) = {} /\ undelivered_[s] \in [Registered(s) -> Nat]
  BY DEF Registered
<1>3. TypeOK
  BY <1>1, <1>2, SignalSetAssumption DEF TypeOK
<1>4. \A n : Holders(n) = {}
  BY <1>2 DEF Holders
<1>5. CountsHolders
  BY <1>4, FS_EmptySet DEF CountsHolders
<1>6. NoWaiterWhileQueued /\ WatchesOpenPipe
  BY DEF NoWaiterWhileQueued, WatchesOpenPipe
<1> QED
  BY <1>3, <1>5, <1>6 DEF IInv

\* CountsHolders is about the registrations only ...
LEMMA SameCounts ==
  ASSUME CountsHolders, UNCHANGED <<registration_count_, disposition>>,
         \A s \in Sets : Registered(s)' = Registered(s)
  PROVE  CountsHolders'
<1>1. \A n : Holders(n)' = Holders(n)
  BY DEF Holders
<1> QED
  BY <1>1 DEF CountsHolders

\* ... and WatchesOpenPipe about the services.
LEMMA SameWatches ==
  ASSUME WatchesOpenPipe, UNCHANGED <<stage, watched, opened, service_list_>>
  PROVE  WatchesOpenPipe'
  BY DEF WatchesOpenPipe

\* A signal that occurs, an event of epoll and a read of the pipe leave the sets
\* and the registrations alone.
LEMMA RaiseStep ==
  ASSUME TypeOK, NEW n \in Signals, Raise(n)
  PROVE  TypeOK' /\ UNCHANGED <<undelivered_, waiting, registration_count_, disposition,
                               stage, watched, opened, service_list_>>
<1> USE DEF Raise, setVars, kernelVars
<1>1. pipe' \in Seq(Signals) /\ Len(pipe') <= PipeSize
  <2>1. pipe \in Seq(Signals) /\ Len(pipe) <= PipeSize /\ Len(pipe) \in Nat /\ PipeSize \in Nat
    BY SignalSetAssumption DEF TypeOK
  <2>2. Append(pipe, n) \in Seq(Signals) /\ Len(Append(pipe, n)) = Len(pipe) + 1
    BY <2>1, AppendProperties
  <2> QED
    BY <2>1, <2>2
<1>2. edge' \in [Services -> BOOLEAN]
  BY DEF TypeOK
<1> QED
  BY <1>1, <1>2 DEF TypeOK, Registered

\* Reading the pipe keeps the types and the registrations.
LEMMA ReadStep ==
  ASSUME TypeOK, NEW v \in Services, EpollEvent(v) \/ ReadPipe(v)
  PROVE  TypeOK' /\ UNCHANGED <<undelivered_, waiting, registration_count_, disposition,
                               stage, watched, opened, service_list_>>
<1>1. CASE EpollEvent(v)
  BY <1>1 DEF TypeOK, EpollEvent, setVars, kernelVars, pipeVars, Registered
<1>2. CASE ReadPipe(v)
  <2> USE <1>2 DEF ReadPipe, setVars, kernelVars
  <2>1. pipe \in Seq(Signals) /\ Len(pipe) <= PipeSize /\ Len(pipe) \in Nat /\ PipeSize \in Nat
    BY SignalSetAssumption DEF TypeOK
  <2>2. CASE pipe = << >>
    BY <2>2 DEF TypeOK, Registered
  <2>3. CASE pipe # << >>
    <3>1. /\ Head(pipe) \in Signals
          /\ Tail(pipe) \in Seq(Signals) /\ Len(Tail(pipe)) = Len(pipe) - 1
      BY <2>1, <2>3, HeadTailProperties
    <3>2. pipe' \in Seq(Signals) /\ Len(pipe') <= PipeSize
      BY <2>1, <2>3, <3>1
    <3>3. number' \in [Services -> Signals \cup {0}]
      BY <2>3, <3>1, ZenonT(40) DEF TypeOK
    <3> QED
      BY <2>3, <3>2, <3>3 DEF TypeOK, Registered
  <2> QED
    BY <2>2, <2>3
<1> QED
  BY <1>1, <1>2

\* A signal that is delivered completes what waits in a set, or is counted where
\* nothing does.
LEMMA DeliverStep ==
  ASSUME IInv, NEW v \in Services, Deliver(v)
  PROVE  IInv'
<1> DEFINE n == number[v]
<1> USE DEF IInv, Deliver
<1>1. n \in Signals
  BY DEF TypeOK
<1>2. ASSUME NEW s \in Sets
      PROVE  /\ Registered(s)' = Registered(s)
             /\ undelivered_'[s] \in [Registered(s) -> Nat]
             /\ waiting'[s] = 0 \/ (waiting'[s] = waiting[s] /\ undelivered_'[s] = undelivered_[s])
             /\ waiting'[s] \in Nat
  BY <1>1 DEF TypeOK, Registered, Hears
<1>3. posted' \in [Sets -> Seq(Signals \cup {Aborted})]
  <2>1. ASSUME NEW s \in Sets PROVE posted'[s] \in Seq(Signals \cup {Aborted})
    <3>1. posted[s] \in Seq(Signals \cup {Aborted}) /\ waiting[s] \in Nat
      BY DEF TypeOK
    <3>2. posted[s] \o [i \in 1..waiting[s] |-> n] \in Seq(Signals \cup {Aborted})
      BY <1>1, <3>1, Completions
    <3> QED
      BY <3>1, <3>2
  <2> QED
    BY <2>1
<1>4. waiting' \in [Sets -> Nat] /\ number' \in [Services -> Signals \cup {0}]
  BY <1>2 DEF TypeOK
<1>5. TypeOK'
  <2>1. undelivered_' = [s \in Sets |-> undelivered_'[s]]
    OBVIOUS
  <2> QED
    BY <1>2, <1>3, <1>4, <2>1 DEF TypeOK, pipeVars, kernelVars
<1>6. CountsHolders'
  BY <1>2, SameCounts DEF kernelVars
<1>7. NoWaiterWhileQueued'
  BY <1>2 DEF NoWaiterWhileQueued, Queued
<1>8. WatchesOpenPipe'
  BY SameWatches DEF pipeVars
<1> QED
  BY <1>5, <1>6, <1>7, <1>8

\* A registration more, and one set more that has the signal.
LEMMA AddStep ==
  ASSUME IInv, NEW s \in Sets, NEW n \in Signals, Add(s, n)
  PROVE  IInv'
<1> USE DEF IInv, Add
<1>1. /\ Registered(s)' = Registered(s) \cup {n}
      /\ undelivered_'[s] \in [Registered(s)' -> Nat]
      /\ undelivered_'[s][n] = 0
      /\ \A m \in Registered(s) : undelivered_'[s][m] = undelivered_[s][m]
  BY DEF TypeOK, Registered
<1>2. \A t \in Sets \ {s} : undelivered_'[t] = undelivered_[t] /\ Registered(t)' = Registered(t)
  BY DEF TypeOK, Registered
<1>3. Holders(n)' = Holders(n) \cup {s} /\ s \notin Holders(n)
  BY <1>1, <1>2 DEF Holders
<1>4. \A m \in Signals \ {n} : Holders(m)' = Holders(m)
  BY <1>1, <1>2 DEF Holders
<1>5. Cardinality(Holders(n)') = Cardinality(Holders(n)) + 1
  BY <1>3, HoldersCount, FS_AddElement
<1>6. CountsHolders'
  BY <1>4, <1>5, HoldersCount DEF CountsHolders, TypeOK
<1>7. TypeOK'
  <2>1. registration_count_' \in [Signals -> 0..Cardinality(Sets)]
    BY <1>6, HoldersCount DEF CountsHolders, TypeOK
  <2>2. undelivered_' = [t \in Sets |-> undelivered_'[t]]
    BY DEF TypeOK
  <2> QED
    BY <1>1, <1>2, <2>1, <2>2 DEF TypeOK, pipeVars, serviceVars
<1>8. NoWaiterWhileQueued'
  <2>1. \A t \in Sets : Queued(t)' = Queued(t)
    BY <1>1, <1>2 DEF Queued, TypeOK
  <2> QED
    BY <2>1 DEF NoWaiterWhileQueued
<1>9. WatchesOpenPipe'
  BY SameWatches DEF pipeVars, serviceVars
<1> QED
  BY <1>6, <1>7, <1>8, <1>9

\* remove: a registration less.
LEMMA RemoveStep ==
  ASSUME IInv, NEW s \in Sets, NEW n \in Signals, Remove(s, n)
  PROVE  IInv'
<1> USE DEF IInv, Remove
<1>1. /\ Registered(s)' = Registered(s) \ {n}
      /\ undelivered_'[s] \in [Registered(s)' -> Nat]
      /\ \A m \in Registered(s)' : undelivered_'[s][m] = undelivered_[s][m]
  BY DEF TypeOK, Registered, Restrict
<1>2. \A t \in Sets \ {s} : undelivered_'[t] = undelivered_[t] /\ Registered(t)' = Registered(t)
  BY DEF TypeOK, Registered
<1>3. Holders(n)' = Holders(n) \ {s} /\ s \in Holders(n)
  BY <1>1, <1>2 DEF Holders
<1>4. \A m \in Signals \ {n} : Holders(m)' = Holders(m)
  BY <1>1, <1>2 DEF Holders
<1>5. Cardinality(Holders(n)') = Cardinality(Holders(n)) - 1
  BY <1>3, HoldersCount, FS_RemoveElement
<1>6. CountsHolders'
  <2>1. /\ registration_count_[n] = Cardinality(Holders(n))
        /\ Cardinality(Holders(n)) \in Nat
        /\ disposition[n] = "asio" <=> registration_count_[n] # 0
    BY HoldersCount DEF CountsHolders
  <2>2. registration_count_'[n] = registration_count_[n] - 1
    BY DEF TypeOK
  <2>3. registration_count_[n] # 0
    BY <1>5, <2>1, HoldersCount
  <2>4. disposition'[n] = IF registration_count_[n] = 1 THEN "default" ELSE disposition[n]
    BY DEF TypeOK
  <2>5. /\ registration_count_'[n] = Cardinality(Holders(n)')
        /\ disposition'[n] = "asio" <=> registration_count_'[n] # 0
    BY <1>5, <2>1, <2>2, <2>3, <2>4
  <2>6. \A m \in Signals \ {n} : /\ registration_count_'[m] = registration_count_[m]
                                /\ disposition'[m] = disposition[m]
    BY DEF TypeOK
  <2> QED
    BY <1>4, <2>5, <2>6 DEF CountsHolders
<1>7. TypeOK'
  <2>1. registration_count_' \in [Signals -> 0..Cardinality(Sets)]
    BY <1>6, HoldersCount DEF CountsHolders, TypeOK
  <2>2. undelivered_' = [t \in Sets |-> undelivered_'[t]]
    BY DEF TypeOK
  <2>3. disposition' \in [Signals -> {"default", "asio"}]
    BY DEF TypeOK
  <2>4. \A t \in Sets : Registered(t)' \subseteq Signals
                       /\ undelivered_'[t] \in [Registered(t)' -> Nat]
    BY <1>1, <1>2 DEF TypeOK
  <2> QED
    BY <2>1, <2>2, <2>3, <2>4 DEF TypeOK, pipeVars, serviceVars
<1>8. NoWaiterWhileQueued'
  <2>1. \A t \in Sets : Queued(t)' \subseteq Queued(t)
    BY <1>1, <1>2 DEF Queued, TypeOK
  <2> QED
    BY <2>1 DEF NoWaiterWhileQueued
<1>9. WatchesOpenPipe'
  BY SameWatches DEF pipeVars, serviceVars
<1> QED
  BY <1>6, <1>7, <1>8, <1>9

\* clear: a set less for each of its signals.
LEMMA ClearStep ==
  ASSUME IInv, NEW s \in Sets, Clear(s)
  PROVE  IInv'
<1> USE DEF IInv, Clear
<1>1. Registered(s)' = {} /\ undelivered_'[s] \in [Registered(s)' -> Nat]
  BY DEF TypeOK, Registered
<1>2. \A t \in Sets \ {s} : undelivered_'[t] = undelivered_[t] /\ Registered(t)' = Registered(t)
  BY DEF TypeOK, Registered
<1>3. ASSUME NEW n \in Signals
      PROVE  /\ registration_count_'[n] = Cardinality(Holders(n)')
             /\ disposition'[n] = "asio" <=> registration_count_'[n] # 0
  <2>1. Holders(n)' = Holders(n) \ {s}
    BY <1>1, <1>2 DEF Holders
  <2>2. s \in Holders(n) <=> n \in Registered(s)
    BY DEF Holders
  <2>3. Cardinality(Holders(n)') =
          Cardinality(Holders(n)) - IF n \in Registered(s) THEN 1 ELSE 0
    <3>1. IsFiniteSet(Holders(n)) /\ Cardinality(Holders(n)) \in Int
      BY HoldersCount, CountOfSets
    <3>2. Cardinality(Holders(n) \ {s}) =
            IF s \in Holders(n) THEN Cardinality(Holders(n)) - 1 ELSE Cardinality(Holders(n))
      BY <3>1, FS_RemoveElement
    <3> QED
      BY <2>1, <2>2, <3>1, <3>2
  <2>4. /\ registration_count_[n] = Cardinality(Holders(n))
        /\ disposition[n] = "asio" <=> registration_count_[n] # 0
        /\ Cardinality(Holders(n)) \in Nat
    BY HoldersCount DEF CountsHolders
  <2>5. registration_count_'[n] = registration_count_[n] - IF n \in Registered(s) THEN 1 ELSE 0
    OBVIOUS
  <2>6. disposition'[n] = IF n \in Registered(s) /\ registration_count_[n] = 1
                          THEN "default" ELSE disposition[n]
    OBVIOUS
  <2>7. n \in Registered(s) => Cardinality(Holders(n)) # 0
    BY <2>2, <2>3, <2>4, HoldersCount
  <2> QED
    BY <2>3, <2>4, <2>5, <2>6, <2>7
<1>4. CountsHolders'
  BY <1>3 DEF CountsHolders
<1>5. TypeOK'
  <2>1. registration_count_' \in [Signals -> 0..Cardinality(Sets)]
    BY <1>3, HoldersCount
  <2>2. disposition' \in [Signals -> {"default", "asio"}]
    BY DEF TypeOK
  <2>3. undelivered_' = [t \in Sets |-> undelivered_'[t]]
    BY DEF TypeOK
  <2> QED
    BY <1>1, <1>2, <2>1, <2>2, <2>3 DEF TypeOK, pipeVars, serviceVars
<1>6. NoWaiterWhileQueued'
  <2>1. \A t \in Sets : Queued(t)' \subseteq Queued(t)
    BY <1>1, <1>2 DEF Queued
  <2> QED
    BY <2>1 DEF NoWaiterWhileQueued
<1>7. WatchesOpenPipe'
  BY SameWatches DEF pipeVars, serviceVars
<1> QED
  BY <1>4, <1>5, <1>6, <1>7

\* cancel: nothing waits in the set any more.
LEMMA CancelStep ==
  ASSUME IInv, NEW s \in Sets, Cancel(s)
  PROVE  IInv'
<1> USE DEF IInv, Cancel
<1>1. posted' \in [Sets -> Seq(Signals \cup {Aborted})]
  <2>1. posted[s] \o [i \in 1..waiting[s] |-> Aborted] \in Seq(Signals \cup {Aborted})
    BY Completions DEF TypeOK
  <2> QED
    BY <2>1 DEF TypeOK
<1>2. TypeOK'
  BY <1>1 DEF TypeOK, pipeVars, kernelVars, serviceVars, Registered
<1>3. CountsHolders'
  BY SameCounts DEF kernelVars, Registered
<1>4. NoWaiterWhileQueued'
  BY DEF NoWaiterWhileQueued, Queued, Registered, TypeOK
<1>5. WatchesOpenPipe'
  BY SameWatches DEF pipeVars, serviceVars
<1> QED
  BY <1>2, <1>3, <1>4, <1>5

\* start_wait_op: an operation waits only where nothing is counted, and takes
\* what is counted otherwise.
LEMMA StartWaitStep ==
  ASSUME IInv, NEW s \in Sets, StartWait(s)
  PROVE  IInv'
<1> USE DEF IInv, StartWait
<1>1. CASE Queued(s) = {}
  <2>1. TypeOK'
    <3>1. /\ waiting' = [waiting EXCEPT ![s] = @ + 1]
          /\ UNCHANGED <<undelivered_, posted>>
      BY <1>1
    <3>2. waiting' \in [Sets -> Nat]
      BY <3>1 DEF TypeOK
    <3> QED
      BY <3>1, <3>2 DEF TypeOK, pipeVars, kernelVars, serviceVars, Registered
  <2>2. NoWaiterWhileQueued'
    BY <1>1 DEF NoWaiterWhileQueued, Queued, Registered, TypeOK
  <2>3. CountsHolders'
    BY <1>1, SameCounts DEF kernelVars, Registered
  <2> QED
    BY <2>1, <2>2, <2>3, SameWatches DEF pipeVars, serviceVars
<1>2. CASE Queued(s) # {}
  <2> DEFINE n == CHOOSE n \in Queued(s) : \A m \in Queued(s) : n <= m
  <2>1. n \in Queued(s) /\ n \in Signals
    <3>1. Queued(s) \subseteq Signals /\ Queued(s) \subseteq Nat
      BY SignalSetAssumption DEF Queued, TypeOK
    <3> QED
      BY <1>2, <3>1, LowestSignal
  <2>2. /\ undelivered_' = [undelivered_ EXCEPT ![s][n] = @ - 1]
        /\ posted' = [posted EXCEPT ![s] = Append(@, n)]
        /\ UNCHANGED waiting
    BY <1>2
  <2> HIDE DEF n
  <2>3. undelivered_[s][n] \in Nat \ {0} /\ n \in Registered(s)
    BY <2>1 DEF Queued, TypeOK
  <2>4. /\ Registered(s)' = Registered(s)
        /\ undelivered_'[s] = [undelivered_[s] EXCEPT ![n] = @ - 1]
    BY <2>2 DEF Registered, TypeOK
  <2>5. undelivered_'[s] \in [Registered(s)' -> Nat]
    BY <2>3, <2>4 DEF TypeOK
  <2>6. \A t \in Sets \ {s} : undelivered_'[t] = undelivered_[t] /\ Registered(t)' = Registered(t)
    BY <2>2 DEF TypeOK, Registered
  <2>7. TypeOK'
    <3>1. posted' \in [Sets -> Seq(Signals \cup {Aborted})]
      BY <2>1, <2>2, AppendProperties DEF TypeOK
    <3>2. undelivered_' = [t \in Sets |-> undelivered_'[t]]
      BY <2>2 DEF TypeOK
    <3> QED
      BY <2>2, <2>4, <2>5, <2>6, <3>1, <3>2 DEF TypeOK, pipeVars, kernelVars, serviceVars
  <2>8. CountsHolders'
    BY <2>4, <2>6, SameCounts DEF kernelVars
  <2>9. NoWaiterWhileQueued'
    BY <1>2, <2>2, <2>6 DEF NoWaiterWhileQueued, Queued
  <2> QED
    BY <2>7, <2>8, <2>9, SameWatches DEF pipeVars, serviceVars
<1> QED
  BY <1>1, <1>2

\* The service that opens the pipe is alone, and one that comes later finds it
\* open; the last one closes it.
LEMMA ServiceStep ==
  ASSUME IInv, NEW v \in Services,
         AddService(v) \/ WatchPipe(v) \/ UnwatchPipe(v) \/ RemoveService(v)
  PROVE  IInv'
<1> USE DEF IInv
<1>1. CASE AddService(v)
  <2> USE <1>1 DEF AddService
  <2>1. TypeOK'
    <3>1. opened' \in 0..MaxPipes /\ pipe' \in Seq(Signals) /\ Len(pipe') <= PipeSize
      <4>1. PipeSize \in Nat /\ MaxPipes \in Nat /\ opened \in 0..MaxPipes
        BY SignalSetAssumption DEF TypeOK
      <4>2. CASE service_list_ = {}
        BY <4>1, <4>2
      <4>3. CASE service_list_ # {}
        BY <4>3 DEF TypeOK, pipeVars
      <4> QED
        BY <4>2, <4>3
    <3> QED
      BY <3>1 DEF TypeOK, kernelVars, setVars, Registered
  <2>2. WatchesOpenPipe'
    BY DEF WatchesOpenPipe, TypeOK, pipeVars
  <2> QED
    BY <2>1, <2>2, SameCounts DEF kernelVars, setVars, Registered, NoWaiterWhileQueued, Queued
<1>2. CASE WatchPipe(v)
  <2> USE <1>2 DEF WatchPipe
  <2>1. TypeOK'
    BY DEF TypeOK, kernelVars, setVars, pipeVars, Registered
  <2>2. WatchesOpenPipe'
    BY DEF WatchesOpenPipe, TypeOK, pipeVars
  <2> QED
    BY <2>1, <2>2, SameCounts DEF kernelVars, setVars, Registered, NoWaiterWhileQueued, Queued
<1>3. CASE UnwatchPipe(v)
  <2> USE <1>3 DEF UnwatchPipe
  <2>1. TypeOK'
    BY SignalSetAssumption DEF TypeOK, kernelVars, setVars, pipeVars, Registered
  <2>2. WatchesOpenPipe'
    BY DEF WatchesOpenPipe, TypeOK, pipeVars
  <2> QED
    BY <2>1, <2>2, SameCounts DEF kernelVars, setVars, Registered, NoWaiterWhileQueued, Queued
<1>4. CASE RemoveService(v)
  <2> USE <1>4 DEF RemoveService
  <2>1. TypeOK'
    <3>1. pipe' \in Seq(Signals) /\ Len(pipe') <= PipeSize
      BY SignalSetAssumption DEF TypeOK
    <3>2. waiting' \in [Sets -> Nat]
      BY DEF TypeOK, Abandon
    <3> QED
      BY <3>1, <3>2 DEF TypeOK, kernelVars, Registered
  <2>2. WatchesOpenPipe'
    BY DEF WatchesOpenPipe, TypeOK
  <2>3. NoWaiterWhileQueued'
    BY DEF NoWaiterWhileQueued, Queued, Registered, Abandon
  <2> QED
    BY <2>1, <2>2, <2>3, SameCounts DEF kernelVars, Registered
<1> QED
  BY <1>1, <1>2, <1>3, <1>4

-----------------------------------------------------------------------------
(* The theorems.                                                           *)

\* What the registrations, the pipe and the services leave alone.
LEMMA Untouched ==
  ASSUME IInv, TypeOK',
         UNCHANGED <<undelivered_, waiting, registration_count_, disposition,
                     stage, watched, opened, service_list_>>
  PROVE  IInv'
<1>1. NoWaiterWhileQueued'
  BY DEF IInv, NoWaiterWhileQueued, Queued, Registered
<1> QED
  BY <1>1, SameCounts, SameWatches DEF IInv, Registered

\* IInv is inductive: each operation keeps the types, the counts, the waiting
\* operations apart from what is counted, and the services at the open pipe.
THEOREM Invariance == Spec => []IInv
<1>1. IInv /\ [Next]_signalVars => IInv'
  <2> SUFFICES ASSUME IInv, [Next]_signalVars PROVE IInv'
    OBVIOUS
  <2>1. CASE UNCHANGED signalVars
    <3>1. TypeOK'
      BY <2>1 DEF IInv, TypeOK, signalVars, pipeVars, kernelVars, serviceVars, setVars, Registered
    <3> QED
      BY <2>1, <3>1, Untouched DEF signalVars, pipeVars, kernelVars, serviceVars, setVars
  <2>2. ASSUME NEW n \in Signals,
               Raise(n) \/ \E s \in Sets : Add(s, n) \/ Remove(s, n)
        PROVE  IInv'
    <3>1. CASE Raise(n)
      BY <3>1, RaiseStep, Untouched DEF IInv
    <3> QED
      BY <2>2, <3>1, AddStep, RemoveStep
  <2>3. ASSUME NEW s \in Sets, Clear(s) \/ Cancel(s) \/ StartWait(s)
        PROVE  IInv'
    BY <2>3, ClearStep, CancelStep, StartWaitStep
  <2>4. ASSUME NEW v \in Services,
               \/ System(v) \/ AddService(v) \/ WatchPipe(v)
               \/ UnwatchPipe(v) \/ RemoveService(v)
        PROVE  IInv'
    <3>1. CASE EpollEvent(v) \/ ReadPipe(v)
      BY <3>1, ReadStep, Untouched DEF IInv
    <3> QED
      BY <2>4, <3>1, DeliverStep, ServiceStep DEF System
  <2> QED
    BY <2>1, <2>2, <2>3, <2>4 DEF Next
<1> QED
  BY <1>1, InitInvariant, PTL DEF Spec

\* Every variable keeps its type; no counter falls below zero.
THEOREM TypeCorrect == Spec => []TypeOK
<1>1. IInv => TypeOK
  BY DEF IInv
<1> QED
  BY <1>1, Invariance, PTL

\* A signal has asio's handler exactly while a set is registered for it, however
\* many sets add and remove it (registration_count_, ipp:454).
THEOREM HandlersMatch == Spec => []DispositionMatches
<1>1. IInv => DispositionMatches
  <2> SUFFICES ASSUME IInv, NEW n \in Signals
               PROVE  disposition[n] = "asio" <=> \E s \in Sets : n \in Registered(s)
    BY DEF DispositionMatches
  <2>1. Cardinality(Holders(n)) = 0 <=> Holders(n) = {}
    BY HoldersCount, FS_EmptySet
  <2> QED
    BY <2>1 DEF IInv, CountsHolders, Holders
<1> QED
  BY <1>1, Invariance, PTL

\* No operation waits in a set that has a signal to give (deliver_signal and
\* start_wait_op).
THEOREM WaitersServed == Spec => []NoWaiterWhileQueued
<1>1. IInv => NoWaiterWhileQueued
  BY DEF IInv
<1> QED
  BY <1>1, Invariance, PTL

\* Every service watches the pipe that the signal handler writes to
\* (add_service, remove_service).
THEOREM PipesMatch == Spec => []WatchesOpenPipe
<1>1. IInv => WatchesOpenPipe
  BY DEF IInv
<1> QED
  BY <1>1, Invariance, PTL

-----------------------------------------------------------------------------
(* What is in the pipe.                                                    *)

\* Each service that watches the pipe has an event to come or reads the pipe, as
\* long as there is something in it: it is not enough that one service has,
\* because that one may go.
EachWatches ==
  pipe # << >> =>
    \A v \in Services : stage[v] = "added" => edge[v] \/ reader[v] # "idle"

\* A service in the list comes, is there or goes.
ListedAre == \A v \in service_list_ : stage[v] \in {"adding", "added", "removing"}

\* What the handler of a signal writes gives every service an event, and a
\* pipe_read_op does not end before the pipe is empty.
LEMMA WatchStep ==
  ASSUME IInv, EachWatches, ListedAre, [Next]_signalVars
  PROVE  EachWatches' /\ ListedAre'
<1>0. TypeOK /\ WatchesOpenPipe
  BY DEF IInv
<1>1. ASSUME NEW n \in Signals, Raise(n)
      PROVE  EachWatches' /\ ListedAre'
  <2>1. UNCHANGED <<opened, service_list_, stage, watched, reader>>
    BY <1>1 DEF Raise
  <2>2. CASE service_list_ # {} /\ Len(pipe) < PipeSize
    <3>1. edge' = [v \in Services |-> edge[v] \/ (stage[v] = "added" /\ watched[v] = opened)]
      BY <1>1, <2>2 DEF Raise
    <3>2. \A v \in Services : stage[v] = "added" => edge'[v]
      BY <1>0, <3>1 DEF WatchesOpenPipe
    <3> QED
      BY <2>1, <3>2 DEF EachWatches, ListedAre
  <2>3. CASE ~(service_list_ # {} /\ Len(pipe) < PipeSize)
    BY <1>1, <2>1, <2>3 DEF Raise, EachWatches, ListedAre
  <2> QED
    BY <2>2, <2>3
<1>2. ASSUME NEW s \in Sets, NEW n \in Signals, Add(s, n) \/ Remove(s, n)
      PROVE  EachWatches' /\ ListedAre'
  BY <1>2 DEF Add, Remove, pipeVars, serviceVars, EachWatches, ListedAre
<1>3. ASSUME NEW s \in Sets, Clear(s) \/ Cancel(s) \/ StartWait(s)
      PROVE  EachWatches' /\ ListedAre'
  BY <1>3 DEF Clear, Cancel, StartWait, pipeVars, serviceVars, EachWatches, ListedAre
<1>4. ASSUME NEW v \in Services, EpollEvent(v)
      PROVE  EachWatches' /\ ListedAre'
  BY <1>0, <1>4 DEF EpollEvent, pipeVars, TypeOK, EachWatches, ListedAre
<1>5. ASSUME NEW v \in Services, ReadPipe(v)
      PROVE  EachWatches' /\ ListedAre'
  <2>1. UNCHANGED <<service_list_, stage, edge>>
    BY <1>5 DEF ReadPipe
  <2>2. CASE pipe = << >>
    BY <1>5, <2>1, <2>2 DEF ReadPipe, EachWatches, ListedAre
  <2>3. CASE pipe # << >>
    BY <1>5, <2>1, <2>3 DEF ReadPipe, EachWatches, ListedAre
  <2> QED
    BY <2>2, <2>3
<1>6. ASSUME NEW v \in Services, Deliver(v)
      PROVE  EachWatches' /\ ListedAre'
  BY <1>6 DEF Deliver, pipeVars, EachWatches, ListedAre
<1>7. ASSUME NEW v \in Services, AddService(v)
      PROVE  EachWatches' /\ ListedAre'
  BY <1>0, <1>7 DEF AddService, pipeVars, TypeOK, EachWatches, ListedAre
<1>8. ASSUME NEW v \in Services, WatchPipe(v)
      PROVE  EachWatches' /\ ListedAre'
  BY <1>0, <1>8 DEF WatchPipe, pipeVars, TypeOK, EachWatches, ListedAre
<1>9. ASSUME NEW v \in Services, UnwatchPipe(v)
      PROVE  EachWatches' /\ ListedAre'
  BY <1>0, <1>9 DEF UnwatchPipe, pipeVars, TypeOK, EachWatches, ListedAre
<1>10. ASSUME NEW v \in Services, RemoveService(v)
       PROVE  EachWatches' /\ ListedAre'
  BY <1>0, <1>10 DEF RemoveService, TypeOK, EachWatches, ListedAre
<1>11. CASE UNCHANGED signalVars
  BY <1>11 DEF signalVars, pipeVars, serviceVars, EachWatches, ListedAre
<1> QED
  BY <1>1, <1>2, <1>3, <1>4, <1>5, <1>6, <1>7, <1>8, <1>9, <1>10, <1>11 DEF Next, System

\* What is in the pipe will be read, whichever service took an event before and
\* whichever has come or gone since (add_service, remove_service, pipe_read_op).
THEOREM PipeTheorem == Spec => []PipeIsWatched
<1>1. Init => EachWatches /\ ListedAre
  BY DEF Init, EachWatches, ListedAre
<1>2. ASSUME IInv, EachWatches, ListedAre
      PROVE  PipeIsWatched
  <2>1. service_list_ \subseteq Services
    BY <1>2 DEF IInv, TypeOK
  <2> SUFFICES ASSUME pipe # << >>, NEW v \in service_list_, stage[v] # "removing"
               PROVE  \E u \in Services : edge[u] \/ reader[u] # "idle" \/ stage[u] = "adding"
    BY DEF PipeIsWatched
  <2>2. stage[v] = "adding" \/ edge[v] \/ reader[v] # "idle"
    BY <1>2, <2>1 DEF EachWatches, ListedAre
  <2> QED
    BY <2>1, <2>2
<1> QED
  BY <1>1, <1>2, Invariance, WatchStep, PTL DEF Spec

-----------------------------------------------------------------------------
(* How often a number is somewhere.                                        *)

Completed(q, k, e) == q \o [i \in 1..k |-> e]
With(f, v, e) == [f EXCEPT ![v] = e]
OneIf(condition) == IF condition THEN 1 ELSE 0

\* The places of a number in a sequence are some of its indices.
LEMMA PlacesFinite ==
  ASSUME NEW S, NEW q \in Seq(S), NEW n
  PROVE  /\ Places(q, n) \subseteq 1..Len(q)
         /\ IsFiniteSet(Places(q, n)) /\ Cardinality(Places(q, n)) \in Nat
<1>1. Len(q) \in Nat /\ DOMAIN q = 1..Len(q)
  OBVIOUS
<1>2. Places(q, n) \subseteq 1..Len(q)
  BY <1>1 DEF Places
<1>3. IsFiniteSet(1..Len(q))
  BY <1>1, FS_Interval
<1>4. IsFiniteSet(Places(q, n))
  BY <1>2, <1>3, FS_Subset
<1> QED
  BY <1>2, <1>4, FS_CardinalityType

\* One more at the end of the sequence.
LEMMA AppendPlaces ==
  ASSUME NEW S, NEW q \in Seq(S), NEW e \in S, NEW n
  PROVE  Cardinality(Places(Append(q, e), n)) =
           Cardinality(Places(q, n)) + (IF e = n THEN 1 ELSE 0)
<1> DEFINE k == Len(q) + 1
<1>1. /\ Len(q) \in Nat /\ DOMAIN q = 1..Len(q)
      /\ DOMAIN Append(q, e) = 1..k
      /\ Append(q, e)[k] = e
      /\ \A i \in 1..Len(q) : Append(q, e)[i] = q[i]
  OBVIOUS
<1>2. k \notin Places(q, n)
  BY <1>1 DEF Places
<1>3. 1..k = 1..Len(q) \cup {k}
  BY <1>1
<1>4. Places(Append(q, e), n) = IF e = n THEN Places(q, n) \cup {k} ELSE Places(q, n)
  <2> HIDE DEF k
  <2> QED
    BY <1>1, <1>2, <1>3 DEF Places
<1>5. IsFiniteSet(Places(q, n)) /\ Cardinality(Places(q, n)) \in Nat
  BY PlacesFinite
<1>6. Cardinality(Places(q, n) \cup {k}) = Cardinality(Places(q, n)) + 1
  <2> HIDE DEF k
  <2> QED
    BY <1>2, <1>5, FS_AddElement
<1> QED
  BY <1>4, <1>5, <1>6

\* One less at its head.
LEMMA TailPlaces ==
  ASSUME NEW S, NEW q \in Seq(S), q # << >>, NEW n
  PROVE  Cardinality(Places(Tail(q), n)) =
           Cardinality(Places(q, n)) - (IF Head(q) = n THEN 1 ELSE 0)
<1> DEFINE T == Places(Tail(q), n)
           R == Places(q, n) \ {1}
           f == [i \in T |-> i + 1]
<1>1. /\ Len(q) \in Nat /\ Len(q) >= 1 /\ DOMAIN q = 1..Len(q)
      /\ Tail(q) \in Seq(S) /\ DOMAIN Tail(q) = 1..(Len(q) - 1)
      /\ \A i \in 1..(Len(q) - 1) : Tail(q)[i] = q[i + 1]
      /\ Head(q) = q[1]
  OBVIOUS
<1>2. \A i \in T : i \in Nat /\ i + 1 \in R
  BY <1>1 DEF Places
<1>3. \A j \in R : j - 1 \in T /\ (j - 1) + 1 = j
  BY <1>1 DEF Places
<1>4. f \in Bijection(T, R)
  <2>1. f \in [T -> R]
    BY <1>2
  <2>2. \A i, j \in T : f[i] = f[j] => i = j
    BY <1>2
  <2>3. \A j \in R : \E i \in T : f[i] = j
    BY <1>3
  <2> QED
    BY <2>1, <2>2, <2>3 DEF Bijection, Injection, Surjection, IsInjective
<1>5. ExistsBijection(T, R)
  BY <1>4 DEF ExistsBijection
<1>6. IsFiniteSet(T)
  BY <1>1, PlacesFinite
<1>7. Cardinality(T) = Cardinality(R)
  <2> HIDE DEF T, R
  <2> QED
    BY <1>5, <1>6, FS_Bijection
<1>8. 1 \in Places(q, n) <=> Head(q) = n
  BY <1>1 DEF Places
<1>9. IsFiniteSet(Places(q, n)) /\ Cardinality(Places(q, n)) \in Nat
  BY PlacesFinite
<1>10. Cardinality(R) =
         IF 1 \in Places(q, n) THEN Cardinality(Places(q, n)) - 1 ELSE Cardinality(Places(q, n))
  BY <1>9, FS_RemoveElement
<1> QED
  BY <1>7, <1>8, <1>9, <1>10

\* Several more at the end of the sequence.
LEMMA CompletionPlaces ==
  ASSUME NEW S, NEW q \in Seq(S), NEW e \in S, NEW k \in Nat, NEW n
  PROVE  /\ Cardinality(Places(q, n)) \in Nat
         /\ e = n => Cardinality(Places(Completed(q, k, e), n)) = Cardinality(Places(q, n)) + k
         /\ e # n => Cardinality(Places(Completed(q, k, e), n)) = Cardinality(Places(q, n))
<1> DEFINE r == [i \in 1..k |-> e]
           l == Len(q)
           C == (l + 1)..(l + k)
<1>1. /\ l \in Nat /\ DOMAIN q = 1..l
      /\ r \in Seq(S) /\ Len(r) = k
  OBVIOUS
<1>2. /\ DOMAIN (q \o r) = 1..(l + k)
      /\ \A i \in 1..l : (q \o r)[i] = q[i]
      /\ \A i \in C : (q \o r)[i] = e
  BY <1>1
<1>3. 1..(l + k) = 1..l \cup C /\ 1..l \cap C = {}
  BY <1>1
<1>4. Places(Completed(q, k, e), n) = IF e = n THEN Places(q, n) \cup C ELSE Places(q, n)
  <2>1. Completed(q, k, e) = q \o r
    BY DEF Completed
  <2> HIDE DEF r, l, C
  <2> QED
    BY <1>1, <1>2, <1>3, <2>1 DEF Places
<1>5. IsFiniteSet(C) /\ Cardinality(C) = k
  <2>1. l + 1 \in Int /\ l + k \in Int /\ (l + k) - (l + 1) + 1 = k /\ (l + 1 > l + k <=> k = 0)
    BY <1>1
  <2>2. /\ IsFiniteSet(C)
        /\ Cardinality(C) = IF l + 1 > l + k THEN 0 ELSE (l + k) - (l + 1) + 1
    <3> HIDE DEF l
    <3> QED
      BY <2>1, FS_Interval
  <2> QED
    BY <2>1, <2>2
<1>6. Places(q, n) \cap C = {}
  BY <1>1, <1>3, PlacesFinite
<1>7. IsFiniteSet(Places(q, n)) /\ Cardinality(Places(q, n)) \in Nat
  BY PlacesFinite
<1>8. Cardinality(Places(q, n) \cup C) = Cardinality(Places(q, n)) + k
  <2> HIDE DEF C
  <2>1. Cardinality(Places(q, n) \cup C) =
          Cardinality(Places(q, n)) + Cardinality(C) - Cardinality(Places(q, n) \cap C)
    BY <1>5, <1>7, FS_Union
  <2>2. Cardinality(Places(q, n) \cap C) = 0
    BY <1>6, FS_EmptySet
  <2> QED
    BY <1>5, <1>7, <2>1, <2>2
<1> QED
  BY <1>4, <1>7, <1>8

\* What one reader has.
LEMMA NumberPlaces ==
  ASSUME NEW f \in [Services -> Nat], NEW v \in Services, NEW e \in Nat, NEW n
  PROVE  /\ Cardinality(Places(f, n)) \in Nat
         /\ Cardinality(Places(With(f, v, e), n)) =
              Cardinality(Places(f, n)) + OneIf(e = n) - OneIf(f[v] = n)
<1> DEFINE g == With(f, v, e)
           R == Places(f, n) \ {v}
<1>1. IsFiniteSet(Places(f, n)) /\ Cardinality(Places(f, n)) \in Nat
  BY SignalSetAssumption, FS_Subset, FS_CardinalityType DEF Places
<1>2. Places(g, n) = IF e = n THEN R \cup {v} ELSE R
  BY DEF Places, With
<1>3. v \in Places(f, n) <=> f[v] = n
  BY DEF Places
<1>4. /\ IsFiniteSet(R) /\ Cardinality(R) \in Nat
      /\ Cardinality(R) = Cardinality(Places(f, n)) - (IF f[v] = n THEN 1 ELSE 0)
  BY <1>1, <1>3, FS_RemoveElement, FS_CardinalityType
<1>5. Cardinality(R \cup {v}) = Cardinality(R) + 1
  <2>1. v \notin R
    OBVIOUS
  <2> HIDE DEF R
  <2> QED
    BY <1>4, <2>1, FS_AddElement
<1> QED
  BY <1>1, <1>2, <1>4, <1>5 DEF OneIf

-----------------------------------------------------------------------------
(* Notifications.                                                          *)

\* What a step does with a number, from the point of view of one set.
Kept(s, n) ==
  LET left == InFlight(n) - InFlight(n)'
      given == Got(s, n)' - Got(s, n)
      counted == undelivered_'[s][n] - undelivered_[s][n] IN
  IF left > 0 /\ ServiceOf[s] \in service_list_ \cap service_list_'
  THEN IF waiting[s] > 0 THEN given = waiting[s] /\ counted = 0
                         ELSE given = 0 /\ counted = left
  ELSE given + counted = 0

\* What is counted, in flight or given is a number.
LEMMA Numbers ==
  ASSUME TypeOK, NEW s \in Sets, NEW n \in Registered(s)
  PROVE  /\ n \in Signals /\ n \in Nat \ {0} /\ n # Aborted
         /\ undelivered_[s][n] \in Nat /\ waiting[s] \in Nat
         /\ Cardinality(Places(pipe, n)) \in Nat
         /\ Cardinality(Places(number, n)) \in Nat
         /\ InFlight(n) \in Nat
         /\ posted[s] \in Seq(Signals \cup {Aborted}) /\ Got(s, n) \in Nat
<1>1. /\ n \in Signals /\ n \in Nat \ {0} /\ n # Aborted
      /\ undelivered_[s][n] \in Nat /\ waiting[s] \in Nat
      /\ posted[s] \in Seq(Signals \cup {Aborted})
  BY SignalSetAssumption DEF TypeOK
<1>2. Cardinality(Places(pipe, n)) \in Nat
  BY PlacesFinite DEF TypeOK
<1>3. Cardinality(Places(number, n)) \in Nat
  BY SignalSetAssumption, FS_Subset, FS_CardinalityType DEF TypeOK, Places
<1>4. Got(s, n) \in Nat
  BY <1>1, PlacesFinite DEF Got
<1> QED
  BY <1>1, <1>2, <1>3, <1>4 DEF InFlight

\* Nothing is given or counted where the handlers and the count stay as they are
\* and nothing leaves the pipe and its readers.
LEMMA NothingKept ==
  ASSUME TypeOK, NEW s \in Sets, NEW n \in Registered(s),
         posted'[s] = posted[s], undelivered_'[s][n] = undelivered_[s][n],
         \/ UNCHANGED <<pipe, number>>
         \/ InFlight(n)' \in Nat /\ InFlight(n)' >= InFlight(n)
         \/ ServiceOf[s] \notin service_list_ \cap service_list_'
  PROVE  Kept(s, n)
<1>1. InFlight(n) \in Nat /\ Got(s, n) \in Nat /\ undelivered_[s][n] \in Nat
  BY Numbers
<1>2. Got(s, n)' = Got(s, n)
  BY DEF Got
<1>3. UNCHANGED <<pipe, number>> => InFlight(n)' = InFlight(n)
  BY DEF InFlight
<1>4. Got(s, n)' - Got(s, n) = 0 /\ undelivered_'[s][n] - undelivered_[s][n] = 0
  BY <1>1, <1>2
<1> QED
  BY <1>1, <1>3, <1>4 DEF Kept

\* A signal that occurs only adds to what is in flight.
LEMMA RaiseKept ==
  ASSUME TypeOK, NEW m \in Signals, Raise(m), NEW s \in Sets, NEW n \in Registered(s)
  PROVE  Kept(s, n)
<1>1. UNCHANGED <<number, posted, undelivered_>>
  BY DEF Raise, setVars
<1>2. CASE UNCHANGED pipe
  BY <1>1, <1>2, NothingKept
<1>3. CASE pipe' = Append(pipe, m)
  <2>1. Cardinality(Places(pipe', n)) =
          Cardinality(Places(pipe, n)) + (IF m = n THEN 1 ELSE 0)
    BY <1>3, AppendPlaces DEF TypeOK
  <2>2. InFlight(n)' = InFlight(n) + (IF m = n THEN 1 ELSE 0)
    BY <1>1, <2>1, Numbers DEF InFlight
  <2>3. InFlight(n)' \in Nat /\ InFlight(n)' >= InFlight(n)
    BY <2>2, Numbers
  <2> QED
    BY <1>1, <2>3, NothingKept
<1> QED
  BY <1>2, <1>3 DEF Raise

\* A number that is read goes from the pipe to the reader.
LEMMA ReadKept ==
  ASSUME TypeOK, NEW v \in Services, EpollEvent(v) \/ ReadPipe(v),
         NEW s \in Sets, NEW n \in Registered(s)
  PROVE  Kept(s, n)
<1>1. UNCHANGED <<posted, undelivered_>>
  BY DEF EpollEvent, ReadPipe, setVars
<1>2. CASE UNCHANGED <<pipe, number>>
  BY <1>1, <1>2, NothingKept
<1>3. CASE ReadPipe(v) /\ pipe # << >>
  <2>1. /\ number' = [number EXCEPT ![v] = Head(pipe)] /\ pipe' = Tail(pipe)
        /\ number[v] = 0
    BY <1>3 DEF ReadPipe
  <2>2. /\ pipe \in Seq(Signals) /\ Head(pipe) \in Nat
        /\ number \in [Services -> Nat]
    <3>1. Head(pipe) \in Signals
      BY <1>3, HeadTailProperties DEF TypeOK
    <3>2. Signals \cup {0} \subseteq Nat
      BY SignalSetAssumption, SMT
    <3>3. pipe \in Seq(Signals) /\ number \in [Services -> Signals \cup {0}]
      BY DEF TypeOK
    <3>4. number \in [Services -> Nat]
      BY <3>2, <3>3
    <3>5. Head(pipe) \in Nat
      BY <3>1, <3>2
    <3> QED
      BY <3>3, <3>4, <3>5, Zenon
  <2>3. n # 0
    BY Numbers
  <2>4. Cardinality(Places(pipe', n)) =
          Cardinality(Places(pipe, n)) - (IF Head(pipe) = n THEN 1 ELSE 0)
    BY <1>3, <2>1, <2>2, TailPlaces
  <2>5. Cardinality(Places(number', n)) =
          Cardinality(Places(number, n)) + OneIf(Head(pipe) = n) - OneIf(number[v] = n)
    <3>1. number' = With(number, v, Head(pipe))
      BY <2>1 DEF With
    <3> QED
      BY <2>2, <3>1, NumberPlaces
  <2>6. InFlight(n)' = InFlight(n)
    BY <2>1, <2>3, <2>4, <2>5, Numbers DEF InFlight, OneIf
  <2>7. InFlight(n)' \in Nat /\ InFlight(n)' >= InFlight(n)
    BY <2>6, Numbers
  <2> QED
    BY <1>1, <2>7, NothingKept
<1> QED
  BY <1>2, <1>3 DEF EpollEvent, ReadPipe, pipeVars

\* A number that is delivered goes to what waits, or is counted once.
LEMMA DeliverKept ==
  ASSUME TypeOK, NEW v \in Services, Deliver(v), NEW s \in Sets, NEW n \in Registered(s)
  PROVE  Kept(s, n)
<1> DEFINE m == number[v]
<1>1. UNCHANGED <<pipe, service_list_>> /\ number' = [number EXCEPT ![v] = 0]
  BY DEF Deliver, pipeVars
<1>2. /\ m \in Signals /\ m # 0 /\ number \in [Services -> Nat]
      /\ n # 0 /\ n \in Signals /\ undelivered_[s][n] \in Nat /\ waiting[s] \in Nat
      /\ posted[s] \in Seq(Signals \cup {Aborted}) /\ Got(s, n) \in Nat
      /\ InFlight(n) \in Nat /\ Cardinality(Places(pipe, n)) \in Nat
      /\ Cardinality(Places(number, n)) \in Nat
  <2>1. m \in Signals /\ m # 0 /\ number \in [Services -> Nat]
    BY SignalSetAssumption DEF TypeOK, Deliver
  <2> QED
    BY <2>1, Numbers
<1>3. InFlight(n)' = InFlight(n) - (IF m = n THEN 1 ELSE 0)
  <2>1. Cardinality(Places(number', n)) =
          Cardinality(Places(number, n)) + OneIf(0 = n) - OneIf(number[v] = n)
    <3>1. number' = With(number, v, 0)
      BY <1>1 DEF With
    <3> QED
      BY <1>2, <3>1, NumberPlaces
  <2>2. InFlight(n)' = Cardinality(Places(pipe, n)) + Cardinality(Places(number', n))
    BY <1>1 DEF InFlight
  <2>3. InFlight(n) = Cardinality(Places(pipe, n)) + Cardinality(Places(number, n))
    BY DEF InFlight
  <2> QED
    BY <1>2, <2>1, <2>2, <2>3 DEF OneIf
<1>4. InFlight(n) - InFlight(n)' = IF m = n THEN 1 ELSE 0
  BY <1>2, <1>3
<1>5. Got(s, n)' = Got(s, n) + (IF Hears(s, m) /\ m = n THEN waiting[s] ELSE 0)
  <2>1. CASE Hears(s, m)
    <3>1. posted'[s] = Completed(posted[s], waiting[s], m)
      BY <2>1 DEF Deliver, Completed
    <3>2. Cardinality(Places(posted'[s], n)) =
            Cardinality(Places(posted[s], n)) + (IF m = n THEN waiting[s] ELSE 0)
      <4>1. m \in Signals \cup {Aborted}
        BY <1>2
      <4>2. /\ Cardinality(Places(posted[s], n)) \in Nat
            /\ m = n => Cardinality(Places(Completed(posted[s], waiting[s], m), n)) =
                          Cardinality(Places(posted[s], n)) + waiting[s]
            /\ m # n => Cardinality(Places(Completed(posted[s], waiting[s], m), n)) =
                          Cardinality(Places(posted[s], n))
        <5> DEFINE S == Signals \cup {Aborted}
        <5>1. m \in S /\ posted[s] \in Seq(S) /\ waiting[s] \in Nat
          BY <1>2, <4>1
        <5> HIDE DEF m, S
        <5> QED
          BY <5>1, CompletionPlaces
      <4> QED
        BY <1>2, <3>1, <4>2
    <3> QED
      BY <2>1, <3>2 DEF Got
  <2>2. CASE ~ Hears(s, m)
    BY <1>2, <2>2 DEF Deliver, Got
  <2> QED
    BY <2>1, <2>2
<1>6. undelivered_'[s][n] =
        undelivered_[s][n] + (IF Hears(s, m) /\ waiting[s] = 0 /\ m = n THEN 1 ELSE 0)
  BY <1>2 DEF Deliver, TypeOK
<1>7. m = n => (Hears(s, m) <=> ServiceOf[s] \in service_list_)
  BY DEF Hears
<1> HIDE DEF m
<1>8. /\ Got(s, n)' - Got(s, n) = IF Hears(s, m) /\ m = n THEN waiting[s] ELSE 0
      /\ undelivered_'[s][n] - undelivered_[s][n] =
           IF Hears(s, m) /\ waiting[s] = 0 /\ m = n THEN 1 ELSE 0
  BY <1>2, <1>5, <1>6
<1> QED
  BY <1>1, <1>2, <1>4, <1>7, <1>8 DEF Kept

\* An operation that starts takes one signal that was counted, or waits.
LEMMA StartWaitKept ==
  ASSUME TypeOK, NEW t \in Sets, StartWait(t), NEW s \in Sets, NEW n \in Registered(s)
  PROVE  Kept(s, n)
<1>1. UNCHANGED <<pipe, number>>
  BY DEF StartWait, pipeVars, serviceVars
<1>2. CASE s # t \/ Queued(t) = {}
  BY <1>1, <1>2, NothingKept DEF StartWait, TypeOK
<1>3. CASE s = t /\ Queued(t) # {}
  <2> DEFINE m == CHOOSE m \in Queued(t) : \A k \in Queued(t) : m <= k
  <2>1. m \in Queued(t)
    <3>1. Queued(t) \subseteq Nat
      BY SignalSetAssumption DEF Queued, TypeOK
    <3> QED
      BY <1>3, <3>1, LowestSignal
  <2>2. /\ undelivered_' = [undelivered_ EXCEPT ![s][m] = @ - 1]
        /\ posted' = [posted EXCEPT ![s] = Append(@, m)]
    BY <1>3 DEF StartWait
  <2> HIDE DEF m
  <2>3. m \in Registered(s) /\ m \in Signals
    BY <1>3, <2>1 DEF Queued, TypeOK
  <2>4. undelivered_'[s][n] = undelivered_[s][n] - (IF m = n THEN 1 ELSE 0)
    <3>1. undelivered_'[s] = [undelivered_[s] EXCEPT ![m] = @ - 1]
      BY <2>2 DEF TypeOK
    <3>2. /\ n \in DOMAIN undelivered_[s] /\ undelivered_[s][n] \in Nat
          /\ undelivered_[s] \in [Registered(s) -> Nat]
      BY Numbers DEF TypeOK, Registered
    <3>3. CASE m = n
      BY <3>1, <3>2, <3>3, <2>3
    <3>4. CASE m # n
      <4>1. undelivered_'[s][n] = undelivered_[s][n]
        BY <3>1, <3>2, <3>4
      <4> QED
        BY <4>1, <3>2, <3>4
    <3> QED
      BY <3>3, <3>4
  <2>5. Got(s, n)' = Got(s, n) + (IF m = n THEN 1 ELSE 0)
    <3>1. posted'[s] = Append(posted[s], m)
      BY <2>2 DEF TypeOK
    <3>2. posted[s] \in Seq(Signals \cup {Aborted})
      BY Numbers
    <3>3. Cardinality(Places(posted'[s], n)) =
            Cardinality(Places(posted[s], n)) + (IF m = n THEN 1 ELSE 0)
      BY <2>3, <3>1, <3>2, AppendPlaces
    <3> QED
      BY <3>3 DEF Got
  <2>6. InFlight(n)' = InFlight(n) /\ InFlight(n) \in Nat
    BY <1>1, Numbers DEF InFlight
  <2>7. Got(s, n) \in Nat /\ undelivered_[s][n] \in Nat
    BY Numbers
  <2> QED
    BY <2>4, <2>5, <2>6, <2>7 DEF Kept
<1> QED
  BY <1>2, <1>3

\* The other calls of a set leave what is counted for the signals it keeps.
LEMMA CallKept ==
  ASSUME TypeOK, NEW t \in Sets,
         (\E m \in Signals : Add(t, m) \/ Remove(t, m)) \/ Clear(t) \/ Cancel(t),
         NEW s \in Sets, NEW n \in Registered(s), n \in Registered(s)'
  PROVE  Kept(s, n)
<1>1. ASSUME NEW m \in Signals, Add(t, m)
      PROVE  Kept(s, n)
  <2>1. UNCHANGED <<pipe, number, posted>>
    BY <1>1 DEF Add, pipeVars, serviceVars
  <2>2. undelivered_'[s][n] = undelivered_[s][n]
    BY <1>1 DEF Add, TypeOK, Registered
  <2> QED
    BY <2>1, <2>2, NothingKept
<1>2. ASSUME NEW m \in Signals, Remove(t, m)
      PROVE  Kept(s, n)
  <2>1. UNCHANGED <<pipe, number, posted>>
    BY <1>2 DEF Remove, pipeVars, serviceVars
  <2>2. undelivered_'[s][n] = undelivered_[s][n]
    BY <1>2 DEF Remove, Restrict, TypeOK, Registered
  <2> QED
    BY <2>1, <2>2, NothingKept
<1>3. CASE Clear(t)
  BY <1>3, NothingKept DEF Clear, pipeVars, serviceVars, TypeOK, Registered
<1>4. CASE Cancel(t)
  <2>1. UNCHANGED <<pipe, number, undelivered_>>
    BY <1>4 DEF Cancel, pipeVars, serviceVars
  <2>2. CASE s # t
    BY <1>4, <2>1, <2>2, NothingKept DEF Cancel, TypeOK
  <2>3. CASE s = t
    <3>1. posted'[s] = Completed(posted[s], waiting[s], Aborted)
      BY <1>4, <2>3 DEF Cancel, TypeOK, Completed
    <3>2. /\ posted[s] \in Seq(Signals \cup {Aborted}) /\ waiting[s] \in Nat /\ n # Aborted
          /\ Got(s, n) \in Nat /\ InFlight(n) \in Nat /\ undelivered_[s][n] \in Nat
      BY Numbers
    <3>3. Cardinality(Places(posted'[s], n)) =
            Cardinality(Places(posted[s], n))
      <4>1. Aborted \in Signals \cup {Aborted}
        OBVIOUS
      <4>2. Cardinality(Places(Completed(posted[s], waiting[s], Aborted), n)) =
              Cardinality(Places(posted[s], n))
        <5> DEFINE S == Signals \cup {Aborted}
        <5>1. Aborted \in S /\ posted[s] \in Seq(S) /\ waiting[s] \in Nat
          BY <3>2, <4>1
        <5> HIDE DEF S
        <5> QED
          BY <3>2, <5>1, CompletionPlaces
      <4> QED
        BY <3>1, <4>2
    <3>4. Got(s, n)' = Got(s, n)
      BY <3>2, <3>3 DEF Got
    <3>5. InFlight(n)' = InFlight(n)
      BY <2>1 DEF InFlight
    <3> QED
      BY <2>1, <3>2, <3>4, <3>5 DEF Kept
  <2> QED
    BY <2>2, <2>3
<1> QED
  BY <1>1, <1>2, <1>3, <1>4

\* What is in the pipe is lost only when the first service opens it or the last
\* one closes it, and then the set's own service is not in the list.
LEMMA ServiceKept ==
  ASSUME TypeOK, NEW v \in Services,
         AddService(v) \/ WatchPipe(v) \/ UnwatchPipe(v) \/ RemoveService(v),
         NEW s \in Sets, NEW n \in Registered(s)
  PROVE  Kept(s, n)
<1>1. UNCHANGED <<posted, undelivered_, number>>
  BY DEF AddService, WatchPipe, UnwatchPipe, RemoveService, setVars
<1>2. pipe' = pipe \/ service_list_ = {} \/ service_list_' = {}
  BY DEF AddService, WatchPipe, UnwatchPipe, RemoveService, pipeVars
<1> QED
  BY <1>1, <1>2, NothingKept

\* No notification is lost, given twice, or both given and counted, whichever
\* service reads the pipe (deliver_signal, start_wait_op).
THEOREM NotificationTheorem == Spec => NotificationsKept
<1>1. ASSUME TypeOK, [Next]_signalVars, NEW s \in Sets,
             NEW n \in Registered(s) \cap Registered(s)'
      PROVE  Kept(s, n)
  <2>1. CASE UNCHANGED signalVars
    BY <1>1, <2>1, NothingKept DEF signalVars, pipeVars, serviceVars, setVars
  <2>2. CASE Next
    BY <1>1, <2>2, RaiseKept, ReadKept, DeliverKept, StartWaitKept, CallKept, ServiceKept
       DEF Next, System
  <2> QED
    BY <1>1, <2>1, <2>2
<1>2. TypeOK /\ [Next]_signalVars =>
        [\A s \in Sets : \A n \in Registered(s) \cap Registered(s)' :
           LET left == InFlight(n) - InFlight(n)'
               given == Got(s, n)' - Got(s, n)
               counted == undelivered_'[s][n] - undelivered_[s][n] IN
           IF left > 0 /\ ServiceOf[s] \in service_list_ \cap service_list_'
           THEN IF waiting[s] > 0 THEN given = waiting[s] /\ counted = 0
                                  ELSE given = 0 /\ counted = left
           ELSE given + counted = 0]_signalVars
  BY <1>1 DEF Kept
<1> QED
  BY <1>2, TypeCorrect, PTL DEF Spec, NotificationsKept
=============================================================================
