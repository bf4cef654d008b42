--------------------------- MODULE ReactorProofs ---------------------------
(***************************************************************************)
(* Proofs about Reactor: no operation is forgotten by edge-triggered epoll, *)
(* operations take their data in order, the work is balanced, and a         *)
(* descriptor_state has its own operations only, for any number of sockets, *)
(* of descriptor_states, of threads and of operations.                      *)
(***************************************************************************)
EXTENDS Reactor, FiniteSetTheorems, SequenceTheorems, TLAPS

-----------------------------------------------------------------------------
(* The inductive invariant.  The types first, where a queue has numbers of  *)
(* operations and the count of work is an integer; the rest of TypeOK       *)
(* follows from Queues and from WorkBalanced.                               *)

Types ==
  /\ ops \in Seq(Op) /\ Len(ops) <= MaxOps
  /\ loc \in [Threads -> Place]
  /\ avail \in [Sockets -> [Kinds -> 0..MaxAvail]]
  /\ eof \in [Sockets -> BOOLEAN] /\ listed \in [Sockets -> BOOLEAN]
  /\ mask \in [Sockets -> SUBSET Kinds]
  /\ phase \in [Sockets -> {"new", "open", "closing", "closed"}]
  /\ data \in [Sockets -> States \cup {None}]
  /\ op_queue_ \in [States -> [Kinds -> Seq(Nat)]]
  /\ try_speculative_ \in [States -> [Kinds -> BOOLEAN]]
  /\ registered_events_ \in [States -> SUBSET Kinds]
  /\ task_result_ \in [States -> SUBSET Kinds]
  /\ mutex_ \in [States -> Threads \cup {None}]
  /\ events \subseteq States \X SUBSET Kinds
  /\ scheduled \subseteq States
  /\ work \in Int
  /\ ended \subseteq Sockets

\* A socket has a descriptor_state of its own while it is registered, and epoll
\* was asked for what the descriptor_state says.
Owned ==
  /\ \A s \in Sockets : data[s] # None <=> phase[s] \in {"open", "closing"}
  /\ \A s, r \in Sockets : data[s] = data[r] /\ data[s] # None => s = r
  /\ \A s \in Sockets : data[s] = None => mask[s] = {}
  /\ \A s \in Sockets : phase[s] = "open" =>
       mask[s] = registered_events_[data[s]] /\ Kinds \ {"write"} \subseteq mask[s]

\* The thread that performs operations, or that is within start_op, has the
\* mutex of the descriptor_state.
Holds(t) ==
  /\ loc[t].at = "perform" => mutex_[loc[t].state] = t
  /\ loc[t].at = "start" =>
       /\ loc[t].op \in DOMAIN ops /\ ops[loc[t].op].stage = "started"
       /\ phase[ops[loc[t].op].socket] = "open"
       /\ mutex_[data[ops[loc[t].op].socket]] = t

Locked == \A t \in Threads : Holds(t)

Increasing(q) == \A i, j \in DOMAIN q : i < j => q[i] < q[j]

\* What is queued is in the queue of its socket and of its kind, and the other
\* way round; each queue is in the order of the starts.
Queues ==
  /\ \A d \in States, k \in Kinds :
       /\ Increasing(op_queue_[d][k])
       /\ \A i \in Range(op_queue_[d][k]) :
            /\ i \in DOMAIN ops /\ ops[i].stage = "queued" /\ ops[i].kind = k
            /\ data[ops[i].socket] = d /\ phase[ops[i].socket] = "open"
  /\ \A i \in DOMAIN ops : ops[i].stage = "queued" =>
       /\ phase[ops[i].socket] = "open"
       /\ i \in Range(op_queue_[data[ops[i].socket]][ops[i].kind])

\* What is started and not queued yet has a thread, and goes behind what is
\* queued.
Started ==
  /\ \A i \in DOMAIN ops : ops[i].stage = "started" =>
       \E t \in Threads : loc[t].at = "start" /\ loc[t].op = i
  /\ \A t \in Threads : loc[t].at = "start" =>
       \A j \in Range(op_queue_[data[ops[loc[t].op].socket]][ops[loc[t].op].kind]) :
         j < loc[t].op

\* What one thread has popped no other thread has.
Popped ==
  /\ \A t \in Threads :
       /\ loc[t].at = "lock" => loc[t].done = << >>
       /\ loc[t].at = "perform" => \A i \in Range(loc[t].done) :
            i \in DOMAIN ops /\ ops[i].stage = "popped"
  /\ \A t, u \in Threads :
       loc[t].at = "perform" /\ loc[u].at = "perform" /\ t # u =>
         Range(loc[t].done) \cap Range(loc[u].done) = {}

\* The rank of an operation counts those that took data before it.
Ranks ==
  /\ \A s \in Sockets, k \in Kinds, i \in DOMAIN ops :
       ops[i].socket = s /\ ops[i].kind = k => ops[i].rank <= Rank(s, k)
  /\ \A i \in DOMAIN ops :
       /\ ops[i].stage \in {"started", "queued"} => ops[i].rank = 0
       /\ ops[i].stage = "popped" => ops[i].rank # 0

\* What epoll_wait returned is with one thread, and nothing else is in the
\* scheduler's queue then.
Dispatching ==
  /\ events # {} => \E t \in Threads : loc[t].at = "dispatch"
  /\ \A t, u \in Threads : loc[t].at = "dispatch" /\ loc[u].at = "dispatch" => t = u
  /\ \A t \in Threads : loc[t].at = "dispatch" => scheduled = {}

\* A thread that tried, or could have tried, its operation is on its way to
\* queue it.
StartsDirect(s, k) ==
  \E t \in Threads : /\ loc[t].at = "start" /\ loc[t].direct
                     /\ ops[loc[t].op].socket = s /\ ops[loc[t].op].kind = k

\* start_op will try the next operation of this kind.
WillTry(s, k) ==
  /\ try_speculative_[data[s]][k] /\ op_queue_[data[s]][k] = << >>
  /\ ~StartsDirect(s, k)

\* Somebody acts on what the socket has, or the next operation is tried when it
\* is started, unless the end of the stream was reported.
Minded(s, k) ==
  Watched(s, k) \/ (k = "read" /\ s \in ended) \/ WillTry(s, k)

\* No edge is lost.
EdgeKept(s, k) ==
  phase[s] = "open" /\ k \in mask[s] /\ k \in Ready(s) => Minded(s, k)

\* An operation waits only for what epoll was asked for.
AskedFor(s, k) ==
  phase[s] = "open" /\ op_queue_[data[s]][k] # << >> => k \in mask[s]

EdgesKept == \A s \in Sockets, k \in Kinds : EdgeKept(s, k) /\ AskedFor(s, k)

-----------------------------------------------------------------------------
(* The actions with two outcomes, one outcome at a time.                    *)

NewOp(s, k, size) ==
  [socket |-> s, kind |-> k, size |-> size, stage |-> "started", rank |-> 0]

\* start_op completes the operation at once.
StartsNow(t, s, k, size) ==
  /\ loc[t] = Idle /\ phase[s] = "open" /\ mutex_[data[s]] = None
  /\ Len(ops) < MaxOps
  /\ op_queue_[data[s]][k] = << >> /\ try_speculative_[data[s]][k]
  /\ Status(NewOp(s, k, size)) # "not_done"
  /\ ops' = Append(ops, Completed(NewOp(s, k, size), "posted"))
  /\ Take(NewOp(s, k, size)) /\ End(NewOp(s, k, size))
  /\ try_speculative_' = [try_speculative_ EXCEPT ![data[s]][k] =
                            Status(NewOp(s, k, size)) # "done_and_exhausted"]
  /\ work' = work + 1
  /\ UNCHANGED <<eof, mask, listed, socketVars, op_queue_, registered_events_,
                 mutex_, events, scheduled, task_result_, loc>>

\* It goes on with the mutex held.
StartsLater(t, s, k, size, direct) ==
  /\ loc[t] = Idle /\ phase[s] = "open" /\ mutex_[data[s]] = None
  /\ Len(ops) < MaxOps
  /\ direct /\ op_queue_[data[s]][k] = << >> /\ try_speculative_[data[s]][k]
       => Status(NewOp(s, k, size)) = "not_done"
  /\ ops' = Append(ops, NewOp(s, k, size))
  /\ mutex_' = [mutex_ EXCEPT ![data[s]] = t]
  /\ loc' = [loc EXCEPT ![t] = [at |-> "start", op |-> Len(ops) + 1, direct |-> direct]]
  /\ UNCHANGED <<avail, ended, try_speculative_, work, eof, mask, listed, socketVars,
                 op_queue_, registered_events_, events, scheduled, task_result_>>

\* perform_io has no operation of the kind k, or one that must wait.
Misses(t, k) ==
  /\ loc[t].at = "perform" /\ k \in loc[t].kinds
  /\ \/ op_queue_[loc[t].state][k] = << >>
     \/ Status(ops[Head(op_queue_[loc[t].state][k])]) = "not_done"
  /\ try_speculative_' = [try_speculative_ EXCEPT ![loc[t].state][k] = TRUE]
  /\ loc' = [loc EXCEPT ![t].kinds = @ \ {k}]
  /\ UNCHANGED <<avail, ended, op_queue_, ops, eof, mask, listed, socketVars,
                 registered_events_, mutex_, queueVars>>

\* The place of the thread that took the operation i of the kind k.
Performed(t, k, i) ==
  [at |-> "perform", state |-> loc[t].state, done |-> Append(loc[t].done, i),
   kinds |-> IF Status(ops[i]) = "done" THEN loc[t].kinds ELSE loc[t].kinds \ {k}]

\* perform_io takes the operation i, the first of the kind k, from its queue.
Takes(t, k, i) ==
  /\ loc[t].at = "perform" /\ k \in loc[t].kinds
  /\ op_queue_[loc[t].state][k] # << >> /\ i = Head(op_queue_[loc[t].state][k])
  /\ Status(ops[i]) # "not_done"
  /\ try_speculative_' = [try_speculative_ EXCEPT ![loc[t].state][k] =
                            Status(ops[i]) # "done_and_exhausted"]
  /\ Take(ops[i]) /\ End(ops[i])
  /\ op_queue_' = [op_queue_ EXCEPT ![loc[t].state][k] = Tail(@)]
  /\ ops' = [ops EXCEPT ![i] = Completed(ops[i], "popped")]
  /\ loc' = [loc EXCEPT ![t] = Performed(t, k, i)]
  /\ UNCHANGED <<eof, mask, listed, socketVars, registered_events_, mutex_, queueVars>>

\* What start_op asks epoll for.
Wanted(d, k) == registered_events_[d] \cup (IF k = "write" THEN {"write"} ELSE {})

\* It asks when nothing is queued before and epoll may not have been asked.
Asks(t, s, k) ==
  /\ op_queue_[data[s]][k] = << >>
  /\ ~loc[t].direct \/ Wanted(data[s], k) # registered_events_[data[s]]

\* start_op queues the operation i of socket s and kind k.
Enqueues(t, i, s, k) ==
  /\ loc[t].at = "start" /\ i = loc[t].op /\ s = ops[i].socket /\ k = ops[i].kind
  /\ IF Asks(t, s, k)
     THEN /\ mask' = [mask EXCEPT ![s] = Wanted(data[s], k)]
          /\ listed' = [listed EXCEPT ![s] = @ \/ Ready(s) \cap Wanted(data[s], k) # {}]
          /\ registered_events_' = [registered_events_ EXCEPT ![data[s]] =
                                      Wanted(data[s], k)]
     ELSE UNCHANGED <<mask, listed, registered_events_>>
  /\ op_queue_' = [op_queue_ EXCEPT ![data[s]][k] = Append(@, i)]
  /\ ops' = [ops EXCEPT ![i].stage = "queued"]
  /\ work' = work + 1
  /\ mutex_' = [mutex_ EXCEPT ![data[s]] = None]
  /\ loc' = [loc EXCEPT ![t] = Idle]
  /\ UNCHANGED <<avail, eof, socketVars, try_speculative_, events, scheduled,
                 task_result_, ended>>

\* Every step is one of these.
Step ==
  \/ \E s \in Sockets :
       \/ PeerEnds(s) \/ CancelOps(s) \/ DeregisterDescriptor(s) \/ CleanupDescriptorData(s)
       \/ \E k \in Kinds : Arrive(s, k)
       \/ \E d \in States : Register(s, d)
       \/ \E t \in Threads, k \in Kinds, size \in 1..2 :
            \/ StartsNow(t, s, k, size)
            \/ \E direct \in BOOLEAN : StartsLater(t, s, k, size, direct)
  \/ \E t \in Threads :
       \/ EpollWait(t) \/ Dispatch(t) \/ Lock(t) \/ Leave(t)
       \/ \E d \in States : Dequeue(t, d)
       \/ \E k \in Kinds : Misses(t, k)
       \/ \E k \in Kinds, i \in DOMAIN ops : Takes(t, k, i)
       \/ \E i \in DOMAIN ops, s \in Sockets, k \in Kinds : Enqueues(t, i, s, k)
  \/ \E i \in DOMAIN ops : RunPosted(i)

-----------------------------------------------------------------------------
(* What a queue has.                                                        *)

\* The numbers in a queue are natural numbers.
LEMMA RangeIn ==
  ASSUME NEW S, NEW q \in Seq(S)
  PROVE  Range(q) \subseteq S /\ (q = << >> <=> Range(q) = {})
<1>1. Len(q) \in Nat /\ DOMAIN q = 1..Len(q) /\ \A i \in 1..Len(q) : q[i] \in S
  BY LenProperties, ElementOfSeq
<1>2. q = << >> <=> Len(q) = 0
  BY EmptySeq
<1>3. q # << >> => 1 \in DOMAIN q
  BY <1>1, <1>2
<1>4. q = << >> => DOMAIN q = {}
  BY <1>1, <1>2
<1>5. Range(q) \subseteq S
  BY <1>1 DEF Range
<1>6. q = << >> => Range(q) = {}
  BY <1>4 DEF Range
<1>7. q # << >> => q[1] \in Range(q)
  BY <1>3 DEF Range
<1> QED
  BY <1>5, <1>6, <1>7

\* A queue without its head.
LEMMA HeadAndTail ==
  ASSUME NEW q \in Seq(Nat), q # << >>, Increasing(q)
  PROVE  /\ Head(q) \in Nat /\ Head(q) \in Range(q) /\ Tail(q) \in Seq(Nat)
         /\ Range(Tail(q)) = Range(q) \ {Head(q)} /\ Increasing(Tail(q))
         /\ \A i \in Range(q) : Head(q) <= i
<1>0. \A i \in 1..Len(q) : q[i] \in Nat
  BY ElementOfSeq
<1>1. /\ Len(q) \in Nat \ {0} /\ DOMAIN q = 1..Len(q) /\ DOMAIN Tail(q) = 1..(Len(q) - 1)
      /\ \A i \in 1..(Len(q) - 1) : Tail(q)[i] = q[i + 1]
      /\ \A i \in 1..Len(q) : q[i] \in Nat
      /\ Head(q) = q[1] /\ Tail(q) \in Seq(Nat)
  BY <1>0, HeadTailProperties, EmptySeq, LenProperties
<1>2. \A i \in 2..Len(q) : i \in DOMAIN q /\ q[1] < q[i]
  BY <1>1 DEF Increasing
<1>3. ASSUME NEW x \in Range(q), x # q[1]
      PROVE  x \in Range(Tail(q))
  <2>1. PICK i \in 1..Len(q) : q[i] = x
    BY <1>1 DEF Range
  <2>2. i # 1 /\ i - 1 \in 1..(Len(q) - 1) /\ (i - 1) + 1 = i
    BY <1>1, <1>3, <2>1
  <2> QED
    BY <1>1, <2>1, <2>2 DEF Range
<1>4. ASSUME NEW x \in Range(Tail(q))
      PROVE  x \in Range(q) /\ x # q[1]
  <2>1. PICK i \in 1..(Len(q) - 1) : Tail(q)[i] = x
    BY <1>1 DEF Range
  <2>2. i + 1 \in 2..Len(q) /\ q[i + 1] = x
    BY <1>1, <2>1
  <2> QED
    BY <1>1, <1>2, <2>2 DEF Range
<1>5. Increasing(Tail(q))
  <2> SUFFICES ASSUME NEW i \in 1..(Len(q) - 1), NEW j \in 1..(Len(q) - 1), i < j
               PROVE  Tail(q)[i] < Tail(q)[j]
    BY <1>1 DEF Increasing
  <2>1. i + 1 \in 1..Len(q) /\ j + 1 \in 1..Len(q) /\ i + 1 < j + 1
    BY <1>1
  <2> QED
    BY <1>1, <2>1 DEF Increasing
<1>6. \A x \in Range(q) : q[1] <= x
  <2> TAKE x \in Range(q)
  <2>1. PICK i \in 1..Len(q) : q[i] = x
    BY <1>1 DEF Range
  <2> QED
    BY <1>1, <1>2, <2>1
<1>7. q[1] \in Range(q)
  BY <1>1 DEF Range
<1> QED
  BY <1>1, <1>3, <1>4, <1>5, <1>6, <1>7

\* A queue with one more at its end.
LEMMA AppendTo ==
  ASSUME NEW q \in Seq(Nat), NEW n \in Nat
  PROVE  /\ Append(q, n) \in Seq(Nat) /\ Append(q, n) # << >>
         /\ Range(Append(q, n)) = Range(q) \cup {n}
         /\ Increasing(q) /\ (\A i \in Range(q) : i < n) => Increasing(Append(q, n))
<1> DEFINE r == Append(q, n)
<1>1. /\ Len(q) \in Nat /\ DOMAIN q = 1..Len(q) /\ \A i \in 1..Len(q) : q[i] \in Nat
      /\ r \in Seq(Nat) /\ DOMAIN r = 1..(Len(q) + 1)
      /\ \A i \in 1..Len(q) : r[i] = q[i]
      /\ r[Len(q) + 1] = n /\ r # << >>
  BY AppendProperties, EmptySeq, LenProperties, ElementOfSeq
<1> HIDE DEF r
<1>2. \A i \in 1..(Len(q) + 1) : i \in 1..Len(q) \/ i = Len(q) + 1
  BY <1>1
<1>3. Range(r) = Range(q) \cup {n}
  <2>1. \A x \in Range(r) : x \in Range(q) \cup {n}
    BY <1>1, <1>2 DEF Range
  <2>2. \A i \in 1..Len(q) : i \in 1..(Len(q) + 1)
    BY <1>1
  <2>3. \A x \in Range(q) : x \in Range(r)
    BY <1>1, <2>2 DEF Range
  <2>4. n \in Range(r)
    BY <1>1 DEF Range
  <2> QED
    BY <2>1, <2>3, <2>4
<1>4. ASSUME Increasing(q), \A i \in Range(q) : i < n
      PROVE  Increasing(r)
  <2> SUFFICES ASSUME NEW i \in 1..(Len(q) + 1), NEW j \in 1..(Len(q) + 1), i < j
               PROVE  r[i] < r[j]
    BY <1>1 DEF Increasing
  <2>1. i \in 1..Len(q)
    BY <1>1
  <2>5. r[i] = q[i] /\ q[i] \in Range(q)
    BY <1>1, <2>1 DEF Range
  <2>2. CASE j = Len(q) + 1
    BY <1>1, <1>4, <2>5, <2>2
  <2>3. CASE j \in 1..Len(q)
    BY <1>1, <1>4, <2>1, <2>5, <2>3 DEF Increasing
  <2> QED
    BY <1>2, <2>2, <2>3
<1> QED
  BY <1>1, <1>3, <1>4, Zenon DEF r

-----------------------------------------------------------------------------
(* What the types say, piece by piece.                                      *)

\* An operation has its parts.
LEMMA OpParts ==
  ASSUME Types
  PROVE  /\ Len(ops) \in Nat /\ DOMAIN ops = 1..Len(ops)
         /\ \A i \in DOMAIN ops :
              /\ ops[i] \in Op /\ ops[i].socket \in Sockets /\ ops[i].kind \in Kinds
              /\ ops[i].size \in 1..2 /\ ops[i].rank \in Nat
              /\ ops[i].stage \in {"started", "queued", "popped", "posted", "done"}
<1>1. ops \in Seq(Op)
  BY DEF Types
<1>2. Len(ops) \in Nat /\ DOMAIN ops = 1..Len(ops) /\ \A i \in 1..Len(ops) : ops[i] \in Op
  BY <1>1, LenProperties, ElementOfSeq
<1> QED
  BY <1>2 DEF Op

\* A thread has the registers of the place where it is.
LEMMA PlaceParts ==
  ASSUME Types, NEW t \in Threads
  PROVE  /\ loc[t].at \in {"idle", "dispatch", "start", "lock", "perform"}
         /\ loc[t].at = "idle" => loc[t] = Idle
         /\ loc[t].at = "start" =>
              /\ loc[t] = [at |-> "start", op |-> loc[t].op, direct |-> loc[t].direct]
              /\ loc[t].op \in Nat /\ loc[t].direct \in BOOLEAN
         /\ loc[t].at \in {"lock", "perform"} =>
              /\ loc[t] = [at |-> loc[t].at, state |-> loc[t].state,
                           kinds |-> loc[t].kinds, done |-> loc[t].done]
              /\ loc[t].state \in States /\ loc[t].kinds \subseteq Kinds
              /\ loc[t].done \in Seq(Nat)
<1>1. loc[t] \in Place
  BY DEF Types
<1>2. CASE loc[t] = Idle
  BY <1>2 DEF Idle
<1>3. CASE loc[t] \in [at : {"dispatch"}]
  BY <1>3
<1>4. CASE loc[t] \in [at : {"start"}, op : Nat, direct : BOOLEAN]
  BY <1>4
<1>5. CASE loc[t] \in [at : {"lock", "perform"}, state : States, kinds : SUBSET Kinds,
                       done : Seq(Nat)]
  BY <1>5
<1> QED
  BY <1>1, <1>2, <1>3, <1>4, <1>5 DEF Place

\* perform_io changes two registers of its thread at once.
LEMMA PerformedPlace ==
  ASSUME Types, NEW t \in Threads, Perform(t), NEW k, NEW i,
         k = First(loc[t].kinds), op_queue_[loc[t].state][k] # << >>,
         i = Head(op_queue_[loc[t].state][k]), Status(ops[i]) # "not_done"
  PROVE  loc' = [loc EXCEPT ![t] = Performed(t, k, i)]
<1> DEFINE kinds == IF Status(ops[i]) = "done" THEN loc[t].kinds ELSE loc[t].kinds \ {k}
           taken == Append(loc[t].done, i)
           state == loc[t].state
           before == loc[t].kinds
           done == loc[t].done
           place == loc[t]
<1>1. place = [at |-> "perform", state |-> state, kinds |-> before, done |-> done]
  BY PlaceParts, Zenon DEF Perform
<1>2. loc' = [loc EXCEPT ![t] = [place EXCEPT !.kinds = kinds, !.done = taken]]
  BY Zenon DEF Perform
<1>3. QED
  <2> HIDE DEF kinds, taken, state, before, done, place
  <2>1. [place EXCEPT !.kinds = kinds, !.done = taken]
          = [at |-> "perform", state |-> state, kinds |-> kinds, done |-> taken]
    <3> DEFINE n == [place EXCEPT !.kinds = kinds, !.done = taken]
    <3>1. DOMAIN n = {"at", "state", "kinds", "done"}
      BY <1>1
    <3>2. n = [x \in {"at", "state", "kinds", "done"} |-> n[x]]
      BY <3>1
    <3>3. n.at = "perform" /\ n.state = state /\ n.kinds = kinds /\ n.done = taken
      BY <1>1
    <3> HIDE DEF n
    <3>4. n = [at |-> "perform", state |-> state, kinds |-> kinds, done |-> taken]
      BY <3>2, <3>3
    <3> QED
      BY <3>4 DEF n
  <2>2. loc' = [loc EXCEPT ![t] = [at |-> "perform", state |-> state, kinds |-> kinds,
                                   done |-> taken]]
    BY <1>2, <2>1
  <2>3. [at |-> "perform", state |-> state, kinds |-> kinds, done |-> taken]
          = Performed(t, k, i)
    BY DEF kinds, taken, state, Performed
  <2> QED
    BY <2>2, <2>3

\* A socket that is open has a descriptor_state.
LEMMA OpenHasState ==
  ASSUME Types, Owned, NEW s \in Sockets, phase[s] = "open"
  PROVE  data[s] \in States
  BY DEF Types, Owned

\* The first kind is one of the kinds.
LEMMA FirstIsOne ==
  ASSUME NEW kinds \in SUBSET Kinds, kinds # {}
  PROVE  First(kinds) \in kinds
  BY ReactorAssumption DEF First

\* The head of a queue is an operation of the socket that has the queue.
LEMMA HeadIsQueued ==
  ASSUME Types, Queues, NEW d \in States, NEW k \in Kinds, op_queue_[d][k] # << >>
  PROVE  LET i == Head(op_queue_[d][k]) IN
         /\ i \in DOMAIN ops /\ ops[i].stage = "queued" /\ ops[i].kind = k
         /\ data[ops[i].socket] = d /\ phase[ops[i].socket] = "open"
         /\ i \in Range(op_queue_[d][k])
<1>1. op_queue_[d][k] \in Seq(Nat)
  BY DEF Types
<1>2. Increasing(op_queue_[d][k])
  BY DEF Queues
<1>3. Head(op_queue_[d][k]) \in Range(op_queue_[d][k])
  BY <1>1, <1>2, HeadAndTail
<1> QED
  BY <1>3 DEF Queues

\* Every action is one of the pieces, or several.
LEMMA Pieces ==
  ASSUME Types, Owned, Locked, Queues, Next
  PROVE  Step
<1>1. ASSUME NEW s \in Sockets, NEW t \in Threads, NEW k \in Kinds, NEW size \in 1..2,
             NEW speculative \in BOOLEAN, StartOp(t, s, k, size, speculative)
      PROVE  \/ StartsNow(t, s, k, size)
             \/ \E direct \in BOOLEAN : StartsLater(t, s, k, size, direct)
  <2>1. CASE Tries(data[s], k, speculative) /\ Status(NewOp(s, k, size)) # "not_done"
    <3>1. StartsNow(t, s, k, size)
      BY <1>1, <2>1 DEF StartOp, StartsNow, Tries, NewOp
    <3> QED
      BY <3>1
  <2>2. CASE ~(Tries(data[s], k, speculative) /\ Status(NewOp(s, k, size)) # "not_done")
    <3>1. Direct(data[s], k, speculative) \in BOOLEAN
      BY DEF Direct
    <3>2. StartsLater(t, s, k, size, Direct(data[s], k, speculative))
      BY <1>1, <2>2 DEF StartOp, StartsLater, Tries, NewOp
    <3> QED
      BY <3>1, <3>2
  <2> QED
    BY <2>1, <2>2
<1>2. ASSUME NEW t \in Threads, Perform(t)
      PROVE  \/ \E k \in Kinds : Misses(t, k)
             \/ \E k \in Kinds, i \in DOMAIN ops : Takes(t, k, i)
  <2> DEFINE d == loc[t].state
             k == First(loc[t].kinds)
             q == op_queue_[d][k]
  <2>1. d \in States /\ loc[t].kinds \subseteq Kinds
    BY <1>2, PlaceParts, ZenonT(40) DEF Perform
  <2>2. k \in loc[t].kinds /\ k \in Kinds
    BY <1>2, <2>1, FirstIsOne DEF Perform
  <2>3. CASE q = << >> \/ Status(ops[Head(q)]) = "not_done"
    <3>1. Misses(t, k)
      BY <1>2, <2>2, <2>3, Zenon DEF Perform, Misses
    <3> QED
      BY <2>2, <3>1
  <2>4. CASE ~(q = << >> \/ Status(ops[Head(q)]) = "not_done")
    <3>1. Head(q) \in DOMAIN ops
      BY <2>1, <2>2, <2>4, HeadIsQueued
    <3>3. loc' = [loc EXCEPT ![t] = Performed(t, k, Head(q))]
      BY <1>2, <2>4, PerformedPlace
    <3>2. Takes(t, k, Head(q))
      BY <1>2, <2>2, <2>4, <3>1, <3>3, Zenon DEF Perform, Takes
    <3> QED
      BY <2>2, <3>1, <3>2
  <2> QED
    BY <2>3, <2>4
<1>3. ASSUME NEW t \in Threads, Enqueue(t)
      PROVE  \E i \in DOMAIN ops, s \in Sockets, k \in Kinds : Enqueues(t, i, s, k)
  <2>1. loc[t].op \in DOMAIN ops
    BY <1>3, Zenon DEF Enqueue, Locked, Holds
  <2>2. ops[loc[t].op].socket \in Sockets /\ ops[loc[t].op].kind \in Kinds
    BY <2>1, OpParts
  <2>3. Enqueues(t, loc[t].op, ops[loc[t].op].socket, ops[loc[t].op].kind)
    BY <1>3, Zenon DEF Enqueue, Enqueues, EpollCtl, Push, Asks, Wanted
  <2> QED
    BY <2>1, <2>2, <2>3
<1> QED
  BY <1>1, <1>2, <1>3 DEF Next, System, Step

\* What perform() takes is no more than there is.
LEMMA TakeTakes ==
  ASSUME Types, NEW o, o.socket \in Sockets, o.kind \in Kinds, o.size \in 1..2, Take(o)
  PROVE  /\ avail' \in [Sockets -> [Kinds -> 0..MaxAvail]]
         /\ \A s \in Sockets, k \in Kinds :
              /\ avail'[s][k] <= avail[s][k]
              /\ s # o.socket \/ k # o.kind => avail'[s][k] = avail[s][k]
         /\ avail[o.socket][o.kind] <= o.size => avail'[o.socket][o.kind] = 0
<1> DEFINE n == avail[o.socket][o.kind]
           m == IF o.size < n THEN n - o.size ELSE 0
<1>4. avail \in [Sockets -> [Kinds -> 0..MaxAvail]]
  BY DEF Types
<1>1. n \in 0..MaxAvail /\ MaxAvail \in Nat
  BY <1>4, ReactorAssumption
<1>2. avail' = [avail EXCEPT ![o.socket][o.kind] = m]
  BY DEF Take
<1>3. m \in 0..MaxAvail /\ m <= n /\ (n <= o.size => m = 0)
  BY <1>1
<1>5. \A s \in Sockets, k \in Kinds : avail[s][k] \in Int
  BY <1>4, ReactorAssumption
<1> HIDE DEF m
<1>6. avail' \in [Sockets -> [Kinds -> 0..MaxAvail]]
  BY <1>2, <1>3, <1>4
<1>7. \A s \in Sockets, k \in Kinds :
        avail'[s][k] = IF s = o.socket /\ k = o.kind THEN m ELSE avail[s][k]
  BY <1>2, <1>4
<1>8. \A s \in Sockets, k \in Kinds : avail'[s][k] <= avail[s][k]
  BY <1>3, <1>5, <1>7
<1> QED
  BY <1>3, <1>6, <1>7, <1>8

\* An operation that completes is an operation still.
LEMMA CompletedIsOp ==
  ASSUME Types, NEW o \in Op, NEW stage \in {"popped", "posted"}
  PROVE  /\ Completed(o, stage) \in Op
         /\ Completed(o, stage).socket = o.socket /\ Completed(o, stage).kind = o.kind
         /\ Completed(o, stage).stage = stage /\ Completed(o, stage).size = o.size
         /\ Completed(o, stage).rank = 1 + Rank(o.socket, o.kind)
         /\ Rank(o.socket, o.kind) \in Nat
<1> DEFINE S == {i \in DOMAIN ops : /\ ops[i].socket = o.socket /\ ops[i].kind = o.kind
                                    /\ ops[i].rank # 0}
<1>1. IsFiniteSet(1..Len(ops))
  BY OpParts, FS_Interval
<1>2. S \subseteq 1..Len(ops)
  BY OpParts
<1>3. IsFiniteSet(S) /\ Cardinality(S) \in Nat
  BY <1>1, <1>2, FS_Subset, FS_CardinalityType
<1>4. Rank(o.socket, o.kind) \in Nat
  BY <1>3 DEF Rank
<1>5. 1 + Rank(o.socket, o.kind) \in Nat
  BY <1>4
<1> DEFINE r == 1 + Rank(o.socket, o.kind)
<1> HIDE DEF r, S
<1>6. o = [socket |-> o.socket, kind |-> o.kind, size |-> o.size, rank |-> o.rank,
           stage |-> o.stage]
  BY DEF Op
<1>7. Completed(o, stage) = [o EXCEPT !.stage = stage, !.rank = r]
  BY DEF Completed, r
<1>8. /\ Completed(o, stage) \in Op
      /\ Completed(o, stage).socket = o.socket /\ Completed(o, stage).kind = o.kind
      /\ Completed(o, stage).stage = stage /\ Completed(o, stage).size = o.size
      /\ Completed(o, stage).rank = r
  BY <1>5, <1>6, <1>7 DEF Op, r
<1> QED
  BY <1>4, <1>8 DEF r

\* A new operation is one.
LEMMA NewOpIsOp ==
  ASSUME NEW s \in Sockets, NEW k \in Kinds, NEW size \in 1..2
  PROVE  /\ NewOp(s, k, size) \in Op
         /\ NewOp(s, k, size).socket = s /\ NewOp(s, k, size).kind = k
         /\ NewOp(s, k, size).size = size /\ NewOp(s, k, size).rank = 0
         /\ NewOp(s, k, size).stage = "started"
  BY DEF NewOp, Op

\* The operations with one more.
LEMMA OneMoreOp ==
  ASSUME Types, NEW o \in Op
  PROVE  LET more == Append(ops, o)  n == Len(ops) + 1 IN
         /\ more \in Seq(Op) /\ Len(more) = n /\ DOMAIN more = 1..n
         /\ n \notin DOMAIN ops /\ DOMAIN more = DOMAIN ops \cup {n}
         /\ \A i \in DOMAIN ops : more[i] = ops[i] /\ i < n
         /\ more[n] = o
<1>1. ops \in Seq(Op)
  BY DEF Types
<1>2. /\ Append(ops, o) \in Seq(Op) /\ Len(Append(ops, o)) = Len(ops) + 1
      /\ \A i \in 1..Len(ops) : Append(ops, o)[i] = ops[i]
      /\ Append(ops, o)[Len(ops) + 1] = o
      /\ Len(ops) \in Nat /\ DOMAIN ops = 1..Len(ops)
      /\ DOMAIN Append(ops, o) = 1..(Len(ops) + 1)
  BY <1>1, AppendProperties, LenProperties
<1> QED
  BY <1>2

\* A sequence of operations in which some have changed is one still.
LEMMA OpsChanged ==
  ASSUME Types, NEW new, DOMAIN new = DOMAIN ops, new = [i \in DOMAIN ops |-> new[i]],
         \A i \in DOMAIN ops : new[i] \in Op
  PROVE  new \in Seq(Op) /\ Len(new) = Len(ops)
<1>1. new \in [1..Len(ops) -> Op] /\ Len(ops) \in Nat
  BY OpParts
<1>2. new \in Seq(Op)
  BY <1>1, IsASeq
<1> QED
  BY <1>1, <1>2, LenProperties, OpParts

-----------------------------------------------------------------------------
(* The types.                                                              *)

\* Every step keeps the types.
LEMMA TypesKept ==
  ASSUME Types, Owned, Locked, Queues, Step \/ UNCHANGED reactorVars
  PROVE  Types'
<1>1. ASSUME NEW s \in Sockets, PeerEnds(s)
      PROVE  Types'
  BY <1>1 DEF Types, PeerEnds, kernelVars, socketVars, stateVars, queueVars
<1>2. ASSUME NEW s \in Sockets, CancelOps(s)
      PROVE  Types'
  <2>1. /\ DOMAIN ops' = DOMAIN ops /\ ops' = [i \in DOMAIN ops |-> ops'[i]]
        /\ \A i \in DOMAIN ops : ops'[i] \in Op
    BY <1>2, OpParts DEF CancelOps, Abort, Op
  <2>2. ops' \in Seq(Op) /\ Len(ops') = Len(ops)
    BY <2>1, OpsChanged
  <2>3. data[s] \in States
    BY <1>2, OpenHasState DEF CancelOps
  <2>4. op_queue_' \in [States -> [Kinds -> Seq(Nat)]]
    <3>1. << >> \in Seq(Nat)
      OBVIOUS
    <3>2. [k \in Kinds |-> << >>] \in [Kinds -> Seq(Nat)]
      BY <3>1
    <3> QED
      BY <1>2, <2>3, <3>2 DEF Types, CancelOps, Abort
  <2> QED
    BY <1>2, <2>2, <2>4 DEF Types, CancelOps, kernelVars, socketVars, queueVars
<1>3. ASSUME NEW s \in Sockets, DeregisterDescriptor(s)
      PROVE  Types'
  <2>1. /\ DOMAIN ops' = DOMAIN ops /\ ops' = [i \in DOMAIN ops |-> ops'[i]]
        /\ \A i \in DOMAIN ops : ops'[i] \in Op
    BY <1>3, OpParts DEF DeregisterDescriptor, Abort, Op
  <2>2. ops' \in Seq(Op) /\ Len(ops') = Len(ops)
    BY <2>1, OpsChanged
  <2>3. data[s] \in States
    BY <1>3, OpenHasState DEF DeregisterDescriptor
  <2>4. op_queue_' \in [States -> [Kinds -> Seq(Nat)]]
    <3>1. << >> \in Seq(Nat)
      OBVIOUS
    <3>2. [k \in Kinds |-> << >>] \in [Kinds -> Seq(Nat)]
      BY <3>1
    <3> QED
      BY <1>3, <2>3, <3>2 DEF Types, DeregisterDescriptor, Abort
  <2> QED
    BY <1>3, <2>2, <2>4 DEF Types, DeregisterDescriptor, kernelVars, socketVars,
         queueVars
<1>4. ASSUME NEW s \in Sockets, CleanupDescriptorData(s)
      PROVE  Types'
  <2>1. [k \in Kinds |-> 0] \in [Kinds -> 0..MaxAvail]
    BY ReactorAssumption
  <2>2. avail' \in [Sockets -> [Kinds -> 0..MaxAvail]]
    BY <1>4, <2>1 DEF Types, CleanupDescriptorData
  <2> QED
    BY <1>4, <2>2 DEF Types, CleanupDescriptorData, stateVars, queueVars
<1>5. ASSUME NEW s \in Sockets, NEW k \in Kinds, Arrive(s, k)
      PROVE  Types'
  <2>1. avail \in [Sockets -> [Kinds -> 0..MaxAvail]]
    BY DEF Types
  <2>2. avail[s][k] + 1 \in 0..MaxAvail
    BY <1>5, <2>1, ReactorAssumption DEF Arrive
  <2>3. avail' \in [Sockets -> [Kinds -> 0..MaxAvail]]
    BY <1>5, <2>1, <2>2 DEF Arrive
  <2>4. listed' \in [Sockets -> BOOLEAN]
    BY <1>5 DEF Types, Arrive
  <2> QED
    BY <1>5, <2>3, <2>4 DEF Types, Arrive, socketVars, stateVars, queueVars
<1>6. ASSUME NEW s \in Sockets, NEW d \in States, Register(s, d)
      PROVE  Types'
  <2>1. data' \in [Sockets -> States \cup {None}]
          /\ phase' \in [Sockets -> {"new", "open", "closing", "closed"}]
    BY <1>6 DEF Types, Register
  <2>2. /\ try_speculative_' \in [States -> [Kinds -> BOOLEAN]]
        /\ registered_events_' \in [States -> SUBSET Kinds]
    BY <1>6 DEF Types, Register
  <2>3. mask' \in [Sockets -> SUBSET Kinds] /\ listed' \in [Sockets -> BOOLEAN]
    BY <1>6 DEF Types, Register, EpollCtl
  <2> QED
    BY <1>6, <2>1, <2>2, <2>3 DEF Types, Register, queueVars
<1>7. ASSUME NEW t \in Threads, NEW s \in Sockets, NEW k \in Kinds, NEW size \in 1..2,
             StartsNow(t, s, k, size)
      PROVE  Types'
  <2> DEFINE o == NewOp(s, k, size)
  <2>1. o \in Op /\ o.socket = s /\ o.kind = k /\ o.size = size
    BY NewOpIsOp
  <2>2. avail' \in [Sockets -> [Kinds -> 0..MaxAvail]]
    BY <1>7, <2>1, TakeTakes DEF StartsNow
  <2>3. Completed(o, "posted") \in Op
    BY <2>1, CompletedIsOp
  <2>4. ops' \in Seq(Op) /\ Len(ops') = Len(ops) + 1
    BY <1>7, <2>3, OneMoreOp DEF StartsNow
  <2>5. ended' \subseteq Sockets
    BY <1>7, <2>1 DEF Types, StartsNow, End
  <2>6. try_speculative_' \in [States -> [Kinds -> BOOLEAN]]
    BY <1>7 DEF Types, StartsNow
  <2>7. Len(ops') <= MaxOps
    BY <1>7, <2>4, OpParts, ReactorAssumption DEF StartsNow
  <2> QED
    BY <1>7, <2>2, <2>4, <2>5, <2>6, <2>7 DEF Types, StartsNow, socketVars
<1>8. ASSUME NEW t \in Threads, NEW s \in Sockets, NEW k \in Kinds, NEW size \in 1..2,
             NEW direct \in BOOLEAN, StartsLater(t, s, k, size, direct)
      PROVE  Types'
  <2>1. NewOp(s, k, size) \in Op
    BY NewOpIsOp
  <2>2. ops' \in Seq(Op) /\ Len(ops') = Len(ops) + 1
    BY <1>8, <2>1, OneMoreOp DEF StartsLater
  <2>3. Len(ops') <= MaxOps
    BY <1>8, <2>2, OpParts, ReactorAssumption DEF StartsLater
  <2>4. [at |-> "start", op |-> Len(ops) + 1, direct |-> direct] \in Place
    BY OpParts DEF Place
  <2>5. loc' \in [Threads -> Place]
    BY <1>8, <2>4 DEF Types, StartsLater
  <2>6. mutex_' \in [States -> Threads \cup {None}]
    BY <1>8 DEF Types, StartsLater
  <2> QED
    BY <1>8, <2>2, <2>3, <2>5, <2>6 DEF Types, StartsLater, socketVars
<1>9. ASSUME NEW t \in Threads, EpollWait(t)
      PROVE  Types'
  <2>1. \A r \in Sockets : listed[r] /\ Ready(r) \cap mask[r] # {} => data[r] \in States
    BY DEF Owned, Types
  <2>2. events' \subseteq States \X SUBSET Kinds
    BY <1>9, <2>1 DEF EpollWait, Ready
  <2>3. listed' \in [Sockets -> BOOLEAN]
    BY <1>9 DEF EpollWait
  <2>4. loc' \in [Threads -> Place]
    BY <1>9 DEF Types, EpollWait, Place
  <2> QED
    BY <1>9, <2>2, <2>3, <2>4 DEF Types, EpollWait, socketVars, stateVars
<1>10. ASSUME NEW t \in Threads, Dispatch(t)
      PROVE  Types'
  <2>1. \A e \in events : e[1] \in States /\ e[2] \subseteq Kinds
    BY DEF Types
  <2>2. scheduled' \subseteq States
    BY <1>10, <2>1 DEF Dispatch
  <2>3. task_result_' \in [States -> SUBSET Kinds]
    <3>1. \A d \in States : task_result_[d] \subseteq Kinds
      BY DEF Types
    <3> QED
      BY <1>10, <2>1, <3>1 DEF Dispatch
  <2>4. loc' \in [Threads -> Place]
    BY <1>10 DEF Types, Dispatch, Place
  <2> QED
    BY <1>10, <2>2, <2>3, <2>4 DEF Types, Dispatch, kernelVars, socketVars, stateVars
<1>11. ASSUME NEW t \in Threads, Lock(t)
      PROVE  Types'
  <2>1. /\ loc[t] = [at |-> "lock", state |-> loc[t].state, kinds |-> loc[t].kinds,
                     done |-> loc[t].done]
        /\ loc[t].state \in States /\ loc[t].kinds \subseteq Kinds
        /\ loc[t].done \in Seq(Nat)
    BY <1>11, PlaceParts DEF Lock
  <2>2. [loc[t] EXCEPT !.at = "perform"] \in Place
    BY <2>1 DEF Place
  <2>3. loc' \in [Threads -> Place]
    BY <1>11, <2>2 DEF Types, Lock
  <2>4. mutex_' \in [States -> Threads \cup {None}]
    BY <1>11 DEF Types, Lock
  <2> QED
    BY <1>11, <2>3, <2>4 DEF Types, Lock, kernelVars, socketVars, queueVars
<1>12. ASSUME NEW t \in Threads, Leave(t)
      PROVE  Types'
  <2>1. /\ DOMAIN ops' = DOMAIN ops /\ ops' = [i \in DOMAIN ops |-> ops'[i]]
        /\ \A i \in DOMAIN ops : ops'[i] \in Op
    BY <1>12, OpParts DEF Leave, Op
  <2>2. ops' \in Seq(Op) /\ Len(ops') = Len(ops)
    BY <2>1, OpsChanged
  <2>3. loc' \in [Threads -> Place]
    BY <1>12 DEF Types, Leave, Place
  <2>4. mutex_' \in [States -> Threads \cup {None}]
    BY <1>12 DEF Types, Leave
  <2>5. work' \in Int
    BY <1>12 DEF Types, Leave
  <2> QED
    BY <1>12, <2>2, <2>3, <2>4, <2>5 DEF Types, Leave, kernelVars, socketVars
<1>13. ASSUME NEW t \in Threads, NEW d \in States, Dequeue(t, d)
      PROVE  Types'
  <2>1. << >> \in Seq(Nat)
    OBVIOUS
  <2>2. [at |-> "lock", state |-> d, kinds |-> task_result_[d], done |-> << >>] \in Place
    BY <2>1 DEF Types, Place
  <2>3. loc' \in [Threads -> Place]
    BY <1>13, <2>2 DEF Types, Dequeue
  <2> QED
    BY <1>13, <2>3 DEF Types, Dequeue, kernelVars, socketVars, stateVars
<1>14. ASSUME NEW t \in Threads, NEW k \in Kinds, Misses(t, k)
      PROVE  Types'
  <2>1. /\ loc[t] = [at |-> "perform", state |-> loc[t].state, kinds |-> loc[t].kinds,
                     done |-> loc[t].done]
        /\ loc[t].state \in States /\ loc[t].kinds \subseteq Kinds
        /\ loc[t].done \in Seq(Nat)
    BY <1>14, PlaceParts DEF Misses
  <2>2. [loc[t] EXCEPT !.kinds = loc[t].kinds \ {k}] \in Place
    BY <2>1 DEF Place
  <2>3. loc' \in [Threads -> Place]
    BY <1>14, <2>2 DEF Types, Misses
  <2>4. try_speculative_' \in [States -> [Kinds -> BOOLEAN]]
    BY <1>14 DEF Types, Misses
  <2> QED
    BY <1>14, <2>3, <2>4 DEF Types, Misses, socketVars, queueVars
<1>15. ASSUME NEW t \in Threads, NEW k \in Kinds, NEW i \in DOMAIN ops, Takes(t, k, i)
      PROVE  Types'
  <2>1. /\ loc[t] = [at |-> "perform", state |-> loc[t].state, kinds |-> loc[t].kinds,
                     done |-> loc[t].done]
        /\ loc[t].state \in States /\ loc[t].kinds \subseteq Kinds
        /\ loc[t].done \in Seq(Nat)
    BY <1>15, PlaceParts DEF Takes
  <2>2. i \in Nat /\ ops[i] \in Op
    BY OpParts
  <2>3. Append(loc[t].done, i) \in Seq(Nat)
    BY <2>1, <2>2, AppendTo
  <2> DEFINE kinds == IF Status(ops[i]) = "done" THEN loc[t].kinds ELSE loc[t].kinds \ {k}
             done == Append(loc[t].done, i)
             new == [at |-> "perform", state |-> loc[t].state, kinds |-> kinds,
                  done |-> done]
  <2>4. kinds \subseteq Kinds /\ done \in Seq(Nat)
    BY <2>1, <2>3
  <2>5. loc' = [loc EXCEPT ![t] = new]
    BY <1>15 DEF Takes, Performed
  <2> HIDE DEF kinds, done
  <2>6. new \in Place
    BY <2>1, <2>4 DEF Place
  <2>7. loc' \in [Threads -> Place]
    BY <2>5, <2>6 DEF Types
  <2>8. try_speculative_' \in [States -> [Kinds -> BOOLEAN]]
    BY <1>15 DEF Types, Takes
  <2>9. avail' \in [Sockets -> [Kinds -> 0..MaxAvail]]
    BY <1>15, <2>2, OpParts, TakeTakes, Zenon DEF Takes
  <2>10. ended' \subseteq Sockets
    BY <1>15, OpParts, Zenon DEF Types, Takes, End
  <2>11. op_queue_' \in [States -> [Kinds -> Seq(Nat)]]
    <3>1. op_queue_[loc[t].state][k] \in Seq(Nat) /\ op_queue_[loc[t].state][k] # << >>
          /\ Increasing(op_queue_[loc[t].state][k])
      BY <1>15, <2>1 DEF Types, Queues, Takes
    <3>2. Tail(op_queue_[loc[t].state][k]) \in Seq(Nat)
      BY <3>1, HeadAndTail
    <3> QED
      BY <1>15, <2>1, <3>2 DEF Types, Takes
  <2>12. Completed(ops[i], "popped") \in Op
    BY <2>2, CompletedIsOp
  <2>13. ops' \in Seq(Op) /\ Len(ops') = Len(ops)
    <3>1. /\ DOMAIN ops' = DOMAIN ops /\ ops' = [j \in DOMAIN ops |-> ops'[j]]
          /\ \A j \in DOMAIN ops : ops'[j] \in Op
      BY <1>15, <2>12, OpParts, ZenonT(40) DEF Takes
    <3> QED
      BY <3>1, OpsChanged
  <2> QED
    BY <1>15, <2>7, <2>8, <2>9, <2>10, <2>11, <2>13 DEF Types, Takes, socketVars,
         queueVars
<1>16. ASSUME NEW t \in Threads, NEW i \in DOMAIN ops, NEW s \in Sockets, NEW k \in Kinds,
             Enqueues(t, i, s, k)
      PROVE  Types'
  <2>1. data[s] \in States
    BY <1>16, OpenHasState, Zenon DEF Enqueues, Locked, Holds
  <2>2. i \in Nat /\ ops[i] \in Op
    BY OpParts
  <2>3. op_queue_[data[s]][k] \in Seq(Nat)
    BY <2>1 DEF Types
  <2>4. Append(op_queue_[data[s]][k], i) \in Seq(Nat)
    BY <2>2, <2>3, AppendTo
  <2>5. op_queue_' \in [States -> [Kinds -> Seq(Nat)]]
    BY <1>16, <2>1, <2>4 DEF Types, Enqueues
  <2>6. Wanted(data[s], k) \subseteq Kinds
    BY <2>1 DEF Types, Wanted
  <2>7. /\ mask' \in [Sockets -> SUBSET Kinds] /\ listed' \in [Sockets -> BOOLEAN]
        /\ registered_events_' \in [States -> SUBSET Kinds]
    <3>1. CASE Asks(t, s, k)
      <4>1. /\ mask' = [mask EXCEPT ![s] = Wanted(data[s], k)]
            /\ listed' = [listed EXCEPT ![s] = listed[s]
                                          \/ Ready(s) \cap Wanted(data[s], k) # {}]
            /\ registered_events_' = [registered_events_ EXCEPT ![data[s]] = Wanted(data[s], k)]
        BY <1>16, <3>1, Zenon DEF Enqueues
      <4>2. mask' \in [Sockets -> SUBSET Kinds]
        BY <4>1, <2>6 DEF Types
      <4>3. listed' \in [Sockets -> BOOLEAN]
        BY <4>1 DEF Types
      <4>4. registered_events_' \in [States -> SUBSET Kinds]
        BY <4>1, <2>6 DEF Types
      <4> QED
        BY <4>2, <4>3, <4>4
    <3>2. CASE ~Asks(t, s, k)
      BY <1>16, <3>2 DEF Types, Enqueues
    <3> QED
      BY <3>1, <3>2
  <2>8. /\ DOMAIN ops' = DOMAIN ops /\ ops' = [j \in DOMAIN ops |-> ops'[j]]
        /\ \A j \in DOMAIN ops : ops'[j] \in Op
    BY <1>16, OpParts, Zenon DEF Enqueues, Op
  <2>9. ops' \in Seq(Op) /\ Len(ops') = Len(ops)
    BY <2>8, OpsChanged
  <2>10. loc' \in [Threads -> Place]
    BY <1>16 DEF Types, Enqueues, Place
  <2>11. mutex_' \in [States -> Threads \cup {None}]
    BY <1>16 DEF Types, Enqueues
  <2>12. work' \in Int
    BY <1>16 DEF Types, Enqueues
  <2>13. UNCHANGED <<avail, eof, phase, data, try_speculative_, events, scheduled,
                     task_result_, ended>>
    BY <1>16, Zenon DEF Enqueues, socketVars
  <2>14. Len(ops) <= MaxOps
    BY DEF Types
  <2> QED
    BY <2>5, <2>7, <2>9, <2>10, <2>11, <2>12, <2>13, <2>14 DEF Types
<1>17. ASSUME NEW i \in DOMAIN ops, RunPosted(i)
      PROVE  Types'
  <2>1. /\ DOMAIN ops' = DOMAIN ops /\ ops' = [j \in DOMAIN ops |-> ops'[j]]
        /\ \A j \in DOMAIN ops : ops'[j] \in Op
    BY <1>17, OpParts DEF RunPosted, Op
  <2>2. ops' \in Seq(Op) /\ Len(ops') = Len(ops)
    BY <2>1, OpsChanged
  <2>3. work' \in Int
    BY <1>17 DEF Types, RunPosted
  <2> QED
    BY <1>17, <2>2, <2>3 DEF Types, RunPosted, kernelVars, socketVars, stateVars
<1>18. CASE UNCHANGED reactorVars
  BY <1>18 DEF Types, reactorVars, kernelVars, socketVars, stateVars, queueVars
<1> QED
  BY <1>1, <1>2, <1>3, <1>4, <1>5, <1>6, <1>7, <1>8, <1>9, <1>10, <1>11, <1>12, <1>13,
       <1>14, <1>15, <1>16, <1>17, <1>18 DEF Step

-----------------------------------------------------------------------------
(* Who has what.                                                           *)

\* An operation keeps its socket and its kind.
LEMMA OpsStay ==
  ASSUME Types, Step \/ UNCHANGED reactorVars
  PROVE  \A n \in DOMAIN ops : n \in DOMAIN ops' /\ ops'[n].socket = ops[n].socket
                                /\ ops'[n].kind = ops[n].kind
<1>1. ASSUME NEW s \in Sockets, PeerEnds(s)
      PROVE  \A n \in DOMAIN ops : n \in DOMAIN ops' /\ ops'[n].socket = ops[n].socket
                                    /\ ops'[n].kind = ops[n].kind
  BY <1>1 DEF PeerEnds, kernelVars, socketVars, stateVars, queueVars
<1>2. ASSUME NEW s \in Sockets, CancelOps(s)
      PROVE  \A n \in DOMAIN ops : n \in DOMAIN ops' /\ ops'[n].socket = ops[n].socket
                                    /\ ops'[n].kind = ops[n].kind
  <2>1. /\ DOMAIN ops' = DOMAIN ops
        /\ \A i \in DOMAIN ops :
             ops'[i] = IF i \in Queued(data[s]) THEN [ops[i] EXCEPT !.stage = "posted"]
                       ELSE ops[i]
    BY <1>2 DEF CancelOps, Abort
  <2>2. \A i \in DOMAIN ops :
          /\ [ops[i] EXCEPT !.stage = "posted"].socket = ops[i].socket
          /\ [ops[i] EXCEPT !.stage = "posted"].kind = ops[i].kind
    BY OpParts DEF Op
  <2> QED
    BY <2>1, <2>2
<1>3. ASSUME NEW s \in Sockets, DeregisterDescriptor(s)
      PROVE  \A n \in DOMAIN ops : n \in DOMAIN ops' /\ ops'[n].socket = ops[n].socket
                                    /\ ops'[n].kind = ops[n].kind
  <2>1. /\ DOMAIN ops' = DOMAIN ops
        /\ \A i \in DOMAIN ops :
             ops'[i] = IF i \in Queued(data[s]) THEN [ops[i] EXCEPT !.stage = "posted"]
                       ELSE ops[i]
    BY <1>3 DEF DeregisterDescriptor, Abort
  <2>2. \A i \in DOMAIN ops :
          /\ [ops[i] EXCEPT !.stage = "posted"].socket = ops[i].socket
          /\ [ops[i] EXCEPT !.stage = "posted"].kind = ops[i].kind
    BY OpParts DEF Op
  <2> QED
    BY <2>1, <2>2
<1>4. ASSUME NEW s \in Sockets, CleanupDescriptorData(s)
      PROVE  \A n \in DOMAIN ops : n \in DOMAIN ops' /\ ops'[n].socket = ops[n].socket
                                    /\ ops'[n].kind = ops[n].kind
  BY <1>4 DEF CleanupDescriptorData, kernelVars, socketVars, stateVars, queueVars
<1>5. ASSUME NEW s \in Sockets, NEW k \in Kinds, Arrive(s, k)
      PROVE  \A n \in DOMAIN ops : n \in DOMAIN ops' /\ ops'[n].socket = ops[n].socket
                                    /\ ops'[n].kind = ops[n].kind
  BY <1>5 DEF Arrive, kernelVars, socketVars, stateVars, queueVars
<1>6. ASSUME NEW s \in Sockets, NEW d \in States, Register(s, d)
      PROVE  \A n \in DOMAIN ops : n \in DOMAIN ops' /\ ops'[n].socket = ops[n].socket
                                    /\ ops'[n].kind = ops[n].kind
  BY <1>6 DEF Register, kernelVars, socketVars, stateVars, queueVars
<1>7. ASSUME NEW t \in Threads, NEW s \in Sockets, NEW k \in Kinds, NEW size \in 1..2,
             StartsNow(t, s, k, size)
      PROVE  \A n \in DOMAIN ops : n \in DOMAIN ops' /\ ops'[n].socket = ops[n].socket
                                    /\ ops'[n].kind = ops[n].kind
  <2>1. NewOp(s, k, size) \in Op
    BY NewOpIsOp
  <2>2. Completed(NewOp(s, k, size), "posted") \in Op
    BY <2>1, CompletedIsOp
  <2> QED
    BY <1>7, <2>2, OneMoreOp DEF StartsNow
<1>8. ASSUME NEW t \in Threads, NEW s \in Sockets, NEW k \in Kinds, NEW size \in 1..2,
             NEW direct \in BOOLEAN, StartsLater(t, s, k, size, direct)
      PROVE  \A n \in DOMAIN ops : n \in DOMAIN ops' /\ ops'[n].socket = ops[n].socket
                                    /\ ops'[n].kind = ops[n].kind
  <2>1. NewOp(s, k, size) \in Op
    BY NewOpIsOp
  <2> QED
    BY <1>8, <2>1, OneMoreOp DEF StartsLater
<1>9. ASSUME NEW t \in Threads, EpollWait(t)
      PROVE  \A n \in DOMAIN ops : n \in DOMAIN ops' /\ ops'[n].socket = ops[n].socket
                                    /\ ops'[n].kind = ops[n].kind
  BY <1>9 DEF EpollWait, kernelVars, socketVars, stateVars, queueVars
<1>10. ASSUME NEW t \in Threads, Dispatch(t)
      PROVE  \A n \in DOMAIN ops : n \in DOMAIN ops' /\ ops'[n].socket = ops[n].socket
                                    /\ ops'[n].kind = ops[n].kind
  BY <1>10 DEF Dispatch, kernelVars, socketVars, stateVars, queueVars
<1>11. ASSUME NEW t \in Threads, Lock(t)
      PROVE  \A n \in DOMAIN ops : n \in DOMAIN ops' /\ ops'[n].socket = ops[n].socket
                                    /\ ops'[n].kind = ops[n].kind
  BY <1>11 DEF Lock, kernelVars, socketVars, stateVars, queueVars
<1>12. ASSUME NEW t \in Threads, Leave(t)
      PROVE  \A n \in DOMAIN ops : n \in DOMAIN ops' /\ ops'[n].socket = ops[n].socket
                                    /\ ops'[n].kind = ops[n].kind
  <2>1. /\ DOMAIN ops' = DOMAIN ops
        /\ \A i \in DOMAIN ops : \E g \in {"done", "posted"} :
             ops'[i] = IF i \in Range(loc[t].done) THEN [ops[i] EXCEPT !.stage = g]
                       ELSE ops[i]
    BY <1>12 DEF Leave
  <2>2. \A i \in DOMAIN ops, g \in {"done", "posted"} :
          /\ [ops[i] EXCEPT !.stage = g].socket = ops[i].socket
          /\ [ops[i] EXCEPT !.stage = g].kind = ops[i].kind
    BY OpParts DEF Op
  <2> QED
    BY <2>1, <2>2
<1>13. ASSUME NEW t \in Threads, NEW d \in States, Dequeue(t, d)
      PROVE  \A n \in DOMAIN ops : n \in DOMAIN ops' /\ ops'[n].socket = ops[n].socket
                                    /\ ops'[n].kind = ops[n].kind
  BY <1>13 DEF Dequeue, kernelVars, socketVars, stateVars, queueVars
<1>14. ASSUME NEW t \in Threads, NEW k \in Kinds, Misses(t, k)
      PROVE  \A n \in DOMAIN ops : n \in DOMAIN ops' /\ ops'[n].socket = ops[n].socket
                                    /\ ops'[n].kind = ops[n].kind
  BY <1>14 DEF Misses, kernelVars, socketVars, stateVars, queueVars
<1>15. ASSUME NEW t \in Threads, NEW k \in Kinds, NEW i \in DOMAIN ops, Takes(t, k, i)
      PROVE  \A n \in DOMAIN ops : n \in DOMAIN ops' /\ ops'[n].socket = ops[n].socket
                                    /\ ops'[n].kind = ops[n].kind
  <2>1. /\ DOMAIN ops' = DOMAIN ops
        /\ \A j \in DOMAIN ops : ops'[j] = IF j = i THEN Completed(ops[i], "popped")
                                        ELSE ops[j]
    BY <1>15 DEF Takes
  <2>2. Completed(ops[i], "popped").socket = ops[i].socket
          /\ Completed(ops[i], "popped").kind = ops[i].kind
    BY OpParts, CompletedIsOp
  <2> QED
    BY <2>1, <2>2
<1>16. ASSUME NEW t \in Threads, NEW i \in DOMAIN ops, NEW s \in Sockets, NEW k \in Kinds,
             Enqueues(t, i, s, k)
      PROVE  \A n \in DOMAIN ops : n \in DOMAIN ops' /\ ops'[n].socket = ops[n].socket
                                    /\ ops'[n].kind = ops[n].kind
  <2>1. \A j \in DOMAIN ops : ops'[j] = IF j = i THEN [ops[i] EXCEPT !.stage = "queued"]
                                        ELSE ops[j]
    BY <1>16, Zenon DEF Enqueues
  <2>2. [ops[i] EXCEPT !.stage = "queued"].socket = ops[i].socket
          /\ [ops[i] EXCEPT !.stage = "queued"].kind = ops[i].kind
    BY OpParts DEF Op
  <2>3. DOMAIN ops' = DOMAIN ops
    BY <1>16, Zenon DEF Enqueues
  <2> QED
    BY <2>1, <2>2, <2>3
<1>17. ASSUME NEW i \in DOMAIN ops, RunPosted(i)
      PROVE  \A n \in DOMAIN ops : n \in DOMAIN ops' /\ ops'[n].socket = ops[n].socket
                                    /\ ops'[n].kind = ops[n].kind
  <2>1. \A j \in DOMAIN ops : ops'[j] = IF j = i THEN [ops[i] EXCEPT !.stage = "done"]
                                        ELSE ops[j]
    BY <1>17 DEF RunPosted
  <2>2. [ops[i] EXCEPT !.stage = "done"].socket = ops[i].socket
          /\ [ops[i] EXCEPT !.stage = "done"].kind = ops[i].kind
    BY OpParts DEF Op
  <2>3. DOMAIN ops' = DOMAIN ops
    BY <1>17 DEF RunPosted
  <2> QED
    BY <2>1, <2>2, <2>3
<1>18. CASE UNCHANGED reactorVars
  BY <1>18 DEF reactorVars, kernelVars, socketVars, stateVars, queueVars
<1> QED
  BY <1>1, <1>2, <1>3, <1>4, <1>5, <1>6, <1>7, <1>8, <1>9, <1>10, <1>11, <1>12, <1>13,
       <1>14, <1>15, <1>16, <1>17, <1>18 DEF Step

\* Every step keeps what belongs to whom.
LEMMA OwnedKept ==
  ASSUME Types, Owned, Locked, Step \/ UNCHANGED reactorVars
  PROVE  Owned'
<1>1. ASSUME NEW s \in Sockets, PeerEnds(s)
      PROVE  Owned'
  BY <1>1 DEF Owned, PeerEnds, kernelVars, socketVars, stateVars, queueVars
<1>2. ASSUME NEW s \in Sockets, CancelOps(s)
      PROVE  Owned'
  BY <1>2 DEF Owned, CancelOps, Abort, kernelVars, socketVars
<1>3. ASSUME NEW s \in Sockets, DeregisterDescriptor(s)
      PROVE  Owned'
  BY <1>3 DEF Owned, Types, DeregisterDescriptor, Abort, kernelVars
<1>4. ASSUME NEW s \in Sockets, CleanupDescriptorData(s)
      PROVE  Owned'
  BY <1>4 DEF Owned, Types, CleanupDescriptorData, stateVars
<1>5. ASSUME NEW s \in Sockets, NEW k \in Kinds, Arrive(s, k)
      PROVE  Owned'
  BY <1>5 DEF Owned, Arrive, kernelVars, socketVars, stateVars, queueVars
<1>6. ASSUME NEW s \in Sockets, NEW d \in States, Register(s, d)
      PROVE  Owned'
  <2>1. /\ data' = [data EXCEPT ![s] = d] /\ phase' = [phase EXCEPT ![s] = "open"]
        /\ mask' = [mask EXCEPT ![s] = Kinds \ {"write"}]
        /\ registered_events_' = [registered_events_ EXCEPT ![d] = Kinds \ {"write"}]
        /\ d # None /\ \A r \in Sockets : data[r] # d
    BY <1>6, ReactorAssumption DEF Register, EpollCtl, Free
  <2> QED
    BY <2>1 DEF Owned, Types
<1>7. ASSUME NEW t \in Threads, NEW s \in Sockets, NEW k \in Kinds, NEW size \in 1..2,
             StartsNow(t, s, k, size)
      PROVE  Owned'
  BY <1>7 DEF Owned, StartsNow, kernelVars, socketVars, stateVars, queueVars
<1>8. ASSUME NEW t \in Threads, NEW s \in Sockets, NEW k \in Kinds, NEW size \in 1..2,
             NEW direct \in BOOLEAN, StartsLater(t, s, k, size, direct)
      PROVE  Owned'
  BY <1>8 DEF Owned, StartsLater, kernelVars, socketVars, stateVars, queueVars
<1>9. ASSUME NEW t \in Threads, EpollWait(t)
      PROVE  Owned'
  BY <1>9 DEF Owned, EpollWait, kernelVars, socketVars, stateVars, queueVars
<1>10. ASSUME NEW t \in Threads, Dispatch(t)
      PROVE  Owned'
  BY <1>10 DEF Owned, Dispatch, kernelVars, socketVars, stateVars, queueVars
<1>11. ASSUME NEW t \in Threads, Lock(t)
      PROVE  Owned'
  BY <1>11 DEF Owned, Lock, kernelVars, socketVars, stateVars, queueVars
<1>12. ASSUME NEW t \in Threads, Leave(t)
      PROVE  Owned'
  BY <1>12 DEF Owned, Leave, kernelVars, socketVars, stateVars, queueVars
<1>13. ASSUME NEW t \in Threads, NEW d \in States, Dequeue(t, d)
      PROVE  Owned'
  BY <1>13 DEF Owned, Dequeue, kernelVars, socketVars, stateVars, queueVars
<1>14. ASSUME NEW t \in Threads, NEW k \in Kinds, Misses(t, k)
      PROVE  Owned'
  BY <1>14 DEF Owned, Misses, kernelVars, socketVars, stateVars, queueVars
<1>15. ASSUME NEW t \in Threads, NEW k \in Kinds, NEW i \in DOMAIN ops, Takes(t, k, i)
      PROVE  Owned'
  BY <1>15 DEF Owned, Takes, kernelVars, socketVars, stateVars, queueVars
<1>16. ASSUME NEW t \in Threads, NEW i \in DOMAIN ops, NEW s \in Sockets, NEW k \in Kinds,
             Enqueues(t, i, s, k)
      PROVE  Owned'
  <2>1. data[s] \in States /\ phase[s] = "open"
    BY <1>16, OpenHasState, Zenon DEF Enqueues, Locked, Holds
  <2>2. data' = data /\ phase' = phase
    BY <1>16, Zenon DEF Enqueues, socketVars
  <2>3. CASE Asks(t, s, k)
    <3>1. /\ mask' = [mask EXCEPT ![s] = Wanted(data[s], k)]
          /\ registered_events_' = [registered_events_ EXCEPT ![data[s]] = Wanted(data[s], k)]
      BY <1>16, <2>3, Zenon DEF Enqueues
    <3>2. Wanted(data[s], k) \subseteq Kinds
            /\ Kinds \ {"write"} \subseteq Wanted(data[s], k)
      BY <2>1 DEF Types, Wanted, Owned
    <3> QED
      BY <2>1, <2>2, <3>1, <3>2 DEF Owned, Types
  <2>4. CASE ~Asks(t, s, k)
    BY <1>16, <2>2, <2>4, Zenon DEF Enqueues, Owned
  <2> QED
    BY <2>3, <2>4
<1>17. ASSUME NEW i \in DOMAIN ops, RunPosted(i)
      PROVE  Owned'
  BY <1>17 DEF Owned, RunPosted, kernelVars, socketVars, stateVars, queueVars
<1>18. CASE UNCHANGED reactorVars
  BY <1>18 DEF Owned, reactorVars, kernelVars, socketVars, stateVars, queueVars
<1> QED
  BY <1>1, <1>2, <1>3, <1>4, <1>5, <1>6, <1>7, <1>8, <1>9, <1>10, <1>11, <1>12, <1>13,
       <1>14, <1>15, <1>16, <1>17, <1>18 DEF Step

\* Every step keeps what the dispatching thread has to itself.
LEMMA DispatchingKept ==
  ASSUME Types, Dispatching, Step \/ UNCHANGED reactorVars
  PROVE  Dispatching'
<1>1. ASSUME NEW s \in Sockets, PeerEnds(s)
      PROVE  Dispatching'
  BY <1>1 DEF Dispatching, PeerEnds, kernelVars, socketVars, stateVars, queueVars
<1>2. ASSUME NEW s \in Sockets, CancelOps(s)
      PROVE  Dispatching'
  BY <1>2 DEF Dispatching, CancelOps, kernelVars, socketVars, stateVars, queueVars
<1>3. ASSUME NEW s \in Sockets, DeregisterDescriptor(s)
      PROVE  Dispatching'
  BY <1>3 DEF Dispatching, DeregisterDescriptor, kernelVars, socketVars, stateVars,
       queueVars
<1>4. ASSUME NEW s \in Sockets, CleanupDescriptorData(s)
      PROVE  Dispatching'
  BY <1>4 DEF Dispatching, CleanupDescriptorData, kernelVars, socketVars, stateVars,
       queueVars
<1>5. ASSUME NEW s \in Sockets, NEW k \in Kinds, Arrive(s, k)
      PROVE  Dispatching'
  BY <1>5 DEF Dispatching, Arrive, kernelVars, socketVars, stateVars, queueVars
<1>6. ASSUME NEW s \in Sockets, NEW d \in States, Register(s, d)
      PROVE  Dispatching'
  BY <1>6 DEF Dispatching, Register, kernelVars, socketVars, stateVars, queueVars
<1>7. ASSUME NEW t \in Threads, NEW s \in Sockets, NEW k \in Kinds, NEW size \in 1..2,
             StartsNow(t, s, k, size)
      PROVE  Dispatching'
  BY <1>7 DEF Dispatching, StartsNow, kernelVars, socketVars, stateVars, queueVars
<1>8. ASSUME NEW t \in Threads, NEW s \in Sockets, NEW k \in Kinds, NEW size \in 1..2,
             NEW direct \in BOOLEAN, StartsLater(t, s, k, size, direct)
      PROVE  Dispatching'
  BY <1>8 DEF Dispatching, Types, Idle, StartsLater, queueVars
<1>9. ASSUME NEW t \in Threads, EpollWait(t)
      PROVE  Dispatching'
  BY <1>9 DEF Dispatching, Types, Idle, EpollWait, queueVars
<1>10. ASSUME NEW t \in Threads, Dispatch(t)
      PROVE  Dispatching'
  BY <1>10 DEF Dispatching, Types, Idle, Dispatch, queueVars
<1>11. ASSUME NEW t \in Threads, Lock(t)
      PROVE  Dispatching'
  <2>1. \A u \in Threads : loc'[u].at = "dispatch" <=> loc[u].at = "dispatch"
    <3>1. \A u \in Threads : u # t => loc'[u] = loc[u]
      BY <1>11 DEF Types, Lock
    <3>2. loc'[t].at = "perform" /\ loc[t].at # "dispatch"
      BY <1>11, PlaceParts DEF Types, Lock
    <3> QED
      BY <3>1, <3>2
  <2> QED
    BY <1>11, <2>1 DEF Dispatching, Lock, queueVars
<1>12. ASSUME NEW t \in Threads, Leave(t)
      PROVE  Dispatching'
  BY <1>12 DEF Dispatching, Types, Idle, Leave, queueVars
<1>13. ASSUME NEW t \in Threads, NEW d \in States, Dequeue(t, d)
      PROVE  Dispatching'
  BY <1>13 DEF Dispatching, Types, Idle, Dequeue, queueVars
<1>14. ASSUME NEW t \in Threads, NEW k \in Kinds, Misses(t, k)
      PROVE  Dispatching'
  <2>1. \A u \in Threads : loc'[u].at = "dispatch" <=> loc[u].at = "dispatch"
    <3>1. \A u \in Threads : u # t => loc'[u] = loc[u]
      BY <1>14 DEF Types, Misses
    <3>2. loc'[t].at = "perform" /\ loc[t].at # "dispatch"
      BY <1>14, PlaceParts DEF Types, Misses
    <3> QED
      BY <3>1, <3>2
  <2> QED
    BY <1>14, <2>1 DEF Dispatching, Misses, queueVars
<1>15. ASSUME NEW t \in Threads, NEW k \in Kinds, NEW i \in DOMAIN ops, Takes(t, k, i)
      PROVE  Dispatching'
  <2>1. \A u \in Threads : loc'[u].at = loc[u].at
    BY <1>15 DEF Types, Takes, Performed
  <2> QED
    <3>1. events' = events /\ scheduled' = scheduled
      BY <1>15 DEF Takes, queueVars
    <3> QED
      BY <2>1, <3>1 DEF Dispatching
<1>16. ASSUME NEW t \in Threads, NEW i \in DOMAIN ops, NEW s \in Sockets, NEW k \in Kinds,
             Enqueues(t, i, s, k)
      PROVE  Dispatching'
  BY <1>16 DEF Dispatching, Types, Idle, Enqueues, queueVars
<1>17. ASSUME NEW i \in DOMAIN ops, RunPosted(i)
      PROVE  Dispatching'
  BY <1>17 DEF Dispatching, RunPosted, kernelVars, socketVars, stateVars, queueVars
<1>18. CASE UNCHANGED reactorVars
  BY <1>18 DEF Dispatching, reactorVars, kernelVars, socketVars, stateVars, queueVars
<1> QED
  BY <1>1, <1>2, <1>3, <1>4, <1>5, <1>6, <1>7, <1>8, <1>9, <1>10, <1>11, <1>12, <1>13,
       <1>14, <1>15, <1>16, <1>17, <1>18 DEF Step

\* A thread that starts an operation has the mutex, so nobody else does.
LEMMA StarterHas ==
  ASSUME Types, Owned, Locked, NEW t \in Threads, loc[t].at = "start"
  PROVE  LET o == ops[loc[t].op] IN
         /\ loc[t].op \in DOMAIN ops /\ o.stage = "started" /\ o.socket \in Sockets
         /\ o.kind \in Kinds /\ phase[o.socket] = "open" /\ data[o.socket] \in States
         /\ mutex_[data[o.socket]] = t /\ mutex_[data[o.socket]] # None
<1>1. /\ loc[t].op \in DOMAIN ops /\ ops[loc[t].op].stage = "started"
      /\ phase[ops[loc[t].op].socket] = "open"
      /\ mutex_[data[ops[loc[t].op].socket]] = t
  BY DEF Locked, Holds
<1>2. ops[loc[t].op].socket \in Sockets /\ ops[loc[t].op].kind \in Kinds
  BY <1>1, OpParts
<1>3. data[ops[loc[t].op].socket] \in States
  BY <1>1, <1>2, OpenHasState
<1> QED
  BY <1>1, <1>2, <1>3, ReactorAssumption

\* So does one that performs operations.
LEMMA PerformerHas ==
  ASSUME Types, Locked, NEW t \in Threads, loc[t].at = "perform"
  PROVE  /\ loc[t].state \in States /\ mutex_[loc[t].state] = t
         /\ mutex_[loc[t].state] # None
<1>1. loc[t].state \in States /\ mutex_[loc[t].state] = t
  BY PlaceParts DEF Locked, Holds
<1> QED
  BY <1>1, ReactorAssumption

\* What is started stays so until it is queued.
LEMMA StartedStays ==
  ASSUME Types, Owned, Queues, Popped, Step \/ UNCHANGED reactorVars,
         NEW n \in DOMAIN ops, ops[n].stage = "started"
  PROVE  \/ ops'[n] = ops[n]
         \/ \E t \in Threads : loc[t].at = "start" /\ loc[t].op = n /\ loc'[t] = Idle
<1>1. ASSUME NEW s \in Sockets, PeerEnds(s)
      PROVE  \/ ops'[n] = ops[n]
             \/ \E u \in Threads : loc[u].at = "start" /\ loc[u].op = n /\ loc'[u] = Idle
  BY <1>1 DEF PeerEnds, kernelVars, socketVars, stateVars, queueVars
<1>2. ASSUME NEW s \in Sockets, CancelOps(s)
      PROVE  \/ ops'[n] = ops[n]
             \/ \E u \in Threads : loc[u].at = "start" /\ loc[u].op = n /\ loc'[u] = Idle
  <2>1. n \notin Queued(data[s])
    <3>1. data[s] # None => data[s] \in States
      BY DEF Types
    <3>2. data[s] # None
      BY <1>2 DEF CancelOps, Owned
    <3> QED
      BY <3>1, <3>2 DEF Queued, Queues
  <2> QED
    BY <1>2, <2>1 DEF CancelOps, Abort
<1>3. ASSUME NEW s \in Sockets, DeregisterDescriptor(s)
      PROVE  \/ ops'[n] = ops[n]
             \/ \E u \in Threads : loc[u].at = "start" /\ loc[u].op = n /\ loc'[u] = Idle
  <2>1. n \notin Queued(data[s])
    <3>1. data[s] # None => data[s] \in States
      BY DEF Types
    <3>2. data[s] # None
      BY <1>3 DEF DeregisterDescriptor, Owned
    <3> QED
      BY <3>1, <3>2 DEF Queued, Queues
  <2> QED
    BY <1>3, <2>1 DEF DeregisterDescriptor, Abort
<1>4. ASSUME NEW s \in Sockets, CleanupDescriptorData(s)
      PROVE  \/ ops'[n] = ops[n]
             \/ \E u \in Threads : loc[u].at = "start" /\ loc[u].op = n /\ loc'[u] = Idle
  BY <1>4 DEF CleanupDescriptorData, kernelVars, socketVars, stateVars, queueVars
<1>5. ASSUME NEW s \in Sockets, NEW k \in Kinds, Arrive(s, k)
      PROVE  \/ ops'[n] = ops[n]
             \/ \E u \in Threads : loc[u].at = "start" /\ loc[u].op = n /\ loc'[u] = Idle
  BY <1>5 DEF Arrive, kernelVars, socketVars, stateVars, queueVars
<1>6. ASSUME NEW s \in Sockets, NEW d \in States, Register(s, d)
      PROVE  \/ ops'[n] = ops[n]
             \/ \E u \in Threads : loc[u].at = "start" /\ loc[u].op = n /\ loc'[u] = Idle
  BY <1>6 DEF Register, kernelVars, socketVars, stateVars, queueVars
<1>7. ASSUME NEW t \in Threads, NEW s \in Sockets, NEW k \in Kinds, NEW size \in 1..2,
             StartsNow(t, s, k, size)
      PROVE  \/ ops'[n] = ops[n]
             \/ \E u \in Threads : loc[u].at = "start" /\ loc[u].op = n /\ loc'[u] = Idle
  <2>1. Completed(NewOp(s, k, size), "posted") \in Op
    BY NewOpIsOp, CompletedIsOp
  <2> QED
    BY <1>7, <2>1, OneMoreOp DEF StartsNow
<1>8. ASSUME NEW t \in Threads, NEW s \in Sockets, NEW k \in Kinds, NEW size \in 1..2,
             NEW direct \in BOOLEAN, StartsLater(t, s, k, size, direct)
      PROVE  \/ ops'[n] = ops[n]
             \/ \E u \in Threads : loc[u].at = "start" /\ loc[u].op = n /\ loc'[u] = Idle
  BY <1>8, NewOpIsOp, OneMoreOp DEF StartsLater
<1>9. ASSUME NEW t \in Threads, EpollWait(t)
      PROVE  \/ ops'[n] = ops[n]
             \/ \E u \in Threads : loc[u].at = "start" /\ loc[u].op = n /\ loc'[u] = Idle
  BY <1>9 DEF EpollWait, kernelVars, socketVars, stateVars, queueVars
<1>10. ASSUME NEW t \in Threads, Dispatch(t)
      PROVE  \/ ops'[n] = ops[n]
             \/ \E u \in Threads : loc[u].at = "start" /\ loc[u].op = n /\ loc'[u] = Idle
  BY <1>10 DEF Dispatch, kernelVars, socketVars, stateVars, queueVars
<1>11. ASSUME NEW t \in Threads, Lock(t)
      PROVE  \/ ops'[n] = ops[n]
             \/ \E u \in Threads : loc[u].at = "start" /\ loc[u].op = n /\ loc'[u] = Idle
  BY <1>11 DEF Lock, kernelVars, socketVars, stateVars, queueVars
<1>12. ASSUME NEW t \in Threads, Leave(t)
      PROVE  \/ ops'[n] = ops[n]
             \/ \E u \in Threads : loc[u].at = "start" /\ loc[u].op = n /\ loc'[u] = Idle
  <2>1. n \notin Range(loc[t].done)
    BY <1>12 DEF Leave, Popped
  <2> QED
    BY <1>12, <2>1 DEF Leave
<1>13. ASSUME NEW t \in Threads, NEW d \in States, Dequeue(t, d)
      PROVE  \/ ops'[n] = ops[n]
             \/ \E u \in Threads : loc[u].at = "start" /\ loc[u].op = n /\ loc'[u] = Idle
  BY <1>13 DEF Dequeue, kernelVars, socketVars, stateVars, queueVars
<1>14. ASSUME NEW t \in Threads, NEW k \in Kinds, Misses(t, k)
      PROVE  \/ ops'[n] = ops[n]
             \/ \E u \in Threads : loc[u].at = "start" /\ loc[u].op = n /\ loc'[u] = Idle
  BY <1>14 DEF Misses, kernelVars, socketVars, stateVars, queueVars
<1>15. ASSUME NEW t \in Threads, NEW k \in Kinds, NEW i \in DOMAIN ops, Takes(t, k, i)
      PROVE  \/ ops'[n] = ops[n]
             \/ \E u \in Threads : loc[u].at = "start" /\ loc[u].op = n /\ loc'[u] = Idle
  <2>1. i # n
    <3>1. loc[t].state \in States
      BY <1>15, PlaceParts DEF Takes
    <3> QED
      BY <1>15, <3>1, HeadIsQueued, Zenon DEF Takes
  <2> QED
    BY <1>15, <2>1 DEF Takes
<1>16. ASSUME NEW t \in Threads, NEW i \in DOMAIN ops, NEW s \in Sockets, NEW k \in Kinds,
             Enqueues(t, i, s, k)
      PROVE  \/ ops'[n] = ops[n]
             \/ \E u \in Threads : loc[u].at = "start" /\ loc[u].op = n /\ loc'[u] = Idle
  <2>1. CASE i = n
    BY <1>16, <2>1, Zenon DEF Enqueues, Types
  <2>2. CASE i # n
    BY <1>16, <2>2, Zenon DEF Enqueues
  <2> QED
    BY <2>1, <2>2
<1>17. ASSUME NEW i \in DOMAIN ops, RunPosted(i)
      PROVE  \/ ops'[n] = ops[n]
             \/ \E u \in Threads : loc[u].at = "start" /\ loc[u].op = n /\ loc'[u] = Idle
  BY <1>17 DEF RunPosted, kernelVars, socketVars, stateVars, queueVars
<1>18. CASE UNCHANGED reactorVars
  BY <1>18 DEF reactorVars, kernelVars, socketVars, stateVars, queueVars
<1> QED
  BY <1>1, <1>2, <1>3, <1>4, <1>5, <1>6, <1>7, <1>8, <1>9, <1>10, <1>11, <1>12, <1>13,
       <1>14, <1>15, <1>16, <1>17, <1>18 DEF Step

\* Idle says where the thread is.
LEMMA IdleAt == Idle.at = "idle"
  BY DEF Idle

\* A step does not disturb a thread that has a mutex.
Undisturbed(u) ==
  /\ loc'[u].at = "start" => loc'[u] = loc[u]
  /\ loc'[u].at = "perform" => loc[u].at = "perform" /\ loc'[u].state = loc[u].state
  /\ \A d \in States : mutex_[d] = u => mutex_'[d] = u
  /\ \A s \in Sockets : phase[s] = "open" /\ mutex_[data[s]] = u =>
       phase'[s] = "open" /\ data'[s] = data[s]

\* The thread has it still.
LEMMA HoldsStays ==
  ASSUME Types, Owned, Locked, Queues, Popped, Step \/ UNCHANGED reactorVars,
         NEW u \in Threads, Undisturbed(u)
  PROVE  Holds(u)'
<1>1. ASSUME loc'[u].at = "start"
      PROVE  Holds(u)'
  <2>1. loc'[u] = loc[u] /\ loc[u].at = "start" /\ loc'[u] # Idle
    BY <1>1, IdleAt DEF Undisturbed
  <2>2. LET o == ops[loc[u].op] IN
        /\ loc[u].op \in DOMAIN ops /\ o.stage = "started" /\ o.socket \in Sockets
        /\ phase[o.socket] = "open" /\ data[o.socket] \in States
        /\ mutex_[data[o.socket]] = u
    BY <2>1, StarterHas
  <2>3. ASSUME NEW v \in Threads, loc[v].at = "start", loc[v].op = loc[u].op
        PROVE  v = u
    BY <2>2, <2>3, StarterHas
  <2>4. loc[u].op \in DOMAIN ops' /\ ops'[loc[u].op] = ops[loc[u].op]
    BY <2>1, <2>2, <2>3, OpsStay, StartedStays
  <2>5. LET s == ops[loc[u].op].socket IN
        phase'[s] = "open" /\ data'[s] = data[s] /\ mutex_'[data[s]] = u
    BY <2>2 DEF Undisturbed
  <2> QED
    BY <1>1, <2>1, <2>2, <2>4, <2>5 DEF Holds
<1>2. ASSUME loc'[u].at = "perform"
      PROVE  Holds(u)'
  <2>1. loc[u].at = "perform" /\ loc'[u].state = loc[u].state
    BY <1>2 DEF Undisturbed
  <2>2. loc[u].state \in States /\ mutex_[loc[u].state] = u
    BY <2>1, PerformerHas
  <2>3. mutex_'[loc[u].state] = u
    BY <2>2 DEF Undisturbed
  <2> QED
    BY <1>2, <2>1, <2>3 DEF Holds
<1> QED
  BY <1>1, <1>2 DEF Holds

\* Every step keeps who has a mutex.
LEMMA LockedKept ==
  ASSUME Types, Owned, Locked, Queues, Popped, Step \/ UNCHANGED reactorVars
  PROVE  Locked'
<1>1. ASSUME NEW s \in Sockets, PeerEnds(s)
      PROVE  Locked'
  <2> SUFFICES ASSUME NEW u \in Threads PROVE Holds(u)'
    BY DEF Locked
  <2>1. Undisturbed(u)
    <3>1. /\ loc'[u].at = "start" => loc'[u] = loc[u]
          /\ loc'[u].at = "perform" => loc[u].at = "perform" /\ loc'[u].state = loc[u].state
      BY <1>1, IdleAt DEF Types, PeerEnds
    <3>2. \A d \in States : mutex_[d] = u => mutex_'[d] = u
      BY <1>1 DEF PeerEnds, stateVars
    <3>3. \A r \in Sockets : phase[r] = "open" /\ mutex_[data[r]] = u =>
            phase'[r] = "open" /\ data'[r] = data[r]
      BY <1>1 DEF PeerEnds, socketVars
    <3> QED
      BY <3>1, <3>2, <3>3 DEF Undisturbed
  <2> QED
    BY <1>1, <2>1, HoldsStays DEF Step
<1>2. ASSUME NEW s \in Sockets, CancelOps(s)
      PROVE  Locked'
  <2> SUFFICES ASSUME NEW u \in Threads PROVE Holds(u)'
    BY DEF Locked
  <2>1. Undisturbed(u)
    <3>1. /\ loc'[u].at = "start" => loc'[u] = loc[u]
          /\ loc'[u].at = "perform" => loc[u].at = "perform" /\ loc'[u].state = loc[u].state
      BY <1>2, IdleAt DEF Types, CancelOps
    <3>2. \A d \in States : mutex_[d] = u => mutex_'[d] = u
      BY <1>2 DEF CancelOps
    <3>3. \A r \in Sockets : phase[r] = "open" /\ mutex_[data[r]] = u =>
            phase'[r] = "open" /\ data'[r] = data[r]
      BY <1>2 DEF CancelOps, socketVars
    <3> QED
      BY <3>1, <3>2, <3>3 DEF Undisturbed
  <2> QED
    BY <1>2, <2>1, HoldsStays DEF Step
<1>3. ASSUME NEW s \in Sockets, DeregisterDescriptor(s)
      PROVE  Locked'
  <2> SUFFICES ASSUME NEW u \in Threads PROVE Holds(u)'
    BY DEF Locked
  <2>1. Undisturbed(u)
    <3>1. /\ loc'[u].at = "start" => loc'[u] = loc[u]
          /\ loc'[u].at = "perform" => loc[u].at = "perform" /\ loc'[u].state = loc[u].state
      BY <1>3 DEF DeregisterDescriptor
    <3>2. \A d \in States : mutex_[d] = u => mutex_'[d] = u
      BY <1>3 DEF DeregisterDescriptor
    <3>3. \A r \in Sockets : phase[r] = "open" /\ mutex_[data[r]] = u =>
            phase'[r] = "open" /\ data'[r] = data[r]
      BY <1>3, ReactorAssumption DEF Types, DeregisterDescriptor, Abort
    <3> QED
      BY <3>1, <3>2, <3>3 DEF Undisturbed
  <2> QED
    BY <1>3, <2>1, HoldsStays DEF Step
<1>4. ASSUME NEW s \in Sockets, CleanupDescriptorData(s)
      PROVE  Locked'
  <2> SUFFICES ASSUME NEW u \in Threads PROVE Holds(u)'
    BY DEF Locked
  <2>1. Undisturbed(u)
    <3>1. /\ loc'[u].at = "start" => loc'[u] = loc[u]
          /\ loc'[u].at = "perform" => loc[u].at = "perform" /\ loc'[u].state = loc[u].state
      BY <1>4 DEF CleanupDescriptorData
    <3>2. \A d \in States : mutex_[d] = u => mutex_'[d] = u
      BY <1>4 DEF CleanupDescriptorData, stateVars
    <3>3. \A r \in Sockets : phase[r] = "open" /\ mutex_[data[r]] = u =>
            phase'[r] = "open" /\ data'[r] = data[r]
      BY <1>4 DEF Types, CleanupDescriptorData
    <3> QED
      BY <3>1, <3>2, <3>3 DEF Undisturbed
  <2> QED
    BY <1>4, <2>1, HoldsStays DEF Step
<1>5. ASSUME NEW s \in Sockets, NEW k \in Kinds, Arrive(s, k)
      PROVE  Locked'
  <2> SUFFICES ASSUME NEW u \in Threads PROVE Holds(u)'
    BY DEF Locked
  <2>1. Undisturbed(u)
    <3>1. /\ loc'[u].at = "start" => loc'[u] = loc[u]
          /\ loc'[u].at = "perform" => loc[u].at = "perform" /\ loc'[u].state = loc[u].state
      BY <1>5, IdleAt DEF Types, Arrive
    <3>2. \A d \in States : mutex_[d] = u => mutex_'[d] = u
      BY <1>5 DEF Arrive, stateVars
    <3>3. \A r \in Sockets : phase[r] = "open" /\ mutex_[data[r]] = u =>
            phase'[r] = "open" /\ data'[r] = data[r]
      BY <1>5 DEF Arrive, socketVars
    <3> QED
      BY <3>1, <3>2, <3>3 DEF Undisturbed
  <2> QED
    BY <1>5, <2>1, HoldsStays DEF Step
<1>6. ASSUME NEW s \in Sockets, NEW d \in States, Register(s, d)
      PROVE  Locked'
  <2> SUFFICES ASSUME NEW u \in Threads PROVE Holds(u)'
    BY DEF Locked
  <2>1. Undisturbed(u)
    <3>1. /\ loc'[u].at = "start" => loc'[u] = loc[u]
          /\ loc'[u].at = "perform" => loc[u].at = "perform" /\ loc'[u].state = loc[u].state
      BY <1>6 DEF Register
    <3>2. \A e \in States : mutex_[e] = u => mutex_'[e] = u
      BY <1>6 DEF Register
    <3>3. \A r \in Sockets : phase[r] = "open" /\ mutex_[data[r]] = u =>
            phase'[r] = "open" /\ data'[r] = data[r]
      BY <1>6 DEF Types, Register
    <3> QED
      BY <3>1, <3>2, <3>3 DEF Undisturbed
  <2> QED
    BY <1>6, <2>1, HoldsStays DEF Step
<1>7. ASSUME NEW t \in Threads, NEW s \in Sockets, NEW k \in Kinds, NEW size \in 1..2,
             StartsNow(t, s, k, size)
      PROVE  Locked'
  <2> SUFFICES ASSUME NEW u \in Threads PROVE Holds(u)'
    BY DEF Locked
  <2>1. Undisturbed(u)
    <3>1. /\ loc'[u].at = "start" => loc'[u] = loc[u]
          /\ loc'[u].at = "perform" => loc[u].at = "perform" /\ loc'[u].state = loc[u].state
      BY <1>7, IdleAt DEF Types, StartsNow
    <3>2. \A d \in States : mutex_[d] = u => mutex_'[d] = u
      BY <1>7 DEF StartsNow
    <3>3. \A r \in Sockets : phase[r] = "open" /\ mutex_[data[r]] = u =>
            phase'[r] = "open" /\ data'[r] = data[r]
      BY <1>7 DEF StartsNow, socketVars
    <3> QED
      BY <3>1, <3>2, <3>3 DEF Undisturbed
  <2> QED
    BY <1>7, <2>1, HoldsStays DEF Step
<1>8. ASSUME NEW t \in Threads, NEW s \in Sockets, NEW k \in Kinds, NEW size \in 1..2,
             NEW direct \in BOOLEAN, StartsLater(t, s, k, size, direct)
      PROVE  Locked'
  <2> SUFFICES ASSUME NEW u \in Threads PROVE Holds(u)'
    BY DEF Locked
  <2>1. /\ data[s] \in States /\ mutex_[data[s]] = None
        /\ mutex_' = [mutex_ EXCEPT ![data[s]] = t]
    BY <1>8, OpenHasState DEF StartsLater
  <2>2. CASE u = t
    <3>1. loc'[u].at = "start" /\ loc'[u].op = Len(ops) + 1
      BY <1>8, <2>2 DEF StartsLater, Types
    <3>2. phase'[s] = "open" /\ mutex_'[data'[s]] = t
      BY <1>8, <2>1 DEF StartsLater, Types, socketVars
    <3>3. /\ Len(ops) + 1 \in DOMAIN ops'
          /\ ops'[Len(ops) + 1].stage = "started" /\ ops'[Len(ops) + 1].socket = s
      BY <1>8, NewOpIsOp, OneMoreOp DEF StartsLater
    <3> QED
      BY <2>2, <3>1, <3>2, <3>3 DEF Holds
  <2>3. CASE u # t
    <3>1. loc'[u] = loc[u] /\ phase' = phase /\ data' = data
      BY <1>8, <2>3 DEF StartsLater, Types, socketVars
    <3>2. \A d \in States : mutex_[d] = u => mutex_'[d] = u
      BY <2>1, ReactorAssumption DEF Types
    <3>3. Undisturbed(u)
      BY <3>1, <3>2 DEF Undisturbed
    <3> QED
      BY <1>8, <3>3, HoldsStays DEF Step
  <2> QED
    BY <2>2, <2>3
<1>9. ASSUME NEW t \in Threads, EpollWait(t)
      PROVE  Locked'
  <2> SUFFICES ASSUME NEW u \in Threads PROVE Holds(u)'
    BY DEF Locked
  <2>1. Undisturbed(u)
    <3>1. /\ loc'[u].at = "start" => loc'[u] = loc[u]
          /\ loc'[u].at = "perform" => loc[u].at = "perform" /\ loc'[u].state = loc[u].state
      BY <1>9, IdleAt DEF Types, EpollWait
    <3>2. \A d \in States : mutex_[d] = u => mutex_'[d] = u
      BY <1>9 DEF EpollWait, stateVars
    <3>3. \A s \in Sockets : phase[s] = "open" /\ mutex_[data[s]] = u =>
            phase'[s] = "open" /\ data'[s] = data[s]
      BY <1>9 DEF EpollWait, socketVars
    <3> QED
      BY <3>1, <3>2, <3>3 DEF Undisturbed
  <2> QED
    BY <1>9, <2>1, HoldsStays DEF Step
<1>10. ASSUME NEW t \in Threads, Dispatch(t)
      PROVE  Locked'
  <2> SUFFICES ASSUME NEW u \in Threads PROVE Holds(u)'
    BY DEF Locked
  <2>1. Undisturbed(u)
    <3>1. /\ loc'[u].at = "start" => loc'[u] = loc[u]
          /\ loc'[u].at = "perform" => loc[u].at = "perform" /\ loc'[u].state = loc[u].state
      BY <1>10, IdleAt DEF Types, Dispatch
    <3>2. \A d \in States : mutex_[d] = u => mutex_'[d] = u
      BY <1>10 DEF Dispatch, stateVars
    <3>3. \A s \in Sockets : phase[s] = "open" /\ mutex_[data[s]] = u =>
            phase'[s] = "open" /\ data'[s] = data[s]
      BY <1>10 DEF Dispatch, socketVars
    <3> QED
      BY <3>1, <3>2, <3>3 DEF Undisturbed
  <2> QED
    BY <1>10, <2>1, HoldsStays DEF Step
<1>11. ASSUME NEW t \in Threads, Lock(t)
      PROVE  Locked'
  <2> SUFFICES ASSUME NEW u \in Threads PROVE Holds(u)'
    BY DEF Locked
  <2>1. /\ loc[t].state \in States /\ mutex_[loc[t].state] = None
        /\ mutex_' = [mutex_ EXCEPT ![loc[t].state] = t]
        /\ loc'[t].at = "perform" /\ loc'[t].state = loc[t].state
    BY <1>11, PlaceParts DEF Lock, Types
  <2>2. CASE u = t
    BY <2>1, <2>2 DEF Holds, Types
  <2>3. CASE u # t
    <3>1. loc'[u] = loc[u] /\ phase' = phase /\ data' = data
      BY <1>11, <2>3 DEF Lock, Types, socketVars
    <3>2. \A d \in States : mutex_[d] = u => mutex_'[d] = u
      BY <2>1, ReactorAssumption DEF Types
    <3>3. Undisturbed(u)
      BY <3>1, <3>2 DEF Undisturbed
    <3> QED
      BY <1>11, <3>3, HoldsStays DEF Step
  <2> QED
    BY <2>2, <2>3
<1>12. ASSUME NEW t \in Threads, Leave(t)
      PROVE  Locked'
  <2> SUFFICES ASSUME NEW u \in Threads PROVE Holds(u)'
    BY DEF Locked
  <2>2. CASE u = t
    <3>1. loc'[u].at = "idle"
      BY <1>12, <2>2, IdleAt DEF Leave, Types
    <3> QED
      BY <3>1 DEF Holds
  <2>1. CASE u # t
    <3>1. loc'[u] = loc[u] /\ phase' = phase /\ data' = data
      BY <1>12, <2>1 DEF Leave, Types, socketVars
    <3>2. mutex_[loc[t].state] = t /\ loc[t].state \in States
      BY <1>12, PerformerHas DEF Leave
    <3>3. \A d \in States : mutex_[d] = u => mutex_'[d] = u
      BY <1>12, <2>1, <3>2 DEF Leave, Types
    <3>4. Undisturbed(u)
      BY <3>1, <3>3 DEF Undisturbed
    <3> QED
      BY <1>12, <3>4, HoldsStays DEF Step
  <2> QED
    BY <2>1, <2>2
<1>13. ASSUME NEW t \in Threads, NEW d \in States, Dequeue(t, d)
      PROVE  Locked'
  <2> SUFFICES ASSUME NEW u \in Threads PROVE Holds(u)'
    BY DEF Locked
  <2>1. Undisturbed(u)
    <3>1. /\ loc'[u].at = "start" => loc'[u] = loc[u]
          /\ loc'[u].at = "perform" => loc[u].at = "perform" /\ loc'[u].state = loc[u].state
      BY <1>13, IdleAt DEF Types, Dequeue
    <3>2. \A e \in States : mutex_[e] = u => mutex_'[e] = u
      BY <1>13 DEF Dequeue, stateVars
    <3>3. \A s \in Sockets : phase[s] = "open" /\ mutex_[data[s]] = u =>
            phase'[s] = "open" /\ data'[s] = data[s]
      BY <1>13 DEF Dequeue, socketVars
    <3> QED
      BY <3>1, <3>2, <3>3 DEF Undisturbed
  <2> QED
    BY <1>13, <2>1, HoldsStays DEF Step
<1>14. ASSUME NEW t \in Threads, NEW k \in Kinds, Misses(t, k)
      PROVE  Locked'
  <2> SUFFICES ASSUME NEW u \in Threads PROVE Holds(u)'
    BY DEF Locked
  <2>1. Undisturbed(u)
    <3>1. /\ loc'[u].at = "start" => loc'[u] = loc[u]
          /\ loc'[u].at = "perform" => loc[u].at = "perform" /\ loc'[u].state = loc[u].state
      BY <1>14, IdleAt DEF Types, Misses
    <3>2. \A d \in States : mutex_[d] = u => mutex_'[d] = u
      BY <1>14 DEF Misses
    <3>3. \A s \in Sockets : phase[s] = "open" /\ mutex_[data[s]] = u =>
            phase'[s] = "open" /\ data'[s] = data[s]
      BY <1>14 DEF Misses, socketVars
    <3> QED
      BY <3>1, <3>2, <3>3 DEF Undisturbed
  <2> QED
    BY <1>14, <2>1, HoldsStays DEF Step
<1>15. ASSUME NEW t \in Threads, NEW k \in Kinds, NEW i \in DOMAIN ops, Takes(t, k, i)
      PROVE  Locked'
  <2> SUFFICES ASSUME NEW u \in Threads PROVE Holds(u)'
    BY DEF Locked
  <2>1. Undisturbed(u)
    <3>1. /\ loc'[u].at = "start" => loc'[u] = loc[u]
          /\ loc'[u].at = "perform" => loc[u].at = "perform" /\ loc'[u].state = loc[u].state
      BY <1>15, PlaceParts DEF Types, Takes, Performed
    <3>2. \A d \in States : mutex_[d] = u => mutex_'[d] = u
      BY <1>15 DEF Takes
    <3>3. \A s \in Sockets : phase[s] = "open" /\ mutex_[data[s]] = u =>
            phase'[s] = "open" /\ data'[s] = data[s]
      BY <1>15 DEF Takes, socketVars
    <3> QED
      BY <3>1, <3>2, <3>3 DEF Undisturbed
  <2> QED
    BY <1>15, <2>1, HoldsStays DEF Step
<1>16. ASSUME NEW t \in Threads, NEW i \in DOMAIN ops, NEW s \in Sockets, NEW k \in Kinds,
             Enqueues(t, i, s, k)
      PROVE  Locked'
  <2> SUFFICES ASSUME NEW u \in Threads PROVE Holds(u)'
    BY DEF Locked
  <2>2. CASE u = t
    <3>1. loc'[u].at = "idle"
      BY <1>16, <2>2, IdleAt DEF Enqueues, Types
    <3> QED
      BY <3>1 DEF Holds
  <2>1. CASE u # t
    <3>1. loc'[u] = loc[u] /\ phase' = phase /\ data' = data
      BY <1>16, <2>1 DEF Enqueues, Types, socketVars
    <3>2. mutex_[data[s]] = t /\ data[s] \in States
      BY <1>16, StarterHas, Zenon DEF Enqueues
    <3>3. \A d \in States : mutex_[d] = u => mutex_'[d] = u
      BY <1>16, <2>1, <3>2 DEF Enqueues, Types
    <3>4. Undisturbed(u)
      BY <3>1, <3>3 DEF Undisturbed
    <3> QED
      BY <1>16, <3>4, HoldsStays DEF Step
  <2> QED
    BY <2>1, <2>2
<1>17. ASSUME NEW i \in DOMAIN ops, RunPosted(i)
      PROVE  Locked'
  <2> SUFFICES ASSUME NEW u \in Threads PROVE Holds(u)'
    BY DEF Locked
  <2>1. Undisturbed(u)
    <3>1. /\ loc'[u].at = "start" => loc'[u] = loc[u]
          /\ loc'[u].at = "perform" => loc[u].at = "perform" /\ loc'[u].state = loc[u].state
      BY <1>17, IdleAt DEF Types, RunPosted
    <3>2. \A d \in States : mutex_[d] = u => mutex_'[d] = u
      BY <1>17 DEF RunPosted, stateVars
    <3>3. \A s \in Sockets : phase[s] = "open" /\ mutex_[data[s]] = u =>
            phase'[s] = "open" /\ data'[s] = data[s]
      BY <1>17 DEF RunPosted, socketVars
    <3> QED
      BY <3>1, <3>2, <3>3 DEF Undisturbed
  <2> QED
    BY <1>17, <2>1, HoldsStays DEF Step
<1>18. CASE UNCHANGED reactorVars
  BY <1>18 DEF Locked, Holds, reactorVars, kernelVars, socketVars, stateVars, queueVars
<1> QED
  BY <1>1, <1>2, <1>3, <1>4, <1>5, <1>6, <1>7, <1>8, <1>9, <1>10, <1>11, <1>12, <1>13,
       <1>14, <1>15, <1>16, <1>17, <1>18 DEF Step

-----------------------------------------------------------------------------
(* How far an operation is.                                                *)

\* An operation stays as it is, or goes to its next stage.
Moves(n) ==
  \/ ops'[n] = ops[n]
  \/ ops[n].stage = "started" /\ ops'[n].stage = "queued" /\ ops'[n].rank = ops[n].rank
  \/ ops[n].stage = "queued" /\ ops'[n].stage = "posted" /\ ops'[n].rank = ops[n].rank
  \/ ops[n].stage = "queued" /\ ops'[n].stage = "popped" /\ ops'[n].rank # 0
  \/ ops[n].stage = "popped" /\ ops'[n].stage \in {"posted", "done"}
       /\ ops'[n].rank = ops[n].rank
  \/ ops[n].stage = "posted" /\ ops'[n].stage = "done" /\ ops'[n].rank = ops[n].rank

\* What the change of a stage leaves alone.
LEMMA StageChanged ==
  ASSUME NEW o \in Op, NEW g
  PROVE  /\ [o EXCEPT !.stage = g].stage = g /\ [o EXCEPT !.stage = g].rank = o.rank
         /\ [o EXCEPT !.stage = g].socket = o.socket /\ [o EXCEPT !.stage = g].kind = o.kind
  BY DEF Op

\* What is in the queues of a descriptor_state is queued.
LEMMA QueuedIsQueued ==
  ASSUME Types, Queues, NEW d \in States
  PROVE  \A n \in Queued(d) : n \in DOMAIN ops /\ ops[n].stage = "queued"
                               /\ data[ops[n].socket] = d
  BY DEF Queued, Queues

\* Every operation moves so.
LEMMA OpsMove ==
  ASSUME Types, Owned, Locked, Queues, Popped, NEW n \in DOMAIN ops,
         Step \/ UNCHANGED reactorVars
  PROVE  Moves(n)
<1>1. ASSUME NEW s \in Sockets, PeerEnds(s)
      PROVE  Moves(n)
  BY <1>1 DEF Moves, PeerEnds, kernelVars, socketVars, stateVars, queueVars
<1>2. ASSUME NEW s \in Sockets, CancelOps(s)
      PROVE  Moves(n)
  <2>1. data[s] \in States
    BY <1>2, OpenHasState DEF CancelOps
  <2>2. ops'[n] = IF n \in Queued(data[s]) THEN [ops[n] EXCEPT !.stage = "posted"]
                  ELSE ops[n]
    BY <1>2 DEF CancelOps, Abort
  <2> QED
    BY <2>1, <2>2, OpParts, StageChanged, QueuedIsQueued DEF Moves
<1>3. ASSUME NEW s \in Sockets, DeregisterDescriptor(s)
      PROVE  Moves(n)
  <2>1. data[s] \in States
    BY <1>3, OpenHasState DEF DeregisterDescriptor
  <2>2. ops'[n] = IF n \in Queued(data[s]) THEN [ops[n] EXCEPT !.stage = "posted"]
                  ELSE ops[n]
    BY <1>3 DEF DeregisterDescriptor, Abort
  <2> QED
    BY <2>1, <2>2, OpParts, StageChanged, QueuedIsQueued DEF Moves
<1>4. ASSUME NEW s \in Sockets, CleanupDescriptorData(s)
      PROVE  Moves(n)
  BY <1>4 DEF Moves, CleanupDescriptorData, kernelVars, socketVars, stateVars, queueVars
<1>5. ASSUME NEW s \in Sockets, NEW k \in Kinds, Arrive(s, k)
      PROVE  Moves(n)
  BY <1>5 DEF Moves, Arrive, kernelVars, socketVars, stateVars, queueVars
<1>6. ASSUME NEW s \in Sockets, NEW d \in States, Register(s, d)
      PROVE  Moves(n)
  BY <1>6 DEF Moves, Register, kernelVars, socketVars, stateVars, queueVars
<1>7. ASSUME NEW t \in Threads, NEW s \in Sockets, NEW k \in Kinds, NEW size \in 1..2,
             StartsNow(t, s, k, size)
      PROVE  Moves(n)
  <2>1. Completed(NewOp(s, k, size), "posted") \in Op
    BY NewOpIsOp, CompletedIsOp
  <2> QED
    BY <1>7, <2>1, OneMoreOp DEF StartsNow, Moves
<1>8. ASSUME NEW t \in Threads, NEW s \in Sockets, NEW k \in Kinds, NEW size \in 1..2,
             NEW direct \in BOOLEAN, StartsLater(t, s, k, size, direct)
      PROVE  Moves(n)
  BY <1>8, NewOpIsOp, OneMoreOp DEF StartsLater, Moves
<1>9. ASSUME NEW t \in Threads, EpollWait(t)
      PROVE  Moves(n)
  BY <1>9 DEF Moves, EpollWait, kernelVars, socketVars, stateVars, queueVars
<1>10. ASSUME NEW t \in Threads, Dispatch(t)
      PROVE  Moves(n)
  BY <1>10 DEF Moves, Dispatch, kernelVars, socketVars, stateVars, queueVars
<1>11. ASSUME NEW t \in Threads, Lock(t)
      PROVE  Moves(n)
  BY <1>11 DEF Moves, Lock, kernelVars, socketVars, stateVars, queueVars
<1>12. ASSUME NEW t \in Threads, Leave(t)
      PROVE  Moves(n)
  <2>1. n \in Range(loc[t].done) => ops[n].stage = "popped"
    BY <1>12 DEF Leave, Popped
  <2>2. \E g \in {"done", "posted"} :
          ops'[n] = IF n \in Range(loc[t].done) THEN [ops[n] EXCEPT !.stage = g] ELSE ops[n]
    BY <1>12 DEF Leave
  <2> QED
    BY <2>1, <2>2, OpParts, StageChanged DEF Moves
<1>13. ASSUME NEW t \in Threads, NEW d \in States, Dequeue(t, d)
      PROVE  Moves(n)
  BY <1>13 DEF Moves, Dequeue, kernelVars, socketVars, stateVars, queueVars
<1>14. ASSUME NEW t \in Threads, NEW k \in Kinds, Misses(t, k)
      PROVE  Moves(n)
  BY <1>14 DEF Moves, Misses, kernelVars, socketVars, stateVars, queueVars
<1>15. ASSUME NEW t \in Threads, NEW k \in Kinds, NEW i \in DOMAIN ops, Takes(t, k, i)
      PROVE  Moves(n)
  <2>1. loc[t].state \in States
    BY <1>15, PlaceParts DEF Takes
  <2>5. op_queue_[loc[t].state][k] # << >> /\ i = Head(op_queue_[loc[t].state][k])
    BY <1>15 DEF Takes
  <2>2. ops[i].stage = "queued"
    BY <2>1, <2>5, HeadIsQueued
  <2>3. ops'[n] = IF n = i THEN Completed(ops[i], "popped") ELSE ops[n]
    BY <1>15 DEF Takes
  <2>4. Completed(ops[i], "popped").stage = "popped" /\ Completed(ops[i], "popped").rank # 0
    BY OpParts, CompletedIsOp
  <2> QED
    BY <2>2, <2>3, <2>4 DEF Moves
<1>16. ASSUME NEW t \in Threads, NEW i \in DOMAIN ops, NEW s \in Sockets, NEW k \in Kinds,
             Enqueues(t, i, s, k)
      PROVE  Moves(n)
  <2>1. ops[i].stage = "started"
    BY <1>16, StarterHas, Zenon DEF Enqueues
  <2>2. ops'[n] = IF n = i THEN [ops[i] EXCEPT !.stage = "queued"] ELSE ops[n]
    BY <1>16, Zenon DEF Enqueues
  <2> QED
    BY <2>1, <2>2, OpParts, StageChanged DEF Moves
<1>17. ASSUME NEW i \in DOMAIN ops, RunPosted(i)
      PROVE  Moves(n)
  <2>1. ops'[n] = IF n = i THEN [ops[i] EXCEPT !.stage = "done"] ELSE ops[n]
    BY <1>17 DEF RunPosted
  <2> QED
    BY <1>17, <2>1, OpParts, StageChanged DEF RunPosted, Moves
<1>18. CASE UNCHANGED reactorVars
  BY <1>18 DEF Moves, reactorVars, kernelVars, socketVars, stateVars, queueVars
<1> QED
  BY <1>1, <1>2, <1>3, <1>4, <1>5, <1>6, <1>7, <1>8, <1>9, <1>10, <1>11, <1>12, <1>13,
       <1>14, <1>15, <1>16, <1>17, <1>18 DEF Step

\* A new operation is started, or it was completed at once.
LEMMA OpsNew ==
  ASSUME Types, Step \/ UNCHANGED reactorVars
  PROVE  \A n \in DOMAIN ops' \ DOMAIN ops :
          ops'[n].stage = "started" \/ ops'[n].stage = "posted"
<1>1. ASSUME NEW s \in Sockets, PeerEnds(s)
      PROVE  \A n \in DOMAIN ops' \ DOMAIN ops :
              ops'[n].stage = "started" \/ ops'[n].stage = "posted"
  BY <1>1 DEF PeerEnds, kernelVars, socketVars, stateVars, queueVars
<1>2. ASSUME NEW s \in Sockets, CancelOps(s)
      PROVE  \A n \in DOMAIN ops' \ DOMAIN ops :
              ops'[n].stage = "started" \/ ops'[n].stage = "posted"
  BY <1>2 DEF CancelOps, Abort
<1>3. ASSUME NEW s \in Sockets, DeregisterDescriptor(s)
      PROVE  \A n \in DOMAIN ops' \ DOMAIN ops :
              ops'[n].stage = "started" \/ ops'[n].stage = "posted"
  BY <1>3 DEF DeregisterDescriptor, Abort
<1>4. ASSUME NEW s \in Sockets, CleanupDescriptorData(s)
      PROVE  \A n \in DOMAIN ops' \ DOMAIN ops :
              ops'[n].stage = "started" \/ ops'[n].stage = "posted"
  BY <1>4 DEF CleanupDescriptorData, kernelVars, socketVars, stateVars, queueVars
<1>5. ASSUME NEW s \in Sockets, NEW k \in Kinds, Arrive(s, k)
      PROVE  \A n \in DOMAIN ops' \ DOMAIN ops :
              ops'[n].stage = "started" \/ ops'[n].stage = "posted"
  BY <1>5 DEF Arrive, kernelVars, socketVars, stateVars, queueVars
<1>6. ASSUME NEW s \in Sockets, NEW d \in States, Register(s, d)
      PROVE  \A n \in DOMAIN ops' \ DOMAIN ops :
              ops'[n].stage = "started" \/ ops'[n].stage = "posted"
  BY <1>6 DEF Register, kernelVars, socketVars, stateVars, queueVars
<1>7. ASSUME NEW t \in Threads, NEW s \in Sockets, NEW k \in Kinds, NEW size \in 1..2,
             StartsNow(t, s, k, size)
      PROVE  \A n \in DOMAIN ops' \ DOMAIN ops :
              ops'[n].stage = "started" \/ ops'[n].stage = "posted"
  <2>1. /\ Completed(NewOp(s, k, size), "posted") \in Op
        /\ Completed(NewOp(s, k, size), "posted").stage = "posted"
    BY NewOpIsOp, CompletedIsOp
  <2> QED
    BY <1>7, <2>1, OneMoreOp DEF StartsNow
<1>8. ASSUME NEW t \in Threads, NEW s \in Sockets, NEW k \in Kinds, NEW size \in 1..2,
             NEW direct \in BOOLEAN, StartsLater(t, s, k, size, direct)
      PROVE  \A n \in DOMAIN ops' \ DOMAIN ops :
              ops'[n].stage = "started" \/ ops'[n].stage = "posted"
  BY <1>8, NewOpIsOp, OneMoreOp DEF StartsLater
<1>9. ASSUME NEW t \in Threads, EpollWait(t)
      PROVE  \A n \in DOMAIN ops' \ DOMAIN ops :
              ops'[n].stage = "started" \/ ops'[n].stage = "posted"
  BY <1>9 DEF EpollWait, kernelVars, socketVars, stateVars, queueVars
<1>10. ASSUME NEW t \in Threads, Dispatch(t)
      PROVE  \A n \in DOMAIN ops' \ DOMAIN ops :
              ops'[n].stage = "started" \/ ops'[n].stage = "posted"
  BY <1>10 DEF Dispatch, kernelVars, socketVars, stateVars, queueVars
<1>11. ASSUME NEW t \in Threads, Lock(t)
      PROVE  \A n \in DOMAIN ops' \ DOMAIN ops :
              ops'[n].stage = "started" \/ ops'[n].stage = "posted"
  BY <1>11 DEF Lock, kernelVars, socketVars, stateVars, queueVars
<1>12. ASSUME NEW t \in Threads, Leave(t)
      PROVE  \A n \in DOMAIN ops' \ DOMAIN ops :
              ops'[n].stage = "started" \/ ops'[n].stage = "posted"
  BY <1>12 DEF Leave, kernelVars, socketVars, stateVars, queueVars
<1>13. ASSUME NEW t \in Threads, NEW d \in States, Dequeue(t, d)
      PROVE  \A n \in DOMAIN ops' \ DOMAIN ops :
              ops'[n].stage = "started" \/ ops'[n].stage = "posted"
  BY <1>13 DEF Dequeue, kernelVars, socketVars, stateVars, queueVars
<1>14. ASSUME NEW t \in Threads, NEW k \in Kinds, Misses(t, k)
      PROVE  \A n \in DOMAIN ops' \ DOMAIN ops :
              ops'[n].stage = "started" \/ ops'[n].stage = "posted"
  BY <1>14 DEF Misses, kernelVars, socketVars, stateVars, queueVars
<1>15. ASSUME NEW t \in Threads, NEW k \in Kinds, NEW i \in DOMAIN ops, Takes(t, k, i)
      PROVE  \A n \in DOMAIN ops' \ DOMAIN ops :
              ops'[n].stage = "started" \/ ops'[n].stage = "posted"
  BY <1>15 DEF Takes, kernelVars, socketVars, stateVars, queueVars
<1>16. ASSUME NEW t \in Threads, NEW i \in DOMAIN ops, NEW s \in Sockets, NEW k \in Kinds,
             Enqueues(t, i, s, k)
      PROVE  \A n \in DOMAIN ops' \ DOMAIN ops :
              ops'[n].stage = "started" \/ ops'[n].stage = "posted"
  BY <1>16, Zenon DEF Enqueues, kernelVars, socketVars, stateVars, queueVars
<1>17. ASSUME NEW i \in DOMAIN ops, RunPosted(i)
      PROVE  \A n \in DOMAIN ops' \ DOMAIN ops :
              ops'[n].stage = "started" \/ ops'[n].stage = "posted"
  BY <1>17 DEF RunPosted, kernelVars, socketVars, stateVars, queueVars
<1>18. CASE UNCHANGED reactorVars
  BY <1>18 DEF reactorVars, kernelVars, socketVars, stateVars, queueVars
<1> QED
  BY <1>1, <1>2, <1>3, <1>4, <1>5, <1>6, <1>7, <1>8, <1>9, <1>10, <1>11, <1>12, <1>13,
       <1>14, <1>15, <1>16, <1>17, <1>18 DEF Step

\* What a thread has popped stays popped while it performs operations.
LEMMA PoppedStays ==
  ASSUME Types, Owned, Locked, Queues, Popped, Step \/ UNCHANGED reactorVars,
         NEW u \in Threads, loc[u].at = "perform", loc'[u].at = "perform",
         NEW n \in Range(loc[u].done)
  PROVE  n \in DOMAIN ops' /\ ops'[n].stage = "popped"
<1>1. n \in DOMAIN ops /\ ops[n].stage = "popped"
  BY DEF Popped
<1>2. n \in DOMAIN ops' /\ Moves(n)
  BY <1>1, OpsMove, OpsStay
<1>3. ASSUME NEW t \in Threads, Leave(t)
      PROVE  ops'[n] = ops[n]
  <2>1. t # u /\ loc[t].at = "perform"
    BY <1>3, IdleAt DEF Leave, Types
  <2>2. n \notin Range(loc[t].done)
    BY <2>1 DEF Popped
  <2> QED
    BY <1>1, <1>3, <2>2 DEF Leave
<1>4. ASSUME NEW s \in Sockets, PeerEnds(s)
      PROVE  ops'[n] = ops[n]
  BY <1>4 DEF PeerEnds, kernelVars, socketVars, stateVars, queueVars
<1>5. ASSUME NEW s \in Sockets, CancelOps(s)
      PROVE  ops'[n] = ops[n]
  <2>1. n \notin Queued(data[s])
    BY <1>5, <1>1, OpenHasState, QueuedIsQueued DEF CancelOps
  <2> QED
    BY <1>5, <1>1, <2>1 DEF CancelOps, Abort
<1>6. ASSUME NEW s \in Sockets, DeregisterDescriptor(s)
      PROVE  ops'[n] = ops[n]
  <2>1. n \notin Queued(data[s])
    BY <1>6, <1>1, OpenHasState, QueuedIsQueued DEF DeregisterDescriptor
  <2> QED
    BY <1>6, <1>1, <2>1 DEF DeregisterDescriptor, Abort
<1>7. ASSUME NEW s \in Sockets, CleanupDescriptorData(s)
      PROVE  ops'[n] = ops[n]
  BY <1>7 DEF CleanupDescriptorData, kernelVars, socketVars, stateVars, queueVars
<1>8. ASSUME NEW s \in Sockets, NEW k \in Kinds, Arrive(s, k)
      PROVE  ops'[n] = ops[n]
  BY <1>8 DEF Arrive, kernelVars, socketVars, stateVars, queueVars
<1>9. ASSUME NEW s \in Sockets, NEW d \in States, Register(s, d)
      PROVE  ops'[n] = ops[n]
  BY <1>9 DEF Register, kernelVars, socketVars, stateVars, queueVars
<1>10. ASSUME NEW t \in Threads, NEW s \in Sockets, NEW k \in Kinds, NEW size \in 1..2,
             StartsNow(t, s, k, size)
      PROVE  ops'[n] = ops[n]
  <2>1. Completed(NewOp(s, k, size), "posted") \in Op
    BY NewOpIsOp, CompletedIsOp
  <2> QED
    BY <1>10, <1>1, <2>1, OneMoreOp DEF StartsNow
<1>11. ASSUME NEW t \in Threads, NEW s \in Sockets, NEW k \in Kinds, NEW size \in 1..2,
             NEW direct \in BOOLEAN, StartsLater(t, s, k, size, direct)
      PROVE  ops'[n] = ops[n]
  BY <1>11, <1>1, NewOpIsOp, OneMoreOp DEF StartsLater
<1>12. ASSUME NEW t \in Threads, EpollWait(t)
      PROVE  ops'[n] = ops[n]
  BY <1>12 DEF EpollWait, kernelVars, socketVars, stateVars, queueVars
<1>13. ASSUME NEW t \in Threads, Dispatch(t)
      PROVE  ops'[n] = ops[n]
  BY <1>13 DEF Dispatch, kernelVars, socketVars, stateVars, queueVars
<1>14. ASSUME NEW t \in Threads, Lock(t)
      PROVE  ops'[n] = ops[n]
  BY <1>14 DEF Lock, kernelVars, socketVars, stateVars, queueVars
<1>15. ASSUME NEW t \in Threads, Leave(t)
      PROVE  ops'[n] = ops[n]
  BY <1>15, <1>3
<1>16. ASSUME NEW t \in Threads, NEW d \in States, Dequeue(t, d)
      PROVE  ops'[n] = ops[n]
  BY <1>16 DEF Dequeue, kernelVars, socketVars, stateVars, queueVars
<1>17. ASSUME NEW t \in Threads, NEW k \in Kinds, Misses(t, k)
      PROVE  ops'[n] = ops[n]
  BY <1>17 DEF Misses, kernelVars, socketVars, stateVars, queueVars
<1>18. ASSUME NEW t \in Threads, NEW k \in Kinds, NEW i \in DOMAIN ops, Takes(t, k, i)
      PROVE  ops'[n] = ops[n]
  <2>1. loc[t].state \in States
    BY <1>18, PlaceParts DEF Takes
  <2>5. op_queue_[loc[t].state][k] # << >> /\ i = Head(op_queue_[loc[t].state][k])
    BY <1>18 DEF Takes
  <2>2. ops[i].stage = "queued"
    BY <2>1, <2>5, HeadIsQueued
  <2> QED
    BY <1>18, <1>1, <2>2 DEF Takes
<1>19. ASSUME NEW t \in Threads, NEW i \in DOMAIN ops, NEW s \in Sockets, NEW k \in Kinds,
             Enqueues(t, i, s, k)
      PROVE  ops'[n] = ops[n]
  <2>1. ops[i].stage = "started"
    BY <1>19, StarterHas, Zenon DEF Enqueues
  <2> QED
    BY <1>19, <1>1, <2>1, Zenon DEF Enqueues
<1>20. ASSUME NEW i \in DOMAIN ops, RunPosted(i)
      PROVE  ops'[n] = ops[n]
  BY <1>20, <1>1 DEF RunPosted
<1>21. ASSUME UNCHANGED reactorVars
      PROVE  ops'[n] = ops[n]
  BY <1>21 DEF reactorVars, kernelVars, socketVars, stateVars, queueVars
<1>30. ops'[n] = ops[n]
  BY <1>4, <1>5, <1>6, <1>7, <1>8, <1>9, <1>10, <1>11, <1>12, <1>13, <1>14, <1>15,
       <1>16, <1>17, <1>18, <1>19, <1>20, <1>21 DEF Step
<1> QED
  BY <1>1, <1>2, <1>30

\* A step in which no thread goes to lock or perform, or pops.
LEMMA PoppedAlone ==
  ASSUME Types, Owned, Locked, Queues, Popped, Step \/ UNCHANGED reactorVars,
         \A u \in Threads : loc'[u].at \in {"lock", "perform"} =>
           loc[u].at = loc'[u].at /\ loc'[u].done = loc[u].done
  PROVE  Popped'
<1>1. \A u \in Threads : loc'[u].at = "lock" => loc'[u].done = << >>
  BY DEF Popped
<1>2. \A u \in Threads : loc'[u].at = "perform" => \A n \in Range(loc'[u].done) :
        n \in DOMAIN ops' /\ ops'[n].stage = "popped"
  BY PoppedStays
<1>3. \A t, u \in Threads : loc'[t].at = "perform" /\ loc'[u].at = "perform" /\ t # u =>
        Range(loc'[t].done) \cap Range(loc'[u].done) = {}
  BY DEF Popped
<1> QED
  BY <1>1, <1>2, <1>3 DEF Popped

\* Every step keeps what is popped apart.
LEMMA PoppedKept ==
  ASSUME Types, Owned, Locked, Queues, Popped, Step \/ UNCHANGED reactorVars
  PROVE  Popped'
<1>1. ASSUME NEW s \in Sockets, PeerEnds(s)
      PROVE  Popped'
  <2>1. \A u \in Threads : loc'[u].at \in {"lock", "perform"} =>
          loc[u].at = loc'[u].at /\ loc'[u].done = loc[u].done
    BY <1>1 DEF PeerEnds, kernelVars, socketVars, stateVars, queueVars
  <2> QED
    BY <1>1, <2>1, PoppedAlone DEF Step
<1>2. ASSUME NEW s \in Sockets, CancelOps(s)
      PROVE  Popped'
  <2>1. \A u \in Threads : loc'[u].at \in {"lock", "perform"} =>
          loc[u].at = loc'[u].at /\ loc'[u].done = loc[u].done
    BY <1>2 DEF CancelOps, kernelVars, socketVars, stateVars, queueVars
  <2> QED
    BY <1>2, <2>1, PoppedAlone DEF Step
<1>3. ASSUME NEW s \in Sockets, DeregisterDescriptor(s)
      PROVE  Popped'
  <2>1. \A u \in Threads : loc'[u].at \in {"lock", "perform"} =>
          loc[u].at = loc'[u].at /\ loc'[u].done = loc[u].done
    BY <1>3 DEF DeregisterDescriptor, kernelVars, socketVars, stateVars, queueVars
  <2> QED
    BY <1>3, <2>1, PoppedAlone DEF Step
<1>4. ASSUME NEW s \in Sockets, CleanupDescriptorData(s)
      PROVE  Popped'
  <2>1. \A u \in Threads : loc'[u].at \in {"lock", "perform"} =>
          loc[u].at = loc'[u].at /\ loc'[u].done = loc[u].done
    BY <1>4 DEF CleanupDescriptorData, kernelVars, socketVars, stateVars, queueVars
  <2> QED
    BY <1>4, <2>1, PoppedAlone DEF Step
<1>5. ASSUME NEW s \in Sockets, NEW k \in Kinds, Arrive(s, k)
      PROVE  Popped'
  <2>1. \A u \in Threads : loc'[u].at \in {"lock", "perform"} =>
          loc[u].at = loc'[u].at /\ loc'[u].done = loc[u].done
    BY <1>5 DEF Arrive, kernelVars, socketVars, stateVars, queueVars
  <2> QED
    BY <1>5, <2>1, PoppedAlone DEF Step
<1>6. ASSUME NEW s \in Sockets, NEW d \in States, Register(s, d)
      PROVE  Popped'
  <2>1. \A u \in Threads : loc'[u].at \in {"lock", "perform"} =>
          loc[u].at = loc'[u].at /\ loc'[u].done = loc[u].done
    BY <1>6 DEF Register, kernelVars, socketVars, stateVars, queueVars
  <2> QED
    BY <1>6, <2>1, PoppedAlone DEF Step
<1>7. ASSUME NEW t \in Threads, NEW s \in Sockets, NEW k \in Kinds, NEW size \in 1..2,
             StartsNow(t, s, k, size)
      PROVE  Popped'
  <2>1. \A u \in Threads : loc'[u].at \in {"lock", "perform"} =>
          loc[u].at = loc'[u].at /\ loc'[u].done = loc[u].done
    BY <1>7 DEF StartsNow, kernelVars, socketVars, stateVars, queueVars
  <2> QED
    BY <1>7, <2>1, PoppedAlone DEF Step
<1>8. ASSUME NEW t \in Threads, NEW s \in Sockets, NEW k \in Kinds, NEW size \in 1..2,
             NEW direct \in BOOLEAN, StartsLater(t, s, k, size, direct)
      PROVE  Popped'
  <2>1. \A u \in Threads : loc'[u].at \in {"lock", "perform"} =>
          loc[u].at = loc'[u].at /\ loc'[u].done = loc[u].done
    BY <1>8, IdleAt DEF StartsLater, Types
  <2> QED
    BY <1>8, <2>1, PoppedAlone DEF Step
<1>9. ASSUME NEW t \in Threads, EpollWait(t)
      PROVE  Popped'
  <2>1. \A u \in Threads : loc'[u].at \in {"lock", "perform"} =>
          loc[u].at = loc'[u].at /\ loc'[u].done = loc[u].done
    BY <1>9, IdleAt DEF EpollWait, Types
  <2> QED
    BY <1>9, <2>1, PoppedAlone DEF Step
<1>10. ASSUME NEW t \in Threads, Dispatch(t)
      PROVE  Popped'
  <2>1. \A u \in Threads : loc'[u].at \in {"lock", "perform"} =>
          loc[u].at = loc'[u].at /\ loc'[u].done = loc[u].done
    BY <1>10, IdleAt DEF Dispatch, Types
  <2> QED
    BY <1>10, <2>1, PoppedAlone DEF Step
<1>11. ASSUME NEW t \in Threads, Lock(t)
      PROVE  Popped'
  <2>1. \A u \in Threads : u # t => loc'[u] = loc[u]
    BY <1>11 DEF Lock, Types
  <2>2. loc'[t].at = "perform" /\ loc'[t].done = << >>
    BY <1>11, PlaceParts DEF Lock, Types, Popped
  <2>3. Range(loc'[t].done) = {}
    BY <2>2 DEF Range
  <2>4. \A u \in Threads : u # t /\ loc'[u].at = "perform" => \A n \in Range(loc'[u].done) :
          n \in DOMAIN ops' /\ ops'[n].stage = "popped"
    BY <1>11, <2>1, PoppedStays DEF Step
  <2> QED
    BY <2>1, <2>2, <2>3, <2>4 DEF Popped
<1>12. ASSUME NEW t \in Threads, Leave(t)
      PROVE  Popped'
  <2>1. \A u \in Threads : loc'[u].at \in {"lock", "perform"} =>
          loc[u].at = loc'[u].at /\ loc'[u].done = loc[u].done
    BY <1>12, IdleAt DEF Leave, Types
  <2> QED
    BY <1>12, <2>1, PoppedAlone DEF Step
<1>13. ASSUME NEW t \in Threads, NEW d \in States, Dequeue(t, d)
      PROVE  Popped'
  <2>1. \A u \in Threads : u # t => loc'[u] = loc[u]
    BY <1>13 DEF Dequeue, Types
  <2>2. loc'[t].at = "lock" /\ loc'[t].done = << >>
    BY <1>13 DEF Dequeue, Types
  <2>3. \A u \in Threads : loc'[u].at = "perform" => u # t /\ loc'[u] = loc[u]
    BY <2>1, <2>2
  <2>4. \A u \in Threads : loc'[u].at = "perform" => \A n \in Range(loc'[u].done) :
          n \in DOMAIN ops' /\ ops'[n].stage = "popped"
    BY <1>13, <2>3, PoppedStays DEF Step
  <2> QED
    BY <2>1, <2>2, <2>3, <2>4 DEF Popped
<1>14. ASSUME NEW t \in Threads, NEW k \in Kinds, Misses(t, k)
      PROVE  Popped'
  <2>1. \A u \in Threads : loc'[u].at \in {"lock", "perform"} =>
          loc[u].at = loc'[u].at /\ loc'[u].done = loc[u].done
    BY <1>14, PlaceParts DEF Misses, Types
  <2> QED
    BY <1>14, <2>1, PoppedAlone DEF Step
<1>15. ASSUME NEW t \in Threads, NEW k \in Kinds, NEW i \in DOMAIN ops, Takes(t, k, i)
      PROVE  Popped'
  <2>1. \A u \in Threads : u # t => loc'[u] = loc[u]
    BY <1>15 DEF Takes, Types
  <2>2. /\ loc[t].at = "perform" /\ loc[t].done \in Seq(Nat) /\ loc[t].state \in States
        /\ loc'[t].at = "perform" /\ loc'[t].done = Append(loc[t].done, i)
    BY <1>15, PlaceParts DEF Takes, Performed, Types
  <2>3. i \in Nat
    BY OpParts
  <2>4. Range(loc'[t].done) = Range(loc[t].done) \cup {i}
    BY <2>2, <2>3, AppendTo
  <2>5. ops[i].stage = "queued"
    BY <1>15, <2>2, HeadIsQueued, ZenonT(40) DEF Takes
  <2>6. i \in DOMAIN ops' /\ ops'[i].stage = "popped"
    BY <1>15, OpParts, CompletedIsOp DEF Takes
  <2>7. \A u \in Threads : loc[u].at = "perform" => i \notin Range(loc[u].done)
    BY <2>5 DEF Popped
  <2>8. \A u \in Threads : loc'[u].at = "perform" => \A n \in Range(loc[u].done) :
          n \in DOMAIN ops' /\ ops'[n].stage = "popped"
    BY <1>15, <2>1, <2>2, PoppedStays DEF Step
  <2>9. \A u \in Threads : loc'[u].at = "perform" => \A n \in Range(loc'[u].done) :
          n \in DOMAIN ops' /\ ops'[n].stage = "popped"
    BY <2>1, <2>4, <2>6, <2>8
  <2>10. \A u \in Threads : loc'[u].at = "lock" => loc'[u].done = << >>
    BY <2>1, <2>2 DEF Popped
  <2>11. \A u, v \in Threads : loc'[u].at = "perform" /\ loc'[v].at = "perform" /\ u # v =>
           Range(loc'[u].done) \cap Range(loc'[v].done) = {}
    <3> SUFFICES ASSUME NEW u \in Threads, NEW v \in Threads, u # v, v # t,
                        loc'[u].at = "perform", loc'[v].at = "perform"
                 PROVE  Range(loc'[u].done) \cap Range(loc'[v].done) = {}
      OBVIOUS
    <3>1. loc'[v] = loc[v] /\ i \notin Range(loc[v].done)
      BY <2>1, <2>7
    <3>2. Range(loc[u].done) \cap Range(loc[v].done) = {}
      BY <2>1, <2>2, <3>1 DEF Popped
    <3>3. CASE u = t
      BY <2>4, <3>1, <3>2, <3>3
    <3>4. CASE u # t
      BY <2>1, <3>1, <3>2, <3>4
    <3> QED
      BY <3>3, <3>4
  <2> QED
    BY <2>9, <2>10, <2>11 DEF Popped
<1>16. ASSUME NEW t \in Threads, NEW i \in DOMAIN ops, NEW s \in Sockets, NEW k \in Kinds,
             Enqueues(t, i, s, k)
      PROVE  Popped'
  <2>1. \A u \in Threads : loc'[u].at \in {"lock", "perform"} =>
          loc[u].at = loc'[u].at /\ loc'[u].done = loc[u].done
    BY <1>16, IdleAt DEF Enqueues, Types
  <2> QED
    BY <1>16, <2>1, PoppedAlone DEF Step
<1>17. ASSUME NEW i \in DOMAIN ops, RunPosted(i)
      PROVE  Popped'
  <2>1. \A u \in Threads : loc'[u].at \in {"lock", "perform"} =>
          loc[u].at = loc'[u].at /\ loc'[u].done = loc[u].done
    BY <1>17 DEF RunPosted, kernelVars, socketVars, stateVars, queueVars
  <2> QED
    BY <1>17, <2>1, PoppedAlone DEF Step
<1>18. CASE UNCHANGED reactorVars
  BY <1>18 DEF Popped, reactorVars
<1> QED
  BY <1>1, <1>2, <1>3, <1>4, <1>5, <1>6, <1>7, <1>8, <1>9, <1>10, <1>11, <1>12, <1>13,
       <1>14, <1>15, <1>16, <1>17, <1>18 DEF Step

-----------------------------------------------------------------------------
(* The queues.                                                             *)

\* A step that does not touch the queues, nor what is queued.
LEMMA QueuesAlone ==
  ASSUME Types, Owned, Locked, Queues, Popped, Step \/ UNCHANGED reactorVars,
         op_queue_' = op_queue_,
         \A s \in Sockets : phase[s] = "open" => phase'[s] = "open" /\ data'[s] = data[s],
         \A n \in DOMAIN ops : ops'[n].stage = "queued" <=> ops[n].stage = "queued"
  PROVE  Queues'
<1>1. \A n \in DOMAIN ops : /\ n \in DOMAIN ops' /\ ops'[n].socket = ops[n].socket
                             /\ ops'[n].kind = ops[n].kind /\ ops[n].socket \in Sockets
  BY OpsStay, OpParts
<1>2. \A n \in DOMAIN ops' : ops'[n].stage = "queued" => n \in DOMAIN ops
  BY OpsNew
<1>3. ASSUME NEW d \in States, NEW k \in Kinds
      PROVE  /\ Increasing(op_queue_'[d][k])
             /\ \A n \in Range(op_queue_'[d][k]) :
                  /\ n \in DOMAIN ops' /\ ops'[n].stage = "queued" /\ ops'[n].kind = k
                  /\ data'[ops'[n].socket] = d /\ phase'[ops'[n].socket] = "open"
  BY <1>1 DEF Queues
<1>4. ASSUME NEW n \in DOMAIN ops', ops'[n].stage = "queued"
      PROVE  /\ phase'[ops'[n].socket] = "open"
             /\ n \in Range(op_queue_'[data'[ops'[n].socket]][ops'[n].kind])
  BY <1>1, <1>2, <1>4 DEF Queues
<1> QED
  BY <1>3, <1>4 DEF Queues

\* A step that aborts what is in the queues of one descriptor_state.
LEMMA QueuesAborted ==
  ASSUME Types, Owned, Queues, NEW s \in Sockets, phase[s] = "open", Abort(data[s]),
         \A r \in Sockets : r # s => phase'[r] = phase[r], data' = data
  PROVE  Queues'
<1> DEFINE d == data[s]
<1>1. d \in States /\ \A r \in Sockets : data[r] = d => r = s
  BY OpenHasState DEF Owned, Types
<1>2. /\ op_queue_' = [op_queue_ EXCEPT ![d] = [k \in Kinds |-> << >>]]
      /\ DOMAIN ops' = DOMAIN ops
      /\ \A n \in DOMAIN ops :
           ops'[n] = IF n \in Queued(d) THEN [ops[n] EXCEPT !.stage = "posted"] ELSE ops[n]
  BY DEF Abort
<1>3. \A n \in DOMAIN ops :
        /\ ops[n].socket \in Sockets /\ ops[n].kind \in Kinds
        /\ ops'[n].socket = ops[n].socket /\ ops'[n].kind = ops[n].kind
        /\ n \in Queued(d) => ops'[n].stage = "posted"
  <2> TAKE n \in DOMAIN ops
  <2>1. ops[n] \in Op /\ ops[n].socket \in Sockets /\ ops[n].kind \in Kinds
    BY OpParts
  <2>2. CASE n \in Queued(d)
    <3>1. ops'[n] = [ops[n] EXCEPT !.stage = "posted"]
      BY <1>2, <2>2
    <3> QED
      BY <2>1, <3>1, StageChanged
  <2>3. CASE n \notin Queued(d)
    BY <1>2, <2>1, <2>3
  <2> QED
    BY <2>2, <2>3
<1>4. Range(<< >>) = {} /\ Increasing(<< >>)
  BY DEF Range, Increasing
<1>5. \A e \in States, k \in Kinds :
        op_queue_'[e][k] = IF e = d THEN << >> ELSE op_queue_[e][k]
  BY <1>1, <1>2 DEF Types
<1>6. \A n \in Queued(d) : data[ops[n].socket] = d
  BY <1>1, QueuedIsQueued
<1> HIDE DEF d
<1>7. ASSUME NEW e \in States, NEW k \in Kinds, e # d
      PROVE  /\ Increasing(op_queue_[e][k])
             /\ \A n \in Range(op_queue_[e][k]) :
                  /\ n \in DOMAIN ops' /\ ops'[n].stage = "queued" /\ ops'[n].kind = k
                  /\ data'[ops'[n].socket] = e /\ phase'[ops'[n].socket] = "open"
  <2>1. Increasing(op_queue_[e][k])
    BY DEF Queues
  <2>2. ASSUME NEW n \in Range(op_queue_[e][k])
        PROVE  /\ n \in DOMAIN ops' /\ ops'[n].stage = "queued" /\ ops'[n].kind = k
               /\ data'[ops'[n].socket] = e /\ phase'[ops'[n].socket] = "open"
    <3>1. /\ n \in DOMAIN ops /\ ops[n].stage = "queued" /\ ops[n].kind = k
          /\ data[ops[n].socket] = e /\ phase[ops[n].socket] = "open"
      BY DEF Queues
    <3>2. n \notin Queued(d) /\ ops[n].socket # s
      BY <1>6, <1>7, <3>1 DEF d
    <3> QED
      BY <1>2, <1>3, <3>1, <3>2
  <2> QED
    BY <2>1, <2>2
<1>8. ASSUME NEW n \in DOMAIN ops', ops'[n].stage = "queued"
      PROVE  /\ phase'[ops'[n].socket] = "open"
             /\ n \in Range(op_queue_'[data'[ops'[n].socket]][ops'[n].kind])
  <2>1. n \in DOMAIN ops /\ n \notin Queued(d) /\ ops'[n] = ops[n]
    BY <1>2, <1>3, <1>8
  <2>2. /\ phase[ops[n].socket] = "open"
        /\ n \in Range(op_queue_[data[ops[n].socket]][ops[n].kind])
    BY <1>8, <2>1 DEF Queues
  <2>3. data[ops[n].socket] # d
    BY <1>3, <2>1, <2>2 DEF Queued
  <2>4. data[ops[n].socket] \in States
    BY <1>3, <2>1, <2>2, OpenHasState
  <2> QED
    BY <1>3, <1>5, <2>1, <2>2, <2>3, <2>4 DEF d
<1> QED
  BY <1>4, <1>5, <1>7, <1>8 DEF Queues

\* Every step keeps what is in the queues.
LEMMA QueuesKept ==
  ASSUME Types, Owned, Locked, Queues, Started, Popped,
         Step \/ UNCHANGED reactorVars
  PROVE  Queues'
<1>1. ASSUME NEW s \in Sockets, PeerEnds(s)
      PROVE  Queues'
  <2>1. op_queue_' = op_queue_
    BY <1>1 DEF PeerEnds, stateVars
  <2>2. \A r \in Sockets : phase[r] = "open" => phase'[r] = "open" /\ data'[r] = data[r]
    BY <1>1 DEF PeerEnds, socketVars
  <2>3. \A n \in DOMAIN ops : ops'[n].stage = "queued" <=> ops[n].stage = "queued"
    BY <1>1 DEF PeerEnds
  <2> QED
    BY <1>1, <2>1, <2>2, <2>3, QueuesAlone DEF Step
<1>2. ASSUME NEW s \in Sockets, CancelOps(s)
      PROVE  Queues'
  BY <1>2, QueuesAborted DEF CancelOps, socketVars
<1>3. ASSUME NEW s \in Sockets, DeregisterDescriptor(s)
      PROVE  Queues'
  <2>1. \A r \in Sockets : r # s => phase'[r] = phase[r]
    BY <1>3 DEF DeregisterDescriptor, Types
  <2> QED
    BY <1>3, <2>1, QueuesAborted DEF DeregisterDescriptor
<1>4. ASSUME NEW s \in Sockets, CleanupDescriptorData(s)
      PROVE  Queues'
  <2>1. op_queue_' = op_queue_
    BY <1>4 DEF CleanupDescriptorData, stateVars
  <2>2. \A r \in Sockets : phase[r] = "open" => phase'[r] = "open" /\ data'[r] = data[r]
    BY <1>4 DEF CleanupDescriptorData, Types
  <2>3. \A n \in DOMAIN ops : ops'[n].stage = "queued" <=> ops[n].stage = "queued"
    BY <1>4 DEF CleanupDescriptorData
  <2> QED
    BY <1>4, <2>1, <2>2, <2>3, QueuesAlone DEF Step
<1>5. ASSUME NEW s \in Sockets, NEW k \in Kinds, Arrive(s, k)
      PROVE  Queues'
  <2>1. op_queue_' = op_queue_
    BY <1>5 DEF Arrive, stateVars
  <2>2. \A r \in Sockets : phase[r] = "open" => phase'[r] = "open" /\ data'[r] = data[r]
    BY <1>5 DEF Arrive, socketVars
  <2>3. \A n \in DOMAIN ops : ops'[n].stage = "queued" <=> ops[n].stage = "queued"
    BY <1>5 DEF Arrive
  <2> QED
    BY <1>5, <2>1, <2>2, <2>3, QueuesAlone DEF Step
<1>6. ASSUME NEW s \in Sockets, NEW d \in States, Register(s, d)
      PROVE  Queues'
  <2>1. op_queue_' = op_queue_
    BY <1>6 DEF Register
  <2>2. \A r \in Sockets : phase[r] = "open" => phase'[r] = "open" /\ data'[r] = data[r]
    BY <1>6 DEF Register, Types
  <2>3. \A n \in DOMAIN ops : ops'[n].stage = "queued" <=> ops[n].stage = "queued"
    BY <1>6 DEF Register
  <2> QED
    BY <1>6, <2>1, <2>2, <2>3, QueuesAlone DEF Step
<1>7. ASSUME NEW t \in Threads, NEW s \in Sockets, NEW k \in Kinds, NEW size \in 1..2,
             StartsNow(t, s, k, size)
      PROVE  Queues'
  <2>1. op_queue_' = op_queue_
    BY <1>7 DEF StartsNow, stateVars
  <2>2. \A r \in Sockets : phase[r] = "open" => phase'[r] = "open" /\ data'[r] = data[r]
    BY <1>7 DEF StartsNow, socketVars
  <2>3. \A n \in DOMAIN ops : ops'[n].stage = "queued" <=> ops[n].stage = "queued"
    BY <1>7, NewOpIsOp, CompletedIsOp, OneMoreOp DEF StartsNow
  <2> QED
    BY <1>7, <2>1, <2>2, <2>3, QueuesAlone DEF Step
<1>8. ASSUME NEW t \in Threads, NEW s \in Sockets, NEW k \in Kinds, NEW size \in 1..2,
             NEW direct \in BOOLEAN, StartsLater(t, s, k, size, direct)
      PROVE  Queues'
  <2>1. op_queue_' = op_queue_
    BY <1>8 DEF StartsLater, stateVars
  <2>2. \A r \in Sockets : phase[r] = "open" => phase'[r] = "open" /\ data'[r] = data[r]
    BY <1>8 DEF StartsLater, socketVars
  <2>3. \A n \in DOMAIN ops : ops'[n].stage = "queued" <=> ops[n].stage = "queued"
    BY <1>8, NewOpIsOp, OneMoreOp DEF StartsLater
  <2> QED
    BY <1>8, <2>1, <2>2, <2>3, QueuesAlone DEF Step
<1>9. ASSUME NEW t \in Threads, EpollWait(t)
      PROVE  Queues'
  <2>1. op_queue_' = op_queue_
    BY <1>9 DEF EpollWait, stateVars
  <2>2. \A r \in Sockets : phase[r] = "open" => phase'[r] = "open" /\ data'[r] = data[r]
    BY <1>9 DEF EpollWait, socketVars
  <2>3. \A n \in DOMAIN ops : ops'[n].stage = "queued" <=> ops[n].stage = "queued"
    BY <1>9 DEF EpollWait
  <2> QED
    BY <1>9, <2>1, <2>2, <2>3, QueuesAlone DEF Step
<1>10. ASSUME NEW t \in Threads, Dispatch(t)
      PROVE  Queues'
  <2>1. op_queue_' = op_queue_
    BY <1>10 DEF Dispatch, stateVars
  <2>2. \A r \in Sockets : phase[r] = "open" => phase'[r] = "open" /\ data'[r] = data[r]
    BY <1>10 DEF Dispatch, socketVars
  <2>3. \A n \in DOMAIN ops : ops'[n].stage = "queued" <=> ops[n].stage = "queued"
    BY <1>10 DEF Dispatch
  <2> QED
    BY <1>10, <2>1, <2>2, <2>3, QueuesAlone DEF Step
<1>11. ASSUME NEW t \in Threads, Lock(t)
      PROVE  Queues'
  <2>1. op_queue_' = op_queue_
    BY <1>11 DEF Lock, stateVars
  <2>2. \A r \in Sockets : phase[r] = "open" => phase'[r] = "open" /\ data'[r] = data[r]
    BY <1>11 DEF Lock, socketVars
  <2>3. \A n \in DOMAIN ops : ops'[n].stage = "queued" <=> ops[n].stage = "queued"
    BY <1>11 DEF Lock
  <2> QED
    BY <1>11, <2>1, <2>2, <2>3, QueuesAlone DEF Step
<1>12. ASSUME NEW t \in Threads, Leave(t)
      PROVE  Queues'
  <2>1. op_queue_' = op_queue_
    BY <1>12 DEF Leave, stateVars
  <2>2. \A r \in Sockets : phase[r] = "open" => phase'[r] = "open" /\ data'[r] = data[r]
    BY <1>12 DEF Leave, socketVars
  <2>3. \A n \in DOMAIN ops : ops'[n].stage = "queued" <=> ops[n].stage = "queued"
    <3> TAKE n \in DOMAIN ops
    <3>1. n \in Range(loc[t].done) => ops[n].stage = "popped"
      BY <1>12 DEF Leave, Popped
    <3>2. \E g \in {"done", "posted"} :
            ops'[n] = IF n \in Range(loc[t].done) THEN [ops[n] EXCEPT !.stage = g]
                      ELSE ops[n]
      BY <1>12 DEF Leave
    <3> QED
      BY <3>1, <3>2, OpParts, StageChanged
  <2> QED
    BY <1>12, <2>1, <2>2, <2>3, QueuesAlone DEF Step
<1>13. ASSUME NEW t \in Threads, NEW d \in States, Dequeue(t, d)
      PROVE  Queues'
  <2>1. op_queue_' = op_queue_
    BY <1>13 DEF Dequeue, stateVars
  <2>2. \A r \in Sockets : phase[r] = "open" => phase'[r] = "open" /\ data'[r] = data[r]
    BY <1>13 DEF Dequeue, socketVars
  <2>3. \A n \in DOMAIN ops : ops'[n].stage = "queued" <=> ops[n].stage = "queued"
    BY <1>13 DEF Dequeue
  <2> QED
    BY <1>13, <2>1, <2>2, <2>3, QueuesAlone DEF Step
<1>14. ASSUME NEW t \in Threads, NEW k \in Kinds, Misses(t, k)
      PROVE  Queues'
  <2>1. op_queue_' = op_queue_
    BY <1>14 DEF Misses, stateVars
  <2>2. \A r \in Sockets : phase[r] = "open" => phase'[r] = "open" /\ data'[r] = data[r]
    BY <1>14 DEF Misses, socketVars
  <2>3. \A n \in DOMAIN ops : ops'[n].stage = "queued" <=> ops[n].stage = "queued"
    BY <1>14 DEF Misses
  <2> QED
    BY <1>14, <2>1, <2>2, <2>3, QueuesAlone DEF Step
<1>15. ASSUME NEW t \in Threads, NEW k \in Kinds, NEW i \in DOMAIN ops, Takes(t, k, i)
      PROVE  Queues'
  <2> DEFINE d == loc[t].state
             q == op_queue_[d][k]
  <2>1. d \in States /\ q \in Seq(Nat) /\ q # << >> /\ i = Head(q) /\ Increasing(q)
    BY <1>15, PlaceParts DEF Takes, Types, Queues
  <2>2. ops[i].stage = "queued" /\ ops[i].kind = k /\ data[ops[i].socket] = d
    BY <2>1, HeadIsQueued
  <2>3. Range(Tail(q)) = Range(q) \ {i} /\ Increasing(Tail(q))
    BY <2>1, HeadAndTail
  <2>4. /\ phase' = phase /\ data' = data /\ DOMAIN ops' = DOMAIN ops
        /\ \A n \in DOMAIN ops : n # i => ops'[n] = ops[n]
        /\ op_queue_' = [op_queue_ EXCEPT ![d][k] = Tail(q)]
    BY <1>15 DEF Takes, socketVars
  <2>5. ops'[i].stage = "popped"
    BY <1>15, OpParts, CompletedIsOp DEF Takes
  <2>6. \A e \in States, h \in Kinds :
          op_queue_'[e][h] = IF e = d /\ h = k THEN Tail(q) ELSE op_queue_[e][h]
    BY <2>1, <2>4 DEF Types
  <2>7. \A e \in States, h \in Kinds :
          /\ Increasing(op_queue_'[e][h])
          /\ \A n \in Range(op_queue_'[e][h]) : n # i /\ n \in Range(op_queue_[e][h])
    <3> TAKE e \in States, h \in Kinds
    <3>1. CASE e = d /\ h = k
      BY <2>3, <2>6, <3>1
    <3>2. CASE ~(e = d /\ h = k)
      BY <2>2, <2>6, <3>2 DEF Queues
    <3> QED
      BY <3>1, <3>2
  <2>8. \A e \in States, h \in Kinds : \A n \in Range(op_queue_[e][h]) :
          n # i => n \in Range(op_queue_'[e][h])
    BY <2>3, <2>6
  <2> HIDE DEF d, q
  <2>9. ASSUME NEW e \in States, NEW h \in Kinds, NEW n \in Range(op_queue_'[e][h])
        PROVE  /\ n \in DOMAIN ops' /\ ops'[n].stage = "queued" /\ ops'[n].kind = h
               /\ data'[ops'[n].socket] = e /\ phase'[ops'[n].socket] = "open"
    <3>1. n # i /\ n \in Range(op_queue_[e][h])
      BY <2>7
    <3>2. /\ n \in DOMAIN ops /\ ops[n].stage = "queued" /\ ops[n].kind = h
          /\ data[ops[n].socket] = e /\ phase[ops[n].socket] = "open"
      BY <3>1 DEF Queues
    <3> QED
      BY <2>4, <3>1, <3>2
  <2>10. ASSUME NEW n \in DOMAIN ops', ops'[n].stage = "queued"
         PROVE  /\ phase'[ops'[n].socket] = "open"
                /\ n \in Range(op_queue_'[data'[ops'[n].socket]][ops'[n].kind])
    <3>1. n # i /\ n \in DOMAIN ops /\ ops'[n] = ops[n]
      BY <2>4, <2>5, <2>10
    <3>2. /\ phase[ops[n].socket] = "open"
          /\ n \in Range(op_queue_[data[ops[n].socket]][ops[n].kind])
      BY <2>10, <3>1 DEF Queues
    <3>3. data[ops[n].socket] \in States /\ ops[n].kind \in Kinds
      BY <3>1, <3>2, OpParts, OpenHasState
    <3> QED
      BY <2>4, <2>8, <3>1, <3>2, <3>3
  <2> QED
    BY <2>7, <2>9, <2>10 DEF Queues
<1>16. ASSUME NEW t \in Threads, NEW i \in DOMAIN ops, NEW s \in Sockets, NEW k \in Kinds,
             Enqueues(t, i, s, k)
      PROVE  Queues'
  <2> DEFINE d == data[s]
             q == op_queue_[d][k]
  <2>1. /\ d \in States /\ phase[s] = "open" /\ i \in Nat /\ s = ops[i].socket
        /\ k = ops[i].kind
    <3>1. loc[t].at = "start" /\ i = loc[t].op /\ s = ops[i].socket /\ k = ops[i].kind
      BY <1>16, Zenon DEF Enqueues
    <3>2. data[s] \in States /\ phase[s] = "open"
      BY <3>1, StarterHas
    <3>3. i \in Nat
      BY OpParts
    <3> QED
      BY <3>1, <3>2, <3>3
  <2>2. q \in Seq(Nat) /\ Increasing(q) /\ \A n \in Range(q) : n < i
    <3>1. loc[t].at = "start" /\ i = loc[t].op
      BY <1>16, Zenon DEF Enqueues
    <3>2. \A n \in Range(op_queue_[data[ops[loc[t].op].socket]][ops[loc[t].op].kind]) :
            n < loc[t].op
      BY <3>1 DEF Started
    <3>3. \A n \in Range(q) : n < i
      BY <2>1, <3>1, <3>2
    <3> QED
      BY <2>1, <3>3 DEF Types, Queues
  <2>3. Range(Append(q, i)) = Range(q) \cup {i} /\ Increasing(Append(q, i))
    BY <2>1, <2>2, AppendTo
  <2>4. /\ phase' = phase /\ data' = data /\ DOMAIN ops' = DOMAIN ops
        /\ \A n \in DOMAIN ops : n # i => ops'[n] = ops[n]
        /\ ops'[i] = [ops[i] EXCEPT !.stage = "queued"]
        /\ op_queue_' = [op_queue_ EXCEPT ![d][k] = Append(q, i)]
    BY <1>16, Zenon DEF Enqueues, socketVars
  <2>5. ops'[i].stage = "queued" /\ ops'[i].socket = s /\ ops'[i].kind = k
    BY <2>1, <2>4, OpParts, StageChanged
  <2>6. \A e \in States, h \in Kinds :
          op_queue_'[e][h] = IF e = d /\ h = k THEN Append(q, i) ELSE op_queue_[e][h]
    BY <2>1, <2>4 DEF Types
  <2>7. \A e \in States, h \in Kinds :
          /\ Increasing(op_queue_'[e][h])
          /\ \A n \in Range(op_queue_'[e][h]) :
               n \in Range(op_queue_[e][h]) \/ (n = i /\ e = d /\ h = k)
    <3> TAKE e \in States, h \in Kinds
    <3>1. CASE e = d /\ h = k
      BY <2>3, <2>6, <3>1
    <3>2. CASE ~(e = d /\ h = k)
      BY <2>6, <3>2 DEF Queues
    <3> QED
      BY <3>1, <3>2
  <2>8. \A e \in States, h \in Kinds : \A n \in Range(op_queue_[e][h]) :
          n \in Range(op_queue_'[e][h])
    BY <2>3, <2>6
  <2>12. i \in Range(op_queue_'[d][k])
    BY <2>1, <2>3, <2>6
  <2>13. ops[i].stage = "started"
    BY <1>16, StarterHas, Zenon DEF Enqueues
  <2>14. d = data[s]
    OBVIOUS
  <2> HIDE DEF d, q
  <2>9. ASSUME NEW e \in States, NEW h \in Kinds, NEW n \in Range(op_queue_'[e][h])
        PROVE  /\ n \in DOMAIN ops' /\ ops'[n].stage = "queued" /\ ops'[n].kind = h
               /\ data'[ops'[n].socket] = e /\ phase'[ops'[n].socket] = "open"
    <3>1. CASE n = i /\ e = d /\ h = k
      BY <2>1, <2>4, <2>5, <2>14, <3>1
    <3>2. CASE n \in Range(op_queue_[e][h])
      <4>1. /\ n \in DOMAIN ops /\ ops[n].stage = "queued" /\ ops[n].kind = h
            /\ data[ops[n].socket] = e /\ phase[ops[n].socket] = "open"
        BY <3>2 DEF Queues
      <4> QED
        BY <2>4, <2>13, <4>1
    <3> QED
      BY <2>7, <3>1, <3>2
  <2>10. ASSUME NEW n \in DOMAIN ops', ops'[n].stage = "queued"
         PROVE  /\ phase'[ops'[n].socket] = "open"
                /\ n \in Range(op_queue_'[data'[ops'[n].socket]][ops'[n].kind])
    <3>1. CASE n = i
      BY <2>1, <2>4, <2>5, <2>12, <2>14, <3>1
    <3>2. CASE n # i
      <4>1. n \in DOMAIN ops /\ ops'[n] = ops[n]
        BY <2>4, <3>2
      <4>2. /\ phase[ops[n].socket] = "open"
            /\ n \in Range(op_queue_[data[ops[n].socket]][ops[n].kind])
        BY <2>10, <4>1 DEF Queues
      <4>3. data[ops[n].socket] \in States /\ ops[n].kind \in Kinds
        BY <4>1, <4>2, OpParts, OpenHasState
      <4> QED
        BY <2>4, <2>8, <4>1, <4>2, <4>3
    <3> QED
      BY <3>1, <3>2
  <2> QED
    BY <2>7, <2>9, <2>10 DEF Queues
<1>17. ASSUME NEW i \in DOMAIN ops, RunPosted(i)
      PROVE  Queues'
  <2>1. op_queue_' = op_queue_
    BY <1>17 DEF RunPosted, stateVars
  <2>2. \A r \in Sockets : phase[r] = "open" => phase'[r] = "open" /\ data'[r] = data[r]
    BY <1>17 DEF RunPosted, socketVars
  <2>3. \A n \in DOMAIN ops : ops'[n].stage = "queued" <=> ops[n].stage = "queued"
    <3> TAKE n \in DOMAIN ops
    <3>1. ops'[n] = IF n = i THEN [ops[i] EXCEPT !.stage = "done"] ELSE ops[n]
      BY <1>17 DEF RunPosted
    <3> QED
      BY <1>17, <3>1, OpParts, StageChanged DEF RunPosted
  <2> QED
    BY <1>17, <2>1, <2>2, <2>3, QueuesAlone DEF Step
<1>18. CASE UNCHANGED reactorVars
  BY <1>18 DEF Queues, Increasing, Range, reactorVars, kernelVars, socketVars,
     stateVars, queueVars
<1> QED
  BY <1>1, <1>2, <1>3, <1>4, <1>5, <1>6, <1>7, <1>8, <1>9, <1>10, <1>11, <1>12, <1>13,
       <1>14, <1>15, <1>16, <1>17, <1>18 DEF Step

-----------------------------------------------------------------------------
(* What is started and not queued.                                         *)

\* A step in which nobody starts and nobody queues an operation.
Quiet ==
  /\ \A u \in Threads : loc[u].at = "start" \/ loc'[u].at = "start" => loc'[u] = loc[u]
  /\ \A s \in Sockets, k \in Kinds : phase[s] = "open" /\ data[s] \in States =>
       /\ Range(op_queue_'[data[s]][k]) \subseteq Range(op_queue_[data[s]][k])
       /\ phase'[s] = "open" => data'[s] = data[s]
  /\ \A n \in DOMAIN ops' : ops'[n].stage = "started" =>
       n \in DOMAIN ops /\ ops[n].stage = "started"

\* It keeps what is started.
LEMMA StartedAlone ==
  ASSUME Types, Owned, Locked, Locked', Started, Step \/ UNCHANGED reactorVars, Quiet
  PROVE  Started'
<1>1. ASSUME NEW n \in DOMAIN ops', ops'[n].stage = "started"
      PROVE  \E u \in Threads : loc'[u].at = "start" /\ loc'[u].op = n
  <2>1. n \in DOMAIN ops /\ ops[n].stage = "started"
    BY <1>1 DEF Quiet
  <2>2. PICK u \in Threads : loc[u].at = "start" /\ loc[u].op = n
    BY <2>1 DEF Started
  <2> QED
    BY <2>2 DEF Quiet
<1>2. ASSUME NEW u \in Threads, loc'[u].at = "start"
      PROVE  \A n \in Range(op_queue_'[data'[ops'[loc'[u].op].socket]][ops'[loc'[u].op].kind]) :
               n < loc'[u].op
  <2> DEFINE j == loc[u].op
             s == ops[j].socket
             k == ops[j].kind
  <2>1. loc'[u] = loc[u] /\ loc[u].at = "start"
    BY <1>2 DEF Quiet
  <2>2. /\ j \in DOMAIN ops /\ s \in Sockets /\ k \in Kinds /\ phase[s] = "open"
        /\ data[s] \in States
    BY <2>1, StarterHas
  <2>3. ops'[j].socket = s /\ ops'[j].kind = k
    BY <2>2, OpsStay
  <2>4. phase'[s] = "open"
    BY <1>2, <2>1, <2>3 DEF Locked, Holds
  <2>5. data'[s] = data[s]
          /\ Range(op_queue_'[data[s]][k]) \subseteq Range(op_queue_[data[s]][k])
    BY <2>2, <2>4, Zenon DEF Quiet
  <2>6. \A n \in Range(op_queue_[data[s]][k]) : n < j
    BY <2>1, Zenon DEF Started
  <2> QED
    BY <2>1, <2>3, <2>5, <2>6, Zenon
<1> QED
  BY <1>1, <1>2 DEF Started

\* Every step keeps who starts what.
LEMMA StartedKept ==
  ASSUME Types, Owned, Locked, Locked', Queues, Started, Popped,
         Step \/ UNCHANGED reactorVars
  PROVE  Started'
<1>1. ASSUME NEW s \in Sockets, PeerEnds(s)
      PROVE  Started'
  <2>1. \A u \in Threads : loc[u].at = "start" \/ loc'[u].at = "start" => loc'[u] = loc[u]
    BY <1>1 DEF PeerEnds
  <2>2. \A r \in Sockets, h \in Kinds : phase[r] = "open" /\ data[r] \in States =>
          /\ Range(op_queue_'[data[r]][h]) \subseteq Range(op_queue_[data[r]][h])
          /\ phase'[r] = "open" => data'[r] = data[r]
    BY <1>1 DEF PeerEnds, socketVars, stateVars
  <2>3. \A n \in DOMAIN ops' : ops'[n].stage = "started" =>
          n \in DOMAIN ops /\ ops[n].stage = "started"
    BY <1>1 DEF PeerEnds
  <2>4. Quiet
    BY <2>1, <2>2, <2>3 DEF Quiet
  <2> QED
    BY <1>1, <2>4, StartedAlone DEF Step
<1>2. ASSUME NEW s \in Sockets, CancelOps(s)
      PROVE  Started'
  <2>1. \A u \in Threads : loc[u].at = "start" \/ loc'[u].at = "start" => loc'[u] = loc[u]
    BY <1>2 DEF CancelOps
  <2>2. \A r \in Sockets, h \in Kinds : phase[r] = "open" /\ data[r] \in States =>
          /\ Range(op_queue_'[data[r]][h]) \subseteq Range(op_queue_[data[r]][h])
          /\ phase'[r] = "open" => data'[r] = data[r]
    <3>1. Range(<< >>) = {}
      BY DEF Range
    <3>2. data' = data
            /\ op_queue_' = [op_queue_ EXCEPT ![data[s]] = [h \in Kinds |-> << >>]]
      BY <1>2 DEF CancelOps, Abort, socketVars
    <3> QED
      BY <3>1, <3>2 DEF Types
  <2>3. \A n \in DOMAIN ops' : ops'[n].stage = "started" =>
          n \in DOMAIN ops /\ ops[n].stage = "started"
    <3>1. \A n \in DOMAIN ops : Moves(n)
      BY <1>2, OpsMove DEF Step
    <3>2. DOMAIN ops' = DOMAIN ops
      BY <1>2 DEF CancelOps, Abort
    <3> QED
      BY <3>1, <3>2 DEF Moves
  <2>4. Quiet
    BY <2>1, <2>2, <2>3 DEF Quiet
  <2> QED
    BY <1>2, <2>4, StartedAlone DEF Step
<1>3. ASSUME NEW s \in Sockets, DeregisterDescriptor(s)
      PROVE  Started'
  <2>1. \A u \in Threads : loc[u].at = "start" \/ loc'[u].at = "start" => loc'[u] = loc[u]
    BY <1>3 DEF DeregisterDescriptor
  <2>2. \A r \in Sockets, h \in Kinds : phase[r] = "open" /\ data[r] \in States =>
          /\ Range(op_queue_'[data[r]][h]) \subseteq Range(op_queue_[data[r]][h])
          /\ phase'[r] = "open" => data'[r] = data[r]
    <3>1. Range(<< >>) = {}
      BY DEF Range
    <3>2. data' = data
            /\ op_queue_' = [op_queue_ EXCEPT ![data[s]] = [h \in Kinds |-> << >>]]
      BY <1>3 DEF DeregisterDescriptor, Abort, socketVars
    <3> QED
      BY <3>1, <3>2 DEF Types
  <2>3. \A n \in DOMAIN ops' : ops'[n].stage = "started" =>
          n \in DOMAIN ops /\ ops[n].stage = "started"
    <3>1. \A n \in DOMAIN ops : Moves(n)
      BY <1>3, OpsMove DEF Step
    <3>2. DOMAIN ops' = DOMAIN ops
      BY <1>3 DEF DeregisterDescriptor, Abort
    <3> QED
      BY <3>1, <3>2 DEF Moves
  <2>4. Quiet
    BY <2>1, <2>2, <2>3 DEF Quiet
  <2> QED
    BY <1>3, <2>4, StartedAlone DEF Step
<1>4. ASSUME NEW s \in Sockets, CleanupDescriptorData(s)
      PROVE  Started'
  <2>1. \A u \in Threads : loc[u].at = "start" \/ loc'[u].at = "start" => loc'[u] = loc[u]
    BY <1>4 DEF CleanupDescriptorData
  <2>2. \A r \in Sockets, h \in Kinds : phase[r] = "open" /\ data[r] \in States =>
          /\ Range(op_queue_'[data[r]][h]) \subseteq Range(op_queue_[data[r]][h])
          /\ phase'[r] = "open" => data'[r] = data[r]
    BY <1>4 DEF CleanupDescriptorData, Types, stateVars
  <2>3. \A n \in DOMAIN ops' : ops'[n].stage = "started" =>
          n \in DOMAIN ops /\ ops[n].stage = "started"
    BY <1>4 DEF CleanupDescriptorData
  <2>4. Quiet
    BY <2>1, <2>2, <2>3 DEF Quiet
  <2> QED
    BY <1>4, <2>4, StartedAlone DEF Step
<1>5. ASSUME NEW s \in Sockets, NEW k \in Kinds, Arrive(s, k)
      PROVE  Started'
  <2>1. \A u \in Threads : loc[u].at = "start" \/ loc'[u].at = "start" => loc'[u] = loc[u]
    BY <1>5 DEF Arrive
  <2>2. \A r \in Sockets, h \in Kinds : phase[r] = "open" /\ data[r] \in States =>
          /\ Range(op_queue_'[data[r]][h]) \subseteq Range(op_queue_[data[r]][h])
          /\ phase'[r] = "open" => data'[r] = data[r]
    BY <1>5 DEF Arrive, socketVars, stateVars
  <2>3. \A n \in DOMAIN ops' : ops'[n].stage = "started" =>
          n \in DOMAIN ops /\ ops[n].stage = "started"
    BY <1>5 DEF Arrive
  <2>4. Quiet
    BY <2>1, <2>2, <2>3 DEF Quiet
  <2> QED
    BY <1>5, <2>4, StartedAlone DEF Step
<1>6. ASSUME NEW s \in Sockets, NEW d \in States, Register(s, d)
      PROVE  Started'
  <2>1. \A u \in Threads : loc[u].at = "start" \/ loc'[u].at = "start" => loc'[u] = loc[u]
    BY <1>6 DEF Register
  <2>2. \A r \in Sockets, h \in Kinds : phase[r] = "open" /\ data[r] \in States =>
          /\ Range(op_queue_'[data[r]][h]) \subseteq Range(op_queue_[data[r]][h])
          /\ phase'[r] = "open" => data'[r] = data[r]
    BY <1>6 DEF Register, Types
  <2>3. \A n \in DOMAIN ops' : ops'[n].stage = "started" =>
          n \in DOMAIN ops /\ ops[n].stage = "started"
    BY <1>6 DEF Register
  <2>4. Quiet
    BY <2>1, <2>2, <2>3 DEF Quiet
  <2> QED
    BY <1>6, <2>4, StartedAlone DEF Step
<1>7. ASSUME NEW t \in Threads, NEW s \in Sockets, NEW k \in Kinds, NEW size \in 1..2,
             StartsNow(t, s, k, size)
      PROVE  Started'
  <2>1. \A u \in Threads : loc[u].at = "start" \/ loc'[u].at = "start" => loc'[u] = loc[u]
    BY <1>7 DEF StartsNow
  <2>2. \A r \in Sockets, h \in Kinds : phase[r] = "open" /\ data[r] \in States =>
          /\ Range(op_queue_'[data[r]][h]) \subseteq Range(op_queue_[data[r]][h])
          /\ phase'[r] = "open" => data'[r] = data[r]
    BY <1>7 DEF StartsNow, socketVars
  <2>3. \A n \in DOMAIN ops' : ops'[n].stage = "started" =>
          n \in DOMAIN ops /\ ops[n].stage = "started"
    BY <1>7, NewOpIsOp, CompletedIsOp, OneMoreOp DEF StartsNow
  <2>4. Quiet
    BY <2>1, <2>2, <2>3 DEF Quiet
  <2> QED
    BY <1>7, <2>4, StartedAlone DEF Step
<1>8. ASSUME NEW t \in Threads, NEW s \in Sockets, NEW k \in Kinds, NEW size \in 1..2,
             NEW direct \in BOOLEAN, StartsLater(t, s, k, size, direct)
      PROVE  Started'
  <2> DEFINE new == Len(ops) + 1
  <2>1. /\ data[s] \in States /\ mutex_[data[s]] = None /\ data' = data
        /\ op_queue_' = op_queue_
    BY <1>8, OpenHasState DEF StartsLater, socketVars
  <2>2. /\ DOMAIN ops' = DOMAIN ops \cup {new}
        /\ \A n \in DOMAIN ops : ops'[n] = ops[n] /\ n < new
        /\ ops'[new].socket = s /\ ops'[new].kind = k
    BY <1>8, NewOpIsOp, OneMoreOp DEF StartsLater
  <2>3. /\ loc'[t].at = "start" /\ loc'[t].op = new /\ loc[t].at = "idle"
        /\ \A u \in Threads : u # t => loc'[u] = loc[u]
    BY <1>8, IdleAt DEF StartsLater, Types
  <2> HIDE DEF new
  <2>4. ASSUME NEW n \in DOMAIN ops', ops'[n].stage = "started"
        PROVE  \E u \in Threads : loc'[u].at = "start" /\ loc'[u].op = n
    <3>1. CASE n = new
      BY <2>3, <3>1
    <3>2. CASE n \in DOMAIN ops
      <4>1. PICK u \in Threads : loc[u].at = "start" /\ loc[u].op = n
        BY <2>2, <2>4, <3>2 DEF Started
      <4> QED
        BY <2>3, <4>1
    <3> QED
      BY <2>2, <3>1, <3>2
  <2>5. ASSUME NEW u \in Threads, loc'[u].at = "start"
        PROVE  \A n \in Range(op_queue_'[data'[ops'[loc'[u].op].socket]][ops'[loc'[u].op].kind]) :
                 n < loc'[u].op
    <3>1. CASE u = t
      <4>1. \A n \in Range(op_queue_[data[s]][k]) : n \in DOMAIN ops
        BY <2>1 DEF Queues
      <4> QED
        BY <2>1, <2>2, <2>3, <3>1, <4>1
    <3>2. CASE u # t
      <4>1. loc'[u] = loc[u] /\ loc[u].at = "start"
        BY <2>3, <2>5, <3>2
      <4>2. loc[u].op \in DOMAIN ops
        BY <4>1, StarterHas
      <4>3. \A n \in Range(op_queue_[data[ops[loc[u].op].socket]][ops[loc[u].op].kind]) :
              n < loc[u].op
        BY <4>1, Zenon DEF Started
      <4> QED
        BY <2>1, <2>2, <4>1, <4>2, <4>3, Zenon
    <3> QED
      BY <3>1, <3>2, Zenon
  <2> QED
    BY <2>4, <2>5 DEF Started
<1>9. ASSUME NEW t \in Threads, EpollWait(t)
      PROVE  Started'
  <2>1. \A u \in Threads : loc[u].at = "start" \/ loc'[u].at = "start" => loc'[u] = loc[u]
    BY <1>9, IdleAt DEF EpollWait, Types
  <2>2. \A r \in Sockets, h \in Kinds : phase[r] = "open" /\ data[r] \in States =>
          /\ Range(op_queue_'[data[r]][h]) \subseteq Range(op_queue_[data[r]][h])
          /\ phase'[r] = "open" => data'[r] = data[r]
    BY <1>9 DEF EpollWait, socketVars, stateVars
  <2>3. \A n \in DOMAIN ops' : ops'[n].stage = "started" =>
          n \in DOMAIN ops /\ ops[n].stage = "started"
    BY <1>9 DEF EpollWait
  <2>4. Quiet
    BY <2>1, <2>2, <2>3 DEF Quiet
  <2> QED
    BY <1>9, <2>4, StartedAlone DEF Step
<1>10. ASSUME NEW t \in Threads, Dispatch(t)
      PROVE  Started'
  <2>1. \A u \in Threads : loc[u].at = "start" \/ loc'[u].at = "start" => loc'[u] = loc[u]
    BY <1>10, IdleAt DEF Dispatch, Types
  <2>2. \A r \in Sockets, h \in Kinds : phase[r] = "open" /\ data[r] \in States =>
          /\ Range(op_queue_'[data[r]][h]) \subseteq Range(op_queue_[data[r]][h])
          /\ phase'[r] = "open" => data'[r] = data[r]
    BY <1>10 DEF Dispatch, socketVars, stateVars
  <2>3. \A n \in DOMAIN ops' : ops'[n].stage = "started" =>
          n \in DOMAIN ops /\ ops[n].stage = "started"
    BY <1>10 DEF Dispatch
  <2>4. Quiet
    BY <2>1, <2>2, <2>3 DEF Quiet
  <2> QED
    BY <1>10, <2>4, StartedAlone DEF Step
<1>11. ASSUME NEW t \in Threads, Lock(t)
      PROVE  Started'
  <2>1. \A u \in Threads : loc[u].at = "start" \/ loc'[u].at = "start" => loc'[u] = loc[u]
    BY <1>11, IdleAt, PlaceParts DEF Lock, Types
  <2>2. \A r \in Sockets, h \in Kinds : phase[r] = "open" /\ data[r] \in States =>
          /\ Range(op_queue_'[data[r]][h]) \subseteq Range(op_queue_[data[r]][h])
          /\ phase'[r] = "open" => data'[r] = data[r]
    BY <1>11 DEF Lock, socketVars, stateVars
  <2>3. \A n \in DOMAIN ops' : ops'[n].stage = "started" =>
          n \in DOMAIN ops /\ ops[n].stage = "started"
    BY <1>11 DEF Lock
  <2>4. Quiet
    BY <2>1, <2>2, <2>3 DEF Quiet
  <2> QED
    BY <1>11, <2>4, StartedAlone DEF Step
<1>12. ASSUME NEW t \in Threads, Leave(t)
      PROVE  Started'
  <2>1. \A u \in Threads : loc[u].at = "start" \/ loc'[u].at = "start" => loc'[u] = loc[u]
    BY <1>12, IdleAt DEF Leave, Types
  <2>2. \A r \in Sockets, h \in Kinds : phase[r] = "open" /\ data[r] \in States =>
          /\ Range(op_queue_'[data[r]][h]) \subseteq Range(op_queue_[data[r]][h])
          /\ phase'[r] = "open" => data'[r] = data[r]
    BY <1>12 DEF Leave, socketVars, stateVars
  <2>3. \A n \in DOMAIN ops' : ops'[n].stage = "started" =>
          n \in DOMAIN ops /\ ops[n].stage = "started"
    <3>1. \A n \in DOMAIN ops : Moves(n)
      BY <1>12, OpsMove DEF Step
    <3>2. DOMAIN ops' = DOMAIN ops
      BY <1>12 DEF Leave
    <3> QED
      BY <3>1, <3>2 DEF Moves
  <2>4. Quiet
    BY <2>1, <2>2, <2>3 DEF Quiet
  <2> QED
    BY <1>12, <2>4, StartedAlone DEF Step
<1>13. ASSUME NEW t \in Threads, NEW d \in States, Dequeue(t, d)
      PROVE  Started'
  <2>1. \A u \in Threads : loc[u].at = "start" \/ loc'[u].at = "start" => loc'[u] = loc[u]
    BY <1>13, IdleAt, PlaceParts DEF Dequeue, Types
  <2>2. \A r \in Sockets, h \in Kinds : phase[r] = "open" /\ data[r] \in States =>
          /\ Range(op_queue_'[data[r]][h]) \subseteq Range(op_queue_[data[r]][h])
          /\ phase'[r] = "open" => data'[r] = data[r]
    BY <1>13 DEF Dequeue, socketVars, stateVars
  <2>3. \A n \in DOMAIN ops' : ops'[n].stage = "started" =>
          n \in DOMAIN ops /\ ops[n].stage = "started"
    BY <1>13 DEF Dequeue
  <2>4. Quiet
    BY <2>1, <2>2, <2>3 DEF Quiet
  <2> QED
    BY <1>13, <2>4, StartedAlone DEF Step
<1>14. ASSUME NEW t \in Threads, NEW k \in Kinds, Misses(t, k)
      PROVE  Started'
  <2>1. \A u \in Threads : loc[u].at = "start" \/ loc'[u].at = "start" => loc'[u] = loc[u]
    BY <1>14, IdleAt, PlaceParts DEF Misses, Types
  <2>2. \A r \in Sockets, h \in Kinds : phase[r] = "open" /\ data[r] \in States =>
          /\ Range(op_queue_'[data[r]][h]) \subseteq Range(op_queue_[data[r]][h])
          /\ phase'[r] = "open" => data'[r] = data[r]
    BY <1>14 DEF Misses, socketVars, stateVars
  <2>3. \A n \in DOMAIN ops' : ops'[n].stage = "started" =>
          n \in DOMAIN ops /\ ops[n].stage = "started"
    BY <1>14 DEF Misses
  <2>4. Quiet
    BY <2>1, <2>2, <2>3 DEF Quiet
  <2> QED
    BY <1>14, <2>4, StartedAlone DEF Step
<1>15. ASSUME NEW t \in Threads, NEW k \in Kinds, NEW i \in DOMAIN ops, Takes(t, k, i)
      PROVE  Started'
  <2>1. \A u \in Threads : loc[u].at = "start" \/ loc'[u].at = "start" => loc'[u] = loc[u]
    BY <1>15, PlaceParts DEF Takes, Performed, Types
  <2>2. \A r \in Sockets, h \in Kinds : phase[r] = "open" /\ data[r] \in States =>
          /\ Range(op_queue_'[data[r]][h]) \subseteq Range(op_queue_[data[r]][h])
          /\ phase'[r] = "open" => data'[r] = data[r]
    <3> DEFINE d == loc[t].state
    <3>1. d \in States /\ op_queue_[d][k] \in Seq(Nat) /\ op_queue_[d][k] # << >>
            /\ Increasing(op_queue_[d][k])
      BY <1>15, PlaceParts DEF Takes, Types, Queues
    <3>2. Range(Tail(op_queue_[d][k])) \subseteq Range(op_queue_[d][k])
      BY <3>1, HeadAndTail
    <3>3. data' = data /\ op_queue_' = [op_queue_ EXCEPT ![d][k] = Tail(op_queue_[d][k])]
      BY <1>15 DEF Takes, socketVars
    <3>4. \A e \in States, h \in Kinds :
            op_queue_'[e][h] = IF e = d /\ h = k THEN Tail(op_queue_[d][k])
                                                 ELSE op_queue_[e][h]
      BY <3>1, <3>3 DEF Types
    <3> HIDE DEF d
    <3> QED
      BY <3>2, <3>3, <3>4
  <2>3. \A n \in DOMAIN ops' : ops'[n].stage = "started" =>
          n \in DOMAIN ops /\ ops[n].stage = "started"
    <3>1. \A n \in DOMAIN ops : Moves(n)
      BY <1>15, OpsMove DEF Step
    <3>2. DOMAIN ops' = DOMAIN ops
      BY <1>15 DEF Takes
    <3> QED
      BY <3>1, <3>2 DEF Moves
  <2>4. Quiet
    BY <2>1, <2>2, <2>3 DEF Quiet
  <2> QED
    BY <1>15, <2>4, StartedAlone DEF Step
<1>16. ASSUME NEW t \in Threads, NEW i \in DOMAIN ops, NEW s \in Sockets, NEW k \in Kinds,
             Enqueues(t, i, s, k)
      PROVE  Started'
  <2>1. /\ loc[t].at = "start" /\ i = loc[t].op /\ s = ops[i].socket /\ k = ops[i].kind
        /\ data' = data /\ DOMAIN ops' = DOMAIN ops
        /\ op_queue_' = [op_queue_ EXCEPT ![data[s]][k] = Append(@, i)]
        /\ \A n \in DOMAIN ops : n # i => ops'[n] = ops[n]
        /\ ops'[i] = [ops[i] EXCEPT !.stage = "queued"]
    BY <1>16, Zenon DEF Enqueues, socketVars
  <2>2. data[s] \in States /\ mutex_[data[s]] = t
    BY <2>1, StarterHas, Zenon
  <2>3. loc'[t].at = "idle" /\ \A u \in Threads : u # t => loc'[u] = loc[u]
    BY <1>16, IdleAt DEF Enqueues, Types
  <2>4. ASSUME NEW n \in DOMAIN ops', ops'[n].stage = "started"
        PROVE  \E u \in Threads : loc'[u].at = "start" /\ loc'[u].op = n
    <3>4. ops'[i] = [ops[i] EXCEPT !.stage = "queued"] /\ ops[i] \in Op
      BY <1>16, OpParts, Zenon DEF Enqueues
    <3>5. ops'[i].stage = "queued"
      BY <3>4, StageChanged
    <3>1. n # i
      BY <2>4, <3>5
    <3>6. n \in DOMAIN ops /\ ops'[n] = ops[n]
      BY <1>16, <3>1, Zenon DEF Enqueues
    <3>7. ops[n].stage = "started"
      BY <2>4, <3>6
    <3>2. PICK u \in Threads : loc[u].at = "start" /\ loc[u].op = n
      BY <3>6, <3>7 DEF Started
    <3>3. u # t
      BY <2>1, <3>1, <3>2, Zenon
    <3> QED
      BY <2>3, <3>2, <3>3
  <2>5. ASSUME NEW u \in Threads, loc'[u].at = "start"
        PROVE  \A n \in Range(op_queue_'[data'[ops'[loc'[u].op].socket]][ops'[loc'[u].op].kind]) :
                 n < loc'[u].op
    <3>1. u # t /\ loc'[u] = loc[u] /\ loc[u].at = "start"
      BY <2>3, <2>5
    <3>2. /\ loc[u].op \in DOMAIN ops /\ mutex_[data[ops[loc[u].op].socket]] = u
          /\ data[ops[loc[u].op].socket] \in States /\ ops[loc[u].op].kind \in Kinds
      BY <3>1, StarterHas
    <3>3. loc[u].op # i /\ data[ops[loc[u].op].socket] # data[s]
      BY <2>1, <2>2, <3>1, <3>2, Zenon
    <3>4. op_queue_'[data[ops[loc[u].op].socket]] = op_queue_[data[ops[loc[u].op].socket]]
      BY <2>1, <2>2, <3>2, <3>3 DEF Types
    <3>5. \A n \in Range(op_queue_[data[ops[loc[u].op].socket]][ops[loc[u].op].kind]) :
            n < loc[u].op
      BY <3>1, Zenon DEF Started
    <3> QED
      BY <2>1, <3>1, <3>2, <3>3, <3>4, <3>5, Zenon
  <2> QED
    BY <2>4, <2>5 DEF Started
<1>17. ASSUME NEW i \in DOMAIN ops, RunPosted(i)
      PROVE  Started'
  <2>1. \A u \in Threads : loc[u].at = "start" \/ loc'[u].at = "start" => loc'[u] = loc[u]
    BY <1>17 DEF RunPosted
  <2>2. \A r \in Sockets, h \in Kinds : phase[r] = "open" /\ data[r] \in States =>
          /\ Range(op_queue_'[data[r]][h]) \subseteq Range(op_queue_[data[r]][h])
          /\ phase'[r] = "open" => data'[r] = data[r]
    BY <1>17 DEF RunPosted, socketVars, stateVars
  <2>3. \A n \in DOMAIN ops' : ops'[n].stage = "started" =>
          n \in DOMAIN ops /\ ops[n].stage = "started"
    <3>1. \A n \in DOMAIN ops : Moves(n)
      BY <1>17, OpsMove DEF Step
    <3>2. DOMAIN ops' = DOMAIN ops
      BY <1>17 DEF RunPosted
    <3> QED
      BY <3>1, <3>2 DEF Moves
  <2>4. Quiet
    BY <2>1, <2>2, <2>3 DEF Quiet
  <2> QED
    BY <1>17, <2>4, StartedAlone DEF Step
<1>18. CASE UNCHANGED reactorVars
  <2>1. Quiet
    BY <1>18 DEF Quiet, reactorVars, kernelVars, socketVars, stateVars, queueVars
  <2> QED
    BY <1>18, <2>1, StartedAlone
<1> QED
  BY <1>1, <1>2, <1>3, <1>4, <1>5, <1>6, <1>7, <1>8, <1>9, <1>10, <1>11, <1>12, <1>13,
       <1>14, <1>15, <1>16, <1>17, <1>18 DEF Step

-----------------------------------------------------------------------------
(* The order in which operations take their data.                          *)

\* The operations that took data, of a socket and a kind.
Ranked(s, k) == {i \in DOMAIN ops : /\ ops[i].socket = s /\ ops[i].kind = k
                                    /\ ops[i].rank # 0}

\* They are finitely many, and their number is the rank.
LEMMA RankedFinite ==
  ASSUME Types, NEW s, NEW k
  PROVE  IsFiniteSet(Ranked(s, k)) /\ Rank(s, k) = Cardinality(Ranked(s, k))
         /\ Rank(s, k) \in Nat
<1>1. IsFiniteSet(1..Len(ops)) /\ Ranked(s, k) \subseteq 1..Len(ops)
  BY OpParts, FS_Interval DEF Ranked
<1>2. IsFiniteSet(Ranked(s, k)) /\ Cardinality(Ranked(s, k)) \in Nat
  BY <1>1, FS_Subset, FS_CardinalityType
<1> QED
  BY <1>2 DEF Rank, Ranked

\* The same in the next state.
LEMMA RankedFiniteThen ==
  ASSUME Types', NEW s, NEW k
  PROVE  IsFiniteSet(Ranked(s, k)') /\ Rank(s, k)' = Cardinality(Ranked(s, k)')
         /\ Rank(s, k)' \in Nat
<1>1. Len(ops') \in Nat /\ DOMAIN ops' = 1..Len(ops')
  <2>1. ops' \in Seq(Op)
    BY DEF Types
  <2> QED
    BY <2>1, LenProperties
<1>2. IsFiniteSet(1..Len(ops')) /\ Ranked(s, k)' \subseteq 1..Len(ops')
  BY <1>1, FS_Interval DEF Ranked
<1>3. IsFiniteSet(Ranked(s, k)') /\ Cardinality(Ranked(s, k)') \in Nat
  BY <1>2, FS_Subset, FS_CardinalityType
<1> QED
  BY <1>3 DEF Rank, Ranked

\* No rank is lost.
LEMMA RankGrows ==
  ASSUME Types, Types', Owned, Locked, Queues, Popped, Step \/ UNCHANGED reactorVars,
         NEW s, NEW k
  PROVE  Ranked(s, k) \subseteq Ranked(s, k)' /\ Rank(s, k) <= Rank(s, k)'
<1>1. ASSUME NEW n \in Ranked(s, k)
      PROVE  n \in Ranked(s, k)'
  <2>1. n \in DOMAIN ops /\ ops[n].socket = s /\ ops[n].kind = k /\ ops[n].rank # 0
    BY DEF Ranked
  <2>2. n \in DOMAIN ops' /\ ops'[n].socket = s /\ ops'[n].kind = k
    BY <2>1, OpsStay
  <2>3. ops'[n].rank # 0
    BY <2>1, OpsMove DEF Moves
  <2> QED
    BY <2>2, <2>3 DEF Ranked
<1>2. Cardinality(Ranked(s, k)) <= Cardinality(Ranked(s, k)')
  BY <1>1, RankedFiniteThen, FS_Subset
<1> QED
  BY <1>1, <1>2, RankedFinite, RankedFiniteThen

\* One operation more has taken data.
LEMMA RankOfOneMore ==
  ASSUME Types, Types', NEW n \in DOMAIN ops', NEW s, NEW k,
         ops'[n].socket = s, ops'[n].kind = k, ops'[n].rank # 0, n \notin Ranked(s, k),
         DOMAIN ops \subseteq DOMAIN ops', DOMAIN ops' \subseteq DOMAIN ops \cup {n},
         \A m \in DOMAIN ops : m # n => ops'[m] = ops[m]
  PROVE  Rank(s, k)' = Rank(s, k) + 1
<1>1. Ranked(s, k)' = Ranked(s, k) \cup {n}
  BY DEF Ranked
<1>2. IsFiniteSet(Ranked(s, k)) /\ Cardinality(Ranked(s, k)) \in Nat
  BY RankedFinite
<1>3. Cardinality(Ranked(s, k) \cup {n}) = Cardinality(Ranked(s, k)) + 1
  BY <1>2, FS_AddElement
<1> QED
  BY <1>1, <1>3, RankedFinite, RankedFiniteThen

\* A step in which no operation takes data.
TakesNothing ==
  \A n \in DOMAIN ops' :
    \/ n \in DOMAIN ops /\ ops'[n].rank = ops[n].rank
    \/ n \notin DOMAIN ops /\ ops'[n].rank = 0 /\ ops'[n].stage = "started"

\* It keeps the ranks below what they count, and the order.
LEMMA OrderAlone ==
  ASSUME Types, Types', Owned, Locked, Queues, Popped, Ranks, DataInOrder,
         Step \/ UNCHANGED reactorVars, TakesNothing
  PROVE  Ranks' /\ DataInOrder'
<1>1. ASSUME NEW n \in DOMAIN ops'
      PROVE  /\ ops'[n].stage \in {"started", "queued"} => ops'[n].rank = 0
             /\ ops'[n].stage = "popped" => ops'[n].rank # 0
  <2>1. CASE n \in DOMAIN ops
    <3>1. ops'[n].rank = ops[n].rank /\ Moves(n)
      BY <2>1, OpsMove DEF TakesNothing
    <3>2. /\ ops[n].stage \in {"started", "queued"} => ops[n].rank = 0
          /\ ops[n].stage = "popped" => ops[n].rank # 0
      BY <2>1 DEF Ranks
    <3> QED
      BY <3>1, <3>2 DEF Moves
  <2>2. CASE n \notin DOMAIN ops
    BY <2>2 DEF TakesNothing
  <2> QED
    BY <2>1, <2>2
<1>3. ASSUME NEW s \in Sockets, NEW k \in Kinds, NEW n \in DOMAIN ops',
             ops'[n].socket = s, ops'[n].kind = k
      PROVE  ops'[n].rank <= Rank(s, k)'
  <2>1. Rank(s, k) <= Rank(s, k)' /\ Rank(s, k) \in Nat /\ Rank(s, k)' \in Nat
    BY RankGrows, RankedFinite, RankedFiniteThen
  <2>2. CASE n \in DOMAIN ops
    <3>1. ops'[n].rank = ops[n].rank /\ ops[n].socket = s /\ ops[n].kind = k
      BY <1>3, <2>2, OpsStay DEF TakesNothing
    <3>2. ops[n].rank <= Rank(s, k) /\ ops[n].rank \in Nat
      BY <2>2, <3>1, OpParts DEF Ranks
    <3> QED
      BY <2>1, <3>1, <3>2
  <2>3. CASE n \notin DOMAIN ops
    <3>1. ops'[n].rank = 0
      BY <2>3 DEF TakesNothing
    <3> QED
      BY <2>1, <3>1
  <2> QED
    BY <2>2, <2>3
<1>2. ASSUME NEW i \in DOMAIN ops', NEW j \in DOMAIN ops', i < j,
             ops'[i].socket = ops'[j].socket, ops'[i].kind = ops'[j].kind, ops'[j].rank # 0
      PROVE  \/ ops'[i].rank \in 1..(ops'[j].rank - 1)
             \/ ops'[i].rank = 0 /\ ops'[i].stage \in {"posted", "done"}
  <2>1. j \in DOMAIN ops
    BY <1>2 DEF TakesNothing
  <2>2. i \in DOMAIN ops
    <3>1. DOMAIN ops = 1..Len(ops) /\ Len(ops) \in Nat
      BY OpParts
    <3>2. ops' \in Seq(Op) /\ DOMAIN ops' = 1..Len(ops') /\ Len(ops') \in Nat
      BY LenProperties DEF Types
    <3> QED
      BY <1>2, <2>1, <3>1, <3>2
  <2>3. /\ ops'[i].rank = ops[i].rank /\ ops'[j].rank = ops[j].rank
        /\ ops[i].socket = ops[j].socket /\ ops[i].kind = ops[j].kind /\ Moves(i)
    BY <1>2, <2>1, <2>2, OpsStay, OpsMove DEF TakesNothing
  <2>4. \/ ops[i].rank \in 1..(ops[j].rank - 1)
        \/ ops[i].rank = 0 /\ ops[i].stage \in {"posted", "done"}
    BY <1>2, <2>1, <2>2, <2>3 DEF DataInOrder
  <2> QED
    BY <2>3, <2>4 DEF Moves
<1>4. Ranks'
  BY <1>1, <1>3 DEF Ranks
<1>5. DataInOrder'
  BY <1>2 DEF DataInOrder
<1> QED
  BY <1>4, <1>5

\* An operation that completes as the oldest one of its socket and kind that
\* waits.
LEMMA OrderOldest ==
  ASSUME Types, Types', Ranks, DataInOrder, NEW n \in DOMAIN ops',
         NEW s \in Sockets, NEW k \in Kinds,
         ops'[n].socket = s, ops'[n].kind = k, ops'[n].rank = 1 + Rank(s, k),
         ops'[n].stage \in {"popped", "posted"},
         n \in DOMAIN ops => ops[n].socket = s /\ ops[n].kind = k /\ ops[n].rank = 0
                               /\ ops[n].stage = "queued",
         DOMAIN ops \subseteq DOMAIN ops', DOMAIN ops' \subseteq DOMAIN ops \cup {n},
         \A m \in DOMAIN ops : m # n => ops'[m] = ops[m],
         \A m \in DOMAIN ops : m < n /\ ops[m].socket = s /\ ops[m].kind = k =>
           ops[m].rank # 0 \/ ops[m].stage \in {"posted", "done"}
  PROVE  Ranks' /\ DataInOrder'
<1>1. Rank(s, k) \in Nat
  BY RankedFinite
<1>2. ops'[n].rank = Rank(s, k) + 1 /\ ops'[n].rank # 0
  BY <1>1
<1>5. n \notin Ranked(s, k)
  BY DEF Ranked
<1>6. Rank(s, k)' = Rank(s, k) + 1
  BY <1>2, <1>5, RankOfOneMore
<1>7. ASSUME NEW m \in DOMAIN ops'
      PROVE  /\ ops'[m].stage \in {"started", "queued"} => ops'[m].rank = 0
             /\ ops'[m].stage = "popped" => ops'[m].rank # 0
  <2>1. CASE m = n
    BY <1>2, <2>1
  <2>2. CASE m # n
    BY <2>2 DEF Ranks
  <2> QED
    BY <2>1, <2>2
<1>3. ASSUME NEW r \in Sockets, NEW h \in Kinds, NEW m \in DOMAIN ops',
             ops'[m].socket = r, ops'[m].kind = h
      PROVE  ops'[m].rank <= Rank(r, h)'
  <2>1. CASE m = n
    <3>1. r = s /\ h = k
      BY <1>3, <2>1
    <3> QED
      BY <1>1, <1>2, <1>6, <2>1, <3>1
  <2>2. CASE m # n
    <3>1. m \in DOMAIN ops /\ ops'[m] = ops[m]
      BY <2>2
    <3>2. Ranked(r, h) \subseteq Ranked(r, h)'
      <4> SUFFICES ASSUME NEW l \in Ranked(r, h)
                   PROVE  l \in Ranked(r, h)'
        OBVIOUS
      <4>1. l \in DOMAIN ops /\ ops[l].socket = r /\ ops[l].kind = h /\ ops[l].rank # 0
        BY DEF Ranked
      <4>2. l # n /\ l \in DOMAIN ops'
        BY <4>1
      <4>3. ops'[l] = ops[l]
        BY <4>1, <4>2
      <4> QED
        BY <4>1, <4>2, <4>3 DEF Ranked
    <3>3. Cardinality(Ranked(r, h)) <= Cardinality(Ranked(r, h)')
      BY <3>2, RankedFiniteThen, FS_Subset
    <3>4. Rank(r, h) <= Rank(r, h)' /\ Rank(r, h) \in Nat /\ Rank(r, h)' \in Nat
      BY <3>3, RankedFinite, RankedFiniteThen
    <3>5. ops[m].rank <= Rank(r, h) /\ ops[m].rank \in Nat
      BY <1>3, <3>1, OpParts DEF Ranks
    <3> QED
      BY <3>1, <3>4, <3>5
  <2> QED
    BY <2>1, <2>2
<1>4. ASSUME NEW i \in DOMAIN ops', NEW j \in DOMAIN ops', i < j,
             ops'[i].socket = ops'[j].socket, ops'[i].kind = ops'[j].kind, ops'[j].rank # 0
      PROVE  \/ ops'[i].rank \in 1..(ops'[j].rank - 1)
             \/ ops'[i].rank = 0 /\ ops'[i].stage \in {"posted", "done"}
  <2>0. ops' \in Seq(Op) /\ DOMAIN ops' = 1..Len(ops') /\ Len(ops') \in Nat
    BY LenProperties DEF Types
  <2>1. CASE j = n
    <3>1. i # n /\ i \in DOMAIN ops /\ ops'[i] = ops[i]
      BY <1>4, <2>0, <2>1
    <3>2. ops[i].rank # 0 \/ ops[i].stage \in {"posted", "done"}
      BY <1>4, <2>1, <3>1
    <3>3. ops[i].rank <= Rank(s, k) /\ ops[i].rank \in Nat
      BY <1>4, <2>1, <3>1, OpParts DEF Ranks
    <3>4. ops[i].rank # 0 => ops[i].rank \in 1..Rank(s, k)
      BY <1>1, <3>3
    <3>5. ops'[j].rank - 1 = Rank(s, k)
      BY <1>1, <1>2, <2>1
    <3> QED
      <4>1. CASE ops[i].rank # 0
        BY <3>1, <3>4, <3>5, <4>1
      <4>2. CASE ops[i].rank = 0
        BY <3>1, <3>2, <4>2
      <4> QED
        BY <4>1, <4>2
  <2>2. CASE j # n
    <3>1. j \in DOMAIN ops /\ ops'[j] = ops[j]
      BY <2>2
    <3>2. CASE i = n
      <4>1. n \in DOMAIN ops
        <5>1. DOMAIN ops = 1..Len(ops) /\ Len(ops) \in Nat
          BY OpParts
        <5> QED
          BY <1>4, <2>0, <3>1, <3>2, <5>1
      <4>2. \/ ops[n].rank \in 1..(ops[j].rank - 1)
            \/ ops[n].rank = 0 /\ ops[n].stage \in {"posted", "done"}
        BY <1>4, <3>1, <3>2, <4>1 DEF DataInOrder
      <4> QED
        BY <4>1, <4>2
    <3>3. CASE i # n
      <4>1. i \in DOMAIN ops /\ ops'[i] = ops[i]
        BY <3>3
      <4> QED
        BY <1>4, <3>1, <4>1 DEF DataInOrder
    <3> QED
      BY <3>2, <3>3
  <2> QED
    BY <2>1, <2>2
<1>8. Ranks'
  BY <1>3, <1>7 DEF Ranks
<1>9. DataInOrder'
  BY <1>4 DEF DataInOrder
<1> QED
  BY <1>8, <1>9

\* Every step keeps the order in which operations take their data: only the
\* oldest one that waits can complete.
LEMMA OrderKept ==
  ASSUME Types, Types', Owned, Locked, Queues, Started, Popped, Ranks,
         DataInOrder,
         Step \/ UNCHANGED reactorVars
  PROVE  Ranks' /\ DataInOrder'
<1>1. ASSUME NEW s \in Sockets, PeerEnds(s)
      PROVE  Ranks' /\ DataInOrder'
  <2>1. TakesNothing
    BY <1>1 DEF TakesNothing, PeerEnds
  <2> QED
    BY <1>1, <2>1, OrderAlone DEF Step
<1>2. ASSUME NEW s \in Sockets, CancelOps(s)
      PROVE  Ranks' /\ DataInOrder'
  <2>1. TakesNothing
    <3>1. DOMAIN ops' = DOMAIN ops
      BY <1>2 DEF CancelOps, Abort
    <3>2. ASSUME NEW n \in DOMAIN ops
          PROVE  ops'[n].rank = ops[n].rank
      <4>1. \E g \in {"done", "posted", "queued"} :
              ops'[n] = ops[n] \/ ops'[n] = [ops[n] EXCEPT !.stage = g]
        BY <1>2 DEF CancelOps, Abort
      <4>2. PICK g \in {"done", "posted", "queued"} :
              ops'[n] = ops[n] \/ ops'[n] = [ops[n] EXCEPT !.stage = g]
        BY <4>1
      <4>3. CASE ops'[n] = ops[n]
        BY <4>3
      <4>4. CASE ops'[n] = [ops[n] EXCEPT !.stage = g]
        <5>1. ops'[n] = [ops[n] EXCEPT !.stage = g] /\ ops[n] \in Op
          BY <4>4, OpParts
        <5> QED
          BY <5>1, StageChanged
      <4> QED
        BY <4>2, <4>3, <4>4
    <3> QED
      BY <3>1, <3>2 DEF TakesNothing
  <2> QED
    BY <1>2, <2>1, OrderAlone DEF Step
<1>3. ASSUME NEW s \in Sockets, DeregisterDescriptor(s)
      PROVE  Ranks' /\ DataInOrder'
  <2>1. TakesNothing
    <3>1. DOMAIN ops' = DOMAIN ops
      BY <1>3 DEF DeregisterDescriptor, Abort
    <3>2. ASSUME NEW n \in DOMAIN ops
          PROVE  ops'[n].rank = ops[n].rank
      <4>1. \E g \in {"done", "posted", "queued"} :
              ops'[n] = ops[n] \/ ops'[n] = [ops[n] EXCEPT !.stage = g]
        BY <1>3 DEF DeregisterDescriptor, Abort
      <4>2. PICK g \in {"done", "posted", "queued"} :
              ops'[n] = ops[n] \/ ops'[n] = [ops[n] EXCEPT !.stage = g]
        BY <4>1
      <4>3. CASE ops'[n] = ops[n]
        BY <4>3
      <4>4. CASE ops'[n] = [ops[n] EXCEPT !.stage = g]
        <5>1. ops'[n] = [ops[n] EXCEPT !.stage = g] /\ ops[n] \in Op
          BY <4>4, OpParts
        <5> QED
          BY <5>1, StageChanged
      <4> QED
        BY <4>2, <4>3, <4>4
    <3> QED
      BY <3>1, <3>2 DEF TakesNothing
  <2> QED
    BY <1>3, <2>1, OrderAlone DEF Step
<1>4. ASSUME NEW s \in Sockets, CleanupDescriptorData(s)
      PROVE  Ranks' /\ DataInOrder'
  <2>1. TakesNothing
    BY <1>4 DEF TakesNothing, CleanupDescriptorData
  <2> QED
    BY <1>4, <2>1, OrderAlone DEF Step
<1>5. ASSUME NEW s \in Sockets, NEW k \in Kinds, Arrive(s, k)
      PROVE  Ranks' /\ DataInOrder'
  <2>1. TakesNothing
    BY <1>5 DEF TakesNothing, Arrive
  <2> QED
    BY <1>5, <2>1, OrderAlone DEF Step
<1>6. ASSUME NEW s \in Sockets, NEW d \in States, Register(s, d)
      PROVE  Ranks' /\ DataInOrder'
  <2>1. TakesNothing
    BY <1>6 DEF TakesNothing, Register
  <2> QED
    BY <1>6, <2>1, OrderAlone DEF Step
<1>7. ASSUME NEW t \in Threads, NEW s \in Sockets, NEW k \in Kinds, NEW size \in 1..2,
             StartsNow(t, s, k, size)
      PROVE  Ranks' /\ DataInOrder'
  <2> DEFINE n == Len(ops) + 1
  <2>1. /\ DOMAIN ops' = DOMAIN ops \cup {n} /\ n \notin DOMAIN ops
        /\ \A m \in DOMAIN ops : ops'[m] = ops[m]
        /\ ops'[n] = Completed(NewOp(s, k, size), "posted")
    BY <1>7, NewOpIsOp, CompletedIsOp, OneMoreOp DEF StartsNow
  <2>2. /\ ops'[n].socket = s /\ ops'[n].kind = k /\ ops'[n].rank = 1 + Rank(s, k)
        /\ ops'[n].stage = "posted"
    BY <2>1, NewOpIsOp, CompletedIsOp
  <2>3. data[s] \in States /\ mutex_[data[s]] = None /\ op_queue_[data[s]][k] = << >>
    BY <1>7, OpenHasState DEF StartsNow
  <2>4. ASSUME NEW m \in DOMAIN ops, ops[m].socket = s, ops[m].kind = k, ops[m].rank = 0
        PROVE  ops[m].stage \in {"posted", "done"}
    <3>1. ops[m].stage # "popped"
      BY <2>4 DEF Ranks
    <3>2. ops[m].stage # "started"
      <4>1. SUFFICES ASSUME ops[m].stage = "started" PROVE FALSE
        OBVIOUS
      <4>2. PICK u \in Threads : loc[u].at = "start" /\ loc[u].op = m
        BY <4>1 DEF Started
      <4>3. mutex_[data[s]] # None
        BY <2>4, <4>2, StarterHas
      <4> QED
        BY <2>3, <4>3
    <3>3. ops[m].stage # "queued"
      <4>1. Range(<< >>) = {}
        BY DEF Range
      <4> QED
        BY <2>3, <2>4, <4>1 DEF Queues
    <3> QED
      BY <3>1, <3>2, <3>3, OpParts
  <2> HIDE DEF n
  <2> QED
    BY <2>1, <2>2, <2>4, OrderOldest
<1>8. ASSUME NEW t \in Threads, NEW s \in Sockets, NEW k \in Kinds, NEW size \in 1..2,
             NEW direct \in BOOLEAN, StartsLater(t, s, k, size, direct)
      PROVE  Ranks' /\ DataInOrder'
  <2>1. TakesNothing
    BY <1>8, NewOpIsOp, OneMoreOp DEF TakesNothing, StartsLater
  <2> QED
    BY <1>8, <2>1, OrderAlone DEF Step
<1>9. ASSUME NEW t \in Threads, EpollWait(t)
      PROVE  Ranks' /\ DataInOrder'
  <2>1. TakesNothing
    BY <1>9 DEF TakesNothing, EpollWait
  <2> QED
    BY <1>9, <2>1, OrderAlone DEF Step
<1>10. ASSUME NEW t \in Threads, Dispatch(t)
      PROVE  Ranks' /\ DataInOrder'
  <2>1. TakesNothing
    BY <1>10 DEF TakesNothing, Dispatch
  <2> QED
    BY <1>10, <2>1, OrderAlone DEF Step
<1>11. ASSUME NEW t \in Threads, Lock(t)
      PROVE  Ranks' /\ DataInOrder'
  <2>1. TakesNothing
    BY <1>11 DEF TakesNothing, Lock
  <2> QED
    BY <1>11, <2>1, OrderAlone DEF Step
<1>12. ASSUME NEW t \in Threads, Leave(t)
      PROVE  Ranks' /\ DataInOrder'
  <2>1. TakesNothing
    <3>1. DOMAIN ops' = DOMAIN ops
      BY <1>12 DEF Leave
    <3>2. ASSUME NEW n \in DOMAIN ops
          PROVE  ops'[n].rank = ops[n].rank
      <4>1. \E g \in {"done", "posted", "queued"} :
              ops'[n] = ops[n] \/ ops'[n] = [ops[n] EXCEPT !.stage = g]
        BY <1>12 DEF Leave
      <4>2. PICK g \in {"done", "posted", "queued"} :
              ops'[n] = ops[n] \/ ops'[n] = [ops[n] EXCEPT !.stage = g]
        BY <4>1
      <4>3. CASE ops'[n] = ops[n]
        BY <4>3
      <4>4. CASE ops'[n] = [ops[n] EXCEPT !.stage = g]
        <5>1. ops'[n] = [ops[n] EXCEPT !.stage = g] /\ ops[n] \in Op
          BY <4>4, OpParts
        <5> QED
          BY <5>1, StageChanged
      <4> QED
        BY <4>2, <4>3, <4>4
    <3> QED
      BY <3>1, <3>2 DEF TakesNothing
  <2> QED
    BY <1>12, <2>1, OrderAlone DEF Step
<1>13. ASSUME NEW t \in Threads, NEW d \in States, Dequeue(t, d)
      PROVE  Ranks' /\ DataInOrder'
  <2>1. TakesNothing
    BY <1>13 DEF TakesNothing, Dequeue
  <2> QED
    BY <1>13, <2>1, OrderAlone DEF Step
<1>14. ASSUME NEW t \in Threads, NEW k \in Kinds, Misses(t, k)
      PROVE  Ranks' /\ DataInOrder'
  <2>1. TakesNothing
    BY <1>14 DEF TakesNothing, Misses
  <2> QED
    BY <1>14, <2>1, OrderAlone DEF Step
<1>15. ASSUME NEW t \in Threads, NEW k \in Kinds, NEW i \in DOMAIN ops, Takes(t, k, i)
      PROVE  Ranks' /\ DataInOrder'
  <2> DEFINE d == loc[t].state
             q == op_queue_[d][k]
  <2>1. d \in States /\ q \in Seq(Nat) /\ q # << >> /\ i = Head(q) /\ Increasing(q)
          /\ mutex_[d] = t
        /\ loc[t].at = "perform"
    BY <1>15, PerformerHas DEF Takes, Types, Queues
  <2>2. /\ ops[i].stage = "queued" /\ ops[i].kind = k /\ data[ops[i].socket] = d
        /\ i \in Range(q) /\ \A n \in Range(q) : i <= n
    BY <2>1, HeadIsQueued, HeadAndTail
  <2>3. PICK s \in Sockets : s = ops[i].socket
    BY OpParts
  <2>4. ops[i].rank = 0
    BY <2>2 DEF Ranks
  <2>5. /\ DOMAIN ops' = DOMAIN ops /\ \A m \in DOMAIN ops : m # i => ops'[m] = ops[m]
        /\ ops'[i] = Completed(ops[i], "popped")
    BY <1>15 DEF Takes
  <2>6. /\ ops'[i].socket = s /\ ops'[i].kind = k /\ ops'[i].rank = 1 + Rank(s, k)
        /\ ops'[i].stage = "popped"
    BY <2>2, <2>3, <2>5, OpParts, CompletedIsOp
  <2>7. ASSUME NEW m \in DOMAIN ops, m < i, ops[m].socket = s, ops[m].kind = k,
             ops[m].rank = 0
        PROVE  ops[m].stage \in {"posted", "done"}
    <3>1. ops[m].stage # "popped"
      BY <2>7 DEF Ranks
    <3>2. ops[m].stage # "started"
      <4>1. SUFFICES ASSUME ops[m].stage = "started" PROVE FALSE
        OBVIOUS
      <4>2. PICK u \in Threads : loc[u].at = "start" /\ loc[u].op = m
        BY <4>1 DEF Started
      <4>3. mutex_[d] = u
        BY <2>2, <2>3, <2>7, <4>2, StarterHas
      <4> QED
        BY <2>1, <4>2, <4>3
    <3>3. ops[m].stage # "queued"
      <4>1. SUFFICES ASSUME ops[m].stage = "queued" PROVE FALSE
        OBVIOUS
      <4>2. m \in Range(q)
        BY <2>2, <2>3, <2>7, <4>1 DEF Queues
      <4>3. m \in Nat /\ i \in Nat
        BY OpParts
      <4> HIDE DEF q
      <4> QED
        BY <2>2, <2>7, <4>2, <4>3
    <3> QED
      BY <3>1, <3>2, <3>3, OpParts
  <2> HIDE DEF d, q
  <2> QED
    BY <2>2, <2>3, <2>4, <2>5, <2>6, <2>7, OrderOldest
<1>16. ASSUME NEW t \in Threads, NEW i \in DOMAIN ops, NEW s \in Sockets, NEW k \in Kinds,
             Enqueues(t, i, s, k)
      PROVE  Ranks' /\ DataInOrder'
  <2>1. TakesNothing
    <3>1. DOMAIN ops' = DOMAIN ops
      BY <1>16, Zenon DEF Enqueues
    <3>2. ASSUME NEW n \in DOMAIN ops
          PROVE  ops'[n].rank = ops[n].rank
      <4>1. \E g \in {"done", "posted", "queued"} :
              ops'[n] = ops[n] \/ ops'[n] = [ops[n] EXCEPT !.stage = g]
        BY <1>16, Zenon DEF Enqueues
      <4>2. PICK g \in {"done", "posted", "queued"} :
              ops'[n] = ops[n] \/ ops'[n] = [ops[n] EXCEPT !.stage = g]
        BY <4>1
      <4>3. CASE ops'[n] = ops[n]
        BY <4>3
      <4>4. CASE ops'[n] = [ops[n] EXCEPT !.stage = g]
        <5>1. ops'[n] = [ops[n] EXCEPT !.stage = g] /\ ops[n] \in Op
          BY <4>4, OpParts
        <5> QED
          BY <5>1, StageChanged
      <4> QED
        BY <4>2, <4>3, <4>4
    <3> QED
      BY <3>1, <3>2 DEF TakesNothing
  <2> QED
    BY <1>16, <2>1, OrderAlone DEF Step
<1>17. ASSUME NEW i \in DOMAIN ops, RunPosted(i)
      PROVE  Ranks' /\ DataInOrder'
  <2>1. TakesNothing
    <3>1. DOMAIN ops' = DOMAIN ops
      BY <1>17 DEF RunPosted
    <3>2. ASSUME NEW n \in DOMAIN ops
          PROVE  ops'[n].rank = ops[n].rank
      <4>1. \E g \in {"done", "posted", "queued"} :
              ops'[n] = ops[n] \/ ops'[n] = [ops[n] EXCEPT !.stage = g]
        BY <1>17 DEF RunPosted
      <4>2. PICK g \in {"done", "posted", "queued"} :
              ops'[n] = ops[n] \/ ops'[n] = [ops[n] EXCEPT !.stage = g]
        BY <4>1
      <4>3. CASE ops'[n] = ops[n]
        BY <4>3
      <4>4. CASE ops'[n] = [ops[n] EXCEPT !.stage = g]
        <5>1. ops'[n] = [ops[n] EXCEPT !.stage = g] /\ ops[n] \in Op
          BY <4>4, OpParts
        <5> QED
          BY <5>1, StageChanged
      <4> QED
        BY <4>2, <4>3, <4>4
    <3> QED
      BY <3>1, <3>2 DEF TakesNothing
  <2> QED
    BY <1>17, <2>1, OrderAlone DEF Step
<1>18. CASE UNCHANGED reactorVars
  <2>1. TakesNothing
    BY <1>18 DEF TakesNothing, reactorVars
  <2> QED
    BY <1>18, <2>1, OrderAlone
<1> QED
  BY <1>1, <1>2, <1>3, <1>4, <1>5, <1>6, <1>7, <1>8, <1>9, <1>10, <1>11, <1>12, <1>13,
       <1>14, <1>15, <1>16, <1>17, <1>18 DEF Step

-----------------------------------------------------------------------------
(* The count of work.                                                      *)

\* The operations that are not over, and are counted.
Pending == {i \in DOMAIN ops : ops[i].stage \in {"queued", "popped", "posted"}}

\* They are finitely many.
LEMMA PendingFinite ==
  ASSUME Types
  PROVE  IsFiniteSet(Pending) /\ Cardinality(Pending) \in Nat
<1>1. IsFiniteSet(1..Len(ops)) /\ Pending \subseteq 1..Len(ops)
  BY OpParts, FS_Interval DEF Pending
<1> QED
  BY <1>1, FS_Subset, FS_CardinalityType

\* A step in which nothing begins and nothing is over.
LEMMA WorkAlone ==
  ASSUME WorkBalanced, Pending' = Pending, work' = work
  PROVE  WorkBalanced'
  BY DEF WorkBalanced, Pending

\* One operation more.
LEMMA WorkMore ==
  ASSUME Types, WorkBalanced, NEW n, n \notin Pending, Pending' = Pending \cup {n},
         work' = work + 1
  PROVE  WorkBalanced'
<1>1. Cardinality(Pending \cup {n}) = Cardinality(Pending) + 1
  BY PendingFinite, FS_AddElement
<1>2. work = Cardinality(Pending)
  BY DEF WorkBalanced, Pending
<1>3. work' = Cardinality(Pending')
  BY <1>1, <1>2
<1> QED
  BY <1>3 DEF WorkBalanced, Pending

\* One operation less.
LEMMA WorkLess ==
  ASSUME Types, WorkBalanced, NEW n, n \in Pending, Pending' = Pending \ {n},
         work' = work - 1
  PROVE  WorkBalanced'
<1>1. Cardinality(Pending \ {n}) = Cardinality(Pending) - 1
  BY PendingFinite, FS_RemoveElement
<1>2. work = Cardinality(Pending)
  BY DEF WorkBalanced, Pending
<1>3. work' = Cardinality(Pending')
  BY <1>1, <1>2
<1> QED
  BY <1>3 DEF WorkBalanced, Pending

\* Every step keeps the work balanced.
LEMMA WorkKept ==
  ASSUME Types, Owned, Locked, Queues, Popped, WorkBalanced, Step \/ UNCHANGED reactorVars
  PROVE  WorkBalanced'
<1>1. ASSUME NEW s \in Sockets, PeerEnds(s)
      PROVE  WorkBalanced'
  <2>1. Pending' = Pending
    BY <1>1 DEF PeerEnds, Pending
  <2>2. work' = work
    BY <1>1 DEF PeerEnds, queueVars
  <2> QED
    BY <2>1, <2>2, WorkAlone
<1>2. ASSUME NEW s \in Sockets, CancelOps(s)
      PROVE  WorkBalanced'
  <2>1. Pending' = Pending
    <3>1. data[s] \in States
      BY <1>2, OpenHasState DEF CancelOps
    <3>2. DOMAIN ops' = DOMAIN ops
      BY <1>2 DEF CancelOps, Abort
    <3>3. ASSUME NEW n \in DOMAIN ops
          PROVE  n \in Pending' <=> n \in Pending
      <4>1. CASE n \in Queued(data[s])
        <5>1. ops'[n] = [ops[n] EXCEPT !.stage = "posted"] /\ ops[n] \in Op
          BY <1>2, <4>1, OpParts DEF CancelOps, Abort
        <5>2. ops'[n].stage = "posted" /\ ops[n].stage = "queued"
          BY <3>1, <4>1, <5>1, StageChanged, QueuedIsQueued
        <5> QED
          BY <3>2, <5>2 DEF Pending
      <4>2. CASE n \notin Queued(data[s])
        <5>1. ops'[n] = ops[n]
          BY <1>2, <4>2 DEF CancelOps, Abort
        <5> QED
          BY <3>2, <5>1 DEF Pending
      <4> QED
        BY <4>1, <4>2
    <3> QED
      BY <3>2, <3>3 DEF Pending
  <2>2. work' = work
    BY <1>2 DEF CancelOps, queueVars
  <2> QED
    BY <2>1, <2>2, WorkAlone
<1>3. ASSUME NEW s \in Sockets, DeregisterDescriptor(s)
      PROVE  WorkBalanced'
  <2>1. Pending' = Pending
    <3>1. data[s] \in States
      BY <1>3, OpenHasState DEF DeregisterDescriptor
    <3>2. DOMAIN ops' = DOMAIN ops
      BY <1>3 DEF DeregisterDescriptor, Abort
    <3>3. ASSUME NEW n \in DOMAIN ops
          PROVE  n \in Pending' <=> n \in Pending
      <4>1. CASE n \in Queued(data[s])
        <5>1. ops'[n] = [ops[n] EXCEPT !.stage = "posted"] /\ ops[n] \in Op
          BY <1>3, <4>1, OpParts DEF DeregisterDescriptor, Abort
        <5>2. ops'[n].stage = "posted" /\ ops[n].stage = "queued"
          BY <3>1, <4>1, <5>1, StageChanged, QueuedIsQueued
        <5> QED
          BY <3>2, <5>2 DEF Pending
      <4>2. CASE n \notin Queued(data[s])
        <5>1. ops'[n] = ops[n]
          BY <1>3, <4>2 DEF DeregisterDescriptor, Abort
        <5> QED
          BY <3>2, <5>1 DEF Pending
      <4> QED
        BY <4>1, <4>2
    <3> QED
      BY <3>2, <3>3 DEF Pending
  <2>2. work' = work
    BY <1>3 DEF DeregisterDescriptor, queueVars
  <2> QED
    BY <2>1, <2>2, WorkAlone
<1>4. ASSUME NEW s \in Sockets, CleanupDescriptorData(s)
      PROVE  WorkBalanced'
  <2>1. Pending' = Pending
    BY <1>4 DEF CleanupDescriptorData, Pending
  <2>2. work' = work
    BY <1>4 DEF CleanupDescriptorData, queueVars
  <2> QED
    BY <2>1, <2>2, WorkAlone
<1>5. ASSUME NEW s \in Sockets, NEW k \in Kinds, Arrive(s, k)
      PROVE  WorkBalanced'
  <2>1. Pending' = Pending
    BY <1>5 DEF Arrive, Pending
  <2>2. work' = work
    BY <1>5 DEF Arrive, queueVars
  <2> QED
    BY <2>1, <2>2, WorkAlone
<1>6. ASSUME NEW s \in Sockets, NEW d \in States, Register(s, d)
      PROVE  WorkBalanced'
  <2>1. Pending' = Pending
    BY <1>6 DEF Register, Pending
  <2>2. work' = work
    BY <1>6 DEF Register, queueVars
  <2> QED
    BY <2>1, <2>2, WorkAlone
<1>7. ASSUME NEW t \in Threads, NEW s \in Sockets, NEW k \in Kinds, NEW size \in 1..2,
             StartsNow(t, s, k, size)
      PROVE  WorkBalanced'
  <2> DEFINE n == Len(ops) + 1
  <2>1. /\ DOMAIN ops' = DOMAIN ops \cup {n} /\ n \notin DOMAIN ops
        /\ \A m \in DOMAIN ops : ops'[m] = ops[m]
        /\ ops'[n].stage = "posted"
    BY <1>7, NewOpIsOp, CompletedIsOp, OneMoreOp DEF StartsNow
  <2>2. work' = work + 1
    BY <1>7 DEF StartsNow
  <2> HIDE DEF n
  <2>3. n \notin Pending /\ Pending' = Pending \cup {n}
    BY <2>1 DEF Pending
  <2>4. PICK m : m = n
    OBVIOUS
  <2> QED
    BY <2>2, <2>3, WorkMore
<1>8. ASSUME NEW t \in Threads, NEW s \in Sockets, NEW k \in Kinds, NEW size \in 1..2,
             NEW direct \in BOOLEAN, StartsLater(t, s, k, size, direct)
      PROVE  WorkBalanced'
  <2>1. Pending' = Pending
    BY <1>8, NewOpIsOp, OneMoreOp DEF StartsLater, Pending
  <2>2. work' = work
    BY <1>8 DEF StartsLater, queueVars
  <2> QED
    BY <2>1, <2>2, WorkAlone
<1>9. ASSUME NEW t \in Threads, EpollWait(t)
      PROVE  WorkBalanced'
  <2>1. Pending' = Pending
    BY <1>9 DEF EpollWait, Pending
  <2>2. work' = work
    BY <1>9 DEF EpollWait, queueVars
  <2> QED
    BY <2>1, <2>2, WorkAlone
<1>10. ASSUME NEW t \in Threads, Dispatch(t)
      PROVE  WorkBalanced'
  <2>1. Pending' = Pending
    BY <1>10 DEF Dispatch, Pending
  <2>2. work' = work
    BY <1>10 DEF Dispatch, queueVars
  <2> QED
    BY <2>1, <2>2, WorkAlone
<1>11. ASSUME NEW t \in Threads, Lock(t)
      PROVE  WorkBalanced'
  <2>1. Pending' = Pending
    BY <1>11 DEF Lock, Pending
  <2>2. work' = work
    BY <1>11 DEF Lock, queueVars
  <2> QED
    BY <2>1, <2>2, WorkAlone
<1>12. ASSUME NEW t \in Threads, Leave(t)
      PROVE  WorkBalanced'
  <2> DEFINE done == loc[t].done
  <2>1. done \in Seq(Nat) /\ loc[t].at = "perform"
    BY <1>12, PlaceParts DEF Leave
  <2>2. \A n \in Range(done) : n \in DOMAIN ops /\ ops[n].stage = "popped"
    BY <2>1 DEF Popped
  <2>3. DOMAIN ops' = DOMAIN ops /\ \A n \in DOMAIN ops :
          n \notin Range(done) => ops'[n] = ops[n]
    BY <1>12 DEF Leave
  <2>4. ASSUME NEW n \in Range(done)
        PROVE  ops'[n].stage = IF n = done[1] THEN "done" ELSE "posted"
    <3>1. /\ ops'[n] = [ops[n] EXCEPT !.stage = IF n = done[1] THEN "done" ELSE "posted"]
          /\ ops[n] \in Op
      BY <1>12, <2>2, OpParts DEF Leave
    <3> QED
      BY <3>1, StageChanged
  <2>5. CASE done = << >>
    <3>1. Range(done) = {} /\ work' = work
      BY <1>12, <2>1, <2>5, RangeIn DEF Leave
    <3>2. Pending' = Pending
      BY <2>3, <3>1 DEF Pending
    <3> QED
      BY <3>1, <3>2, WorkAlone
  <2>6. CASE done # << >>
    <3>1. PICK n \in Range(done) : n = done[1]
      <4>1. 1 \in DOMAIN done
        BY <2>1, <2>6, LenProperties, EmptySeq
      <4> QED
        BY <4>1 DEF Range
    <3>2. work' = work - 1
      BY <1>12, <2>6 DEF Leave
    <3>3. n \in Pending /\ ops'[n].stage = "done"
      BY <2>2, <2>4, <3>1 DEF Pending
    <3>4. ASSUME NEW m \in DOMAIN ops, m # n
          PROVE  m \in Pending' <=> m \in Pending
      <4>1. CASE m \in Range(done)
        <5>1. ops'[m].stage = "posted" /\ ops[m].stage = "popped"
          BY <2>2, <2>4, <3>1, <3>4, <4>1
        <5> QED
          BY <2>3, <5>1 DEF Pending
      <4>2. CASE m \notin Range(done)
        BY <2>3, <4>2 DEF Pending
      <4> QED
        BY <4>1, <4>2
    <3>5. n \notin Pending'
      BY <3>3 DEF Pending
    <3>6. Pending' \subseteq DOMAIN ops /\ Pending \subseteq DOMAIN ops
      BY <2>3 DEF Pending
    <3>7. Pending' = Pending \ {n}
      BY <3>3, <3>4, <3>5, <3>6
    <3> QED
      BY <3>2, <3>3, <3>7, WorkLess
  <2> QED
    BY <2>5, <2>6
<1>13. ASSUME NEW t \in Threads, NEW d \in States, Dequeue(t, d)
      PROVE  WorkBalanced'
  <2>1. Pending' = Pending
    BY <1>13 DEF Dequeue, Pending
  <2>2. work' = work
    BY <1>13 DEF Dequeue, queueVars
  <2> QED
    BY <2>1, <2>2, WorkAlone
<1>14. ASSUME NEW t \in Threads, NEW k \in Kinds, Misses(t, k)
      PROVE  WorkBalanced'
  <2>1. Pending' = Pending
    BY <1>14 DEF Misses, Pending
  <2>2. work' = work
    BY <1>14 DEF Misses, queueVars
  <2> QED
    BY <2>1, <2>2, WorkAlone
<1>15. ASSUME NEW t \in Threads, NEW k \in Kinds, NEW i \in DOMAIN ops, Takes(t, k, i)
      PROVE  WorkBalanced'
  <2>1. Pending' = Pending
    <3>1. loc[t].state \in States
      BY <1>15, PlaceParts DEF Takes
    <3>2. op_queue_[loc[t].state][k] # << >> /\ i = Head(op_queue_[loc[t].state][k])
      BY <1>15 DEF Takes
    <3>3. ops[i].stage = "queued"
      BY <3>1, <3>2, HeadIsQueued
    <3>4. ops'[i].stage = "popped"
      BY <1>15, OpParts, CompletedIsOp DEF Takes
    <3>5. DOMAIN ops' = DOMAIN ops /\ \A n \in DOMAIN ops : n # i => ops'[n] = ops[n]
      BY <1>15 DEF Takes
    <3> QED
      BY <3>3, <3>4, <3>5 DEF Pending
  <2>2. work' = work
    BY <1>15 DEF Takes, queueVars
  <2> QED
    BY <2>1, <2>2, WorkAlone
<1>16. ASSUME NEW t \in Threads, NEW i \in DOMAIN ops, NEW s \in Sockets, NEW k \in Kinds,
             Enqueues(t, i, s, k)
      PROVE  WorkBalanced'
  <2>1. ops[i].stage = "started"
    BY <1>16, StarterHas, Zenon DEF Enqueues
  <2>2. ops'[i] = [ops[i] EXCEPT !.stage = "queued"] /\ ops[i] \in Op
    BY <1>16, OpParts, Zenon DEF Enqueues
  <2>3. ops'[i].stage = "queued"
    BY <2>2, StageChanged
  <2>4. DOMAIN ops' = DOMAIN ops /\ \A n \in DOMAIN ops : n # i => ops'[n] = ops[n]
    BY <1>16, Zenon DEF Enqueues
  <2>5. i \notin Pending /\ Pending' = Pending \cup {i}
    BY <2>1, <2>3, <2>4 DEF Pending
  <2>6. work' = work + 1
    BY <1>16, Zenon DEF Enqueues
  <2> QED
    BY <2>5, <2>6, WorkMore
<1>17. ASSUME NEW i \in DOMAIN ops, RunPosted(i)
      PROVE  WorkBalanced'
  <2>1. ops[i].stage = "posted" /\ work' = work - 1
    BY <1>17 DEF RunPosted
  <2>2. ops'[i] = [ops[i] EXCEPT !.stage = "done"] /\ ops[i] \in Op
    BY <1>17, OpParts DEF RunPosted
  <2>3. ops'[i].stage = "done"
    BY <2>2, StageChanged
  <2>4. DOMAIN ops' = DOMAIN ops /\ \A n \in DOMAIN ops : n # i => ops'[n] = ops[n]
    BY <1>17 DEF RunPosted
  <2>5. i \in Pending /\ Pending' = Pending \ {i}
    BY <2>1, <2>3, <2>4 DEF Pending
  <2> QED
    BY <2>1, <2>5, WorkLess
<1>18. CASE UNCHANGED reactorVars
  <2>1. Pending' = Pending
    BY <1>18 DEF Pending, reactorVars
  <2>2. work' = work
    BY <1>18 DEF reactorVars, queueVars
  <2> QED
    BY <2>1, <2>2, WorkAlone
<1> QED
  BY <1>1, <1>2, <1>3, <1>4, <1>5, <1>6, <1>7, <1>8, <1>9, <1>10, <1>11, <1>12, <1>13,
       <1>14, <1>15, <1>16, <1>17, <1>18 DEF Step

-----------------------------------------------------------------------------
(* No edge is lost.                                                        *)

\* Who watched still does.
LEMMA WatchedStays ==
  ASSUME NEW r \in Sockets, NEW h \in Kinds, data'[r] = data[r],
         listed[r] /\ h \in mask[r] => listed'[r] /\ h \in mask'[r],
         events' = events, scheduled' = scheduled, task_result_' = task_result_,
         \A u \in Threads :
           loc[u].at \in {"lock", "perform"} /\ loc[u].state = data[r] /\ h \in loc[u].kinds
           => /\ loc'[u].at \in {"lock", "perform"} /\ loc'[u].state = data[r]
              /\ h \in loc'[u].kinds
  PROVE  Watched(r, h) => Watched(r, h)'
  BY DEF Watched

\* What start_op would try it still will.
LEMMA TryStays ==
  ASSUME NEW r \in Sockets, NEW h \in Kinds, data'[r] = data[r],
         try_speculative_[data[r]][h] => try_speculative_'[data[r]][h],
         op_queue_[data[r]][h] = << >> => op_queue_'[data[r]][h] = << >>,
         StartsDirect(r, h)' => StartsDirect(r, h)
  PROVE  WillTry(r, h) => WillTry(r, h)'
  BY DEF WillTry

\* Nobody else comes to start_op.
LEMMA DirectStays ==
  ASSUME Types, Owned, Locked, Step \/ UNCHANGED reactorVars,
         NEW r \in Sockets, NEW h \in Kinds,
         \A u \in Threads : loc'[u].at = "start" => loc'[u] = loc[u]
  PROVE  StartsDirect(r, h)' => StartsDirect(r, h)
<1> SUFFICES ASSUME NEW u \in Threads, loc'[u].at = "start", loc'[u].direct,
                    ops'[loc'[u].op].socket = r, ops'[loc'[u].op].kind = h
             PROVE  StartsDirect(r, h)
  BY DEF StartsDirect
<1>1. loc'[u] = loc[u] /\ loc[u].at = "start"
  OBVIOUS
<1>2. loc[u].op \in DOMAIN ops
  BY <1>1, StarterHas
<1>3. ops[loc[u].op].socket = r /\ ops[loc[u].op].kind = h
  BY <1>1, <1>2, OpsStay
<1> QED
  BY <1>1, <1>3 DEF StartsDirect

\* While the mutex of its descriptor_state is free, or has another owner, nobody
\* is within start_op of a socket.
LEMMA NobodyStarts ==
  ASSUME Types, Owned, Locked, NEW r \in Sockets, NEW h \in Kinds,
         mutex_[data[r]] = None
         \/ \E t \in Threads : mutex_[data[r]] = t /\ loc[t].at # "start"
  PROVE  ~StartsDirect(r, h)
<1> SUFFICES ASSUME NEW u \in Threads, loc[u].at = "start", ops[loc[u].op].socket = r
             PROVE  FALSE
  BY DEF StartsDirect
<1>1. mutex_[data[r]] = u /\ mutex_[data[r]] # None
  BY StarterHas
<1> QED
  BY <1>1

\* What was minded, and is acted on or tried as before, still is.
LEMMA MindedStays ==
  ASSUME EdgesKept, NEW r \in Sockets, NEW h \in Kinds,
         phase[r] = "open", h \in mask[r], h \in Ready(r),
         Watched(r, h) => Watched(r, h)', r \in ended => r \in ended',
         WillTry(r, h) => Minded(r, h)'
  PROVE  Minded(r, h)'
  BY DEF EdgesKept, EdgeKept, Minded

\* An attempt that finds nothing leaves nothing, and one that takes the last
\* reports the end or leaves nothing.
LEMMA StatusSays ==
  ASSUME Types, NEW o, o.socket \in Sockets, o.kind \in Kinds, o.size \in 1..2
  PROVE  /\ Status(o) \in {"done", "done_and_exhausted", "not_done"}
         /\ Status(o) = "not_done" => o.kind \notin Ready(o.socket)
         /\ Status(o) = "done_and_exhausted" /\ Take(o) /\ End(o) /\ eof' = eof =>
              (o.kind = "read" /\ o.socket \in ended') \/ o.kind \notin Ready(o.socket)'
<1> DEFINE n == avail[o.socket][o.kind]
<1>0. avail \in [Sockets -> [Kinds -> 0..MaxAvail]]
  BY DEF Types
<1>1. n \in 0..MaxAvail /\ MaxAvail \in Nat
  BY <1>0, ReactorAssumption
<1>2. Status(o) \in {"done", "done_and_exhausted", "not_done"}
  BY DEF Status
<1>3. ASSUME Status(o) = "not_done"
      PROVE  o.kind \notin Ready(o.socket)
  BY <1>1, <1>3 DEF Status, Ready
<1>4. ASSUME Status(o) = "done_and_exhausted", Take(o), End(o), eof' = eof
      PROVE  (o.kind = "read" /\ o.socket \in ended') \/ o.kind \notin Ready(o.socket)'
  <2>1. CASE n = 0
    BY <1>4, <2>1 DEF Status, End
  <2>2. CASE n # 0
    <3>1. o.kind = "write" /\ n < o.size
      BY <1>4, <2>2 DEF Status
    <3>2. avail'[o.socket][o.kind] = 0
      BY <1>1, <1>4, <3>1, TakeTakes
    <3> QED
      BY <3>1, <3>2 DEF Ready
  <2> QED
    BY <2>1, <2>2
<1> QED
  BY <1>2, <1>3, <1>4

\* Read and except are asked for as long as the socket is open.
LEMMA AskedSuffices ==
  ASSUME Owned',
         \A r \in Sockets : /\ phase'[r] = "open" /\ "write" \in Kinds
                           /\ op_queue_'[data'[r]]["write"] # << >>
                           => "write" \in mask'[r]
  PROVE  \A r \in Sockets, h \in Kinds : AskedFor(r, h)'
<1> SUFFICES ASSUME NEW r \in Sockets, NEW h \in Kinds, phase'[r] = "open",
                    op_queue_'[data'[r]][h] # << >>
             PROVE  h \in mask'[r]
  BY DEF AskedFor
<1>1. Kinds \ {"write"} \subseteq mask'[r]
  BY DEF Owned
<1> QED
  BY <1>1

\* In every step an operation waits only for what epoll was asked for.
LEMMA AskedKept ==
  ASSUME Types, Owned, Owned', Queues, EdgesKept, Step \/ UNCHANGED reactorVars
  PROVE  \A r \in Sockets, h \in Kinds : AskedFor(r, h)'
<1>1. ASSUME NEW s \in Sockets, PeerEnds(s)
      PROVE  \A r \in Sockets, h \in Kinds : AskedFor(r, h)'
  <2> SUFFICES ASSUME NEW r \in Sockets, phase'[r] = "open",
                      "write" \in Kinds, op_queue_'[data'[r]]["write"] # << >>
               PROVE  "write" \in mask'[r]
    BY AskedSuffices
  <2>1. phase[r] = "open" /\ data'[r] = data[r] /\ mask'[r] = mask[r] /\ data[r] \in States
    BY <1>1, OpenHasState DEF PeerEnds, kernelVars, socketVars, stateVars, queueVars
  <2>2. op_queue_[data[r]]["write"] # << >>
    BY <1>1, <2>1 DEF PeerEnds, stateVars
  <2> QED
    BY <2>1, <2>2 DEF EdgesKept, AskedFor
<1>2. ASSUME NEW s \in Sockets, CancelOps(s)
      PROVE  \A r \in Sockets, h \in Kinds : AskedFor(r, h)'
  <2> SUFFICES ASSUME NEW r \in Sockets, phase'[r] = "open",
                      "write" \in Kinds, op_queue_'[data'[r]]["write"] # << >>
               PROVE  "write" \in mask'[r]
    BY AskedSuffices
  <2>1. phase[r] = "open" /\ data'[r] = data[r] /\ mask'[r] = mask[r] /\ data[r] \in States
    BY <1>2, OpenHasState DEF CancelOps, kernelVars, socketVars, stateVars, queueVars
  <2>2. op_queue_[data[r]]["write"] # << >>
    BY <1>2, <2>1 DEF CancelOps, Abort, Types
  <2> QED
    BY <2>1, <2>2 DEF EdgesKept, AskedFor
<1>3. ASSUME NEW s \in Sockets, DeregisterDescriptor(s)
      PROVE  \A r \in Sockets, h \in Kinds : AskedFor(r, h)'
  <2> SUFFICES ASSUME NEW r \in Sockets, phase'[r] = "open",
                      "write" \in Kinds, op_queue_'[data'[r]]["write"] # << >>
               PROVE  "write" \in mask'[r]
    BY AskedSuffices
  <2>1. phase[r] = "open" /\ data'[r] = data[r] /\ mask'[r] = mask[r] /\ data[r] \in States
    BY <1>3, OpenHasState DEF DeregisterDescriptor, kernelVars, socketVars, stateVars,
         queueVars
  <2>2. op_queue_[data[r]]["write"] # << >>
    BY <1>3, <2>1 DEF DeregisterDescriptor, Abort, Types
  <2> QED
    BY <2>1, <2>2 DEF EdgesKept, AskedFor
<1>4. ASSUME NEW s \in Sockets, CleanupDescriptorData(s)
      PROVE  \A r \in Sockets, h \in Kinds : AskedFor(r, h)'
  <2> SUFFICES ASSUME NEW r \in Sockets, phase'[r] = "open",
                      "write" \in Kinds, op_queue_'[data'[r]]["write"] # << >>
               PROVE  "write" \in mask'[r]
    BY AskedSuffices
  <2>1. phase[r] = "open" /\ data'[r] = data[r] /\ mask'[r] = mask[r] /\ data[r] \in States
    BY <1>4, OpenHasState DEF CleanupDescriptorData, kernelVars, socketVars,
         stateVars, queueVars, Types
  <2>2. op_queue_[data[r]]["write"] # << >>
    BY <1>4, <2>1 DEF CleanupDescriptorData, stateVars
  <2> QED
    BY <2>1, <2>2 DEF EdgesKept, AskedFor
<1>5. ASSUME NEW s \in Sockets, NEW k \in Kinds, Arrive(s, k)
      PROVE  \A r \in Sockets, h \in Kinds : AskedFor(r, h)'
  <2> SUFFICES ASSUME NEW r \in Sockets, phase'[r] = "open",
                      "write" \in Kinds, op_queue_'[data'[r]]["write"] # << >>
               PROVE  "write" \in mask'[r]
    BY AskedSuffices
  <2>1. phase[r] = "open" /\ data'[r] = data[r] /\ mask'[r] = mask[r] /\ data[r] \in States
    BY <1>5, OpenHasState DEF Arrive, kernelVars, socketVars, stateVars, queueVars
  <2>2. op_queue_[data[r]]["write"] # << >>
    BY <1>5, <2>1 DEF Arrive, stateVars
  <2> QED
    BY <2>1, <2>2 DEF EdgesKept, AskedFor
<1>6. ASSUME NEW s \in Sockets, NEW d \in States, Register(s, d)
      PROVE  \A r \in Sockets, h \in Kinds : AskedFor(r, h)'
  <2> SUFFICES ASSUME NEW r \in Sockets, phase'[r] = "open",
                      "write" \in Kinds, op_queue_'[data'[r]]["write"] # << >>
               PROVE  "write" \in mask'[r]
    BY AskedSuffices
  <2>1. CASE r = s
    <3>1. data'[s] = d /\ op_queue_[d]["write"] # << >>
      BY <1>6, <2>1 DEF Register, Types
    <3>2. data[ops[Head(op_queue_[d]["write"])].socket] = d
      BY <3>1, HeadIsQueued
    <3>3. ops[Head(op_queue_[d]["write"])].socket \in Sockets
      BY <3>1, HeadIsQueued, OpParts
    <3> QED
      BY <1>6, <3>2, <3>3 DEF Register, Free
  <2>2. CASE r # s
    <3>1. phase[r] = "open" /\ data'[r] = data[r] /\ mask'[r] = mask[r]
      BY <1>6, <2>2 DEF Register, EpollCtl
    <3>2. op_queue_[data[r]]["write"] # << >>
      BY <1>6, <3>1 DEF Register
    <3> QED
      BY <3>1, <3>2 DEF EdgesKept, AskedFor
  <2> QED
    BY <2>1, <2>2
<1>7. ASSUME NEW t \in Threads, NEW s \in Sockets, NEW k \in Kinds, NEW size \in 1..2,
             StartsNow(t, s, k, size)
      PROVE  \A r \in Sockets, h \in Kinds : AskedFor(r, h)'
  <2> SUFFICES ASSUME NEW r \in Sockets, phase'[r] = "open",
                      "write" \in Kinds, op_queue_'[data'[r]]["write"] # << >>
               PROVE  "write" \in mask'[r]
    BY AskedSuffices
  <2>1. phase[r] = "open" /\ data'[r] = data[r] /\ mask'[r] = mask[r] /\ data[r] \in States
    BY <1>7, OpenHasState DEF StartsNow, kernelVars, socketVars, stateVars, queueVars
  <2>2. op_queue_[data[r]]["write"] # << >>
    BY <1>7, <2>1 DEF StartsNow, stateVars
  <2> QED
    BY <2>1, <2>2 DEF EdgesKept, AskedFor
<1>8. ASSUME NEW t \in Threads, NEW s \in Sockets, NEW k \in Kinds, NEW size \in 1..2,
             NEW direct \in BOOLEAN, StartsLater(t, s, k, size, direct)
      PROVE  \A r \in Sockets, h \in Kinds : AskedFor(r, h)'
  <2> SUFFICES ASSUME NEW r \in Sockets, phase'[r] = "open",
                      "write" \in Kinds, op_queue_'[data'[r]]["write"] # << >>
               PROVE  "write" \in mask'[r]
    BY AskedSuffices
  <2>1. phase[r] = "open" /\ data'[r] = data[r] /\ mask'[r] = mask[r] /\ data[r] \in States
    BY <1>8, OpenHasState DEF StartsLater, kernelVars, socketVars, stateVars, queueVars
  <2>2. op_queue_[data[r]]["write"] # << >>
    BY <1>8, <2>1 DEF StartsLater, stateVars
  <2> QED
    BY <2>1, <2>2 DEF EdgesKept, AskedFor
<1>9. ASSUME NEW t \in Threads, EpollWait(t)
      PROVE  \A r \in Sockets, h \in Kinds : AskedFor(r, h)'
  <2> SUFFICES ASSUME NEW r \in Sockets, phase'[r] = "open",
                      "write" \in Kinds, op_queue_'[data'[r]]["write"] # << >>
               PROVE  "write" \in mask'[r]
    BY AskedSuffices
  <2>1. phase[r] = "open" /\ data'[r] = data[r] /\ mask'[r] = mask[r] /\ data[r] \in States
    BY <1>9, OpenHasState DEF EpollWait, kernelVars, socketVars, stateVars, queueVars
  <2>2. op_queue_[data[r]]["write"] # << >>
    BY <1>9, <2>1 DEF EpollWait, stateVars
  <2> QED
    BY <2>1, <2>2 DEF EdgesKept, AskedFor
<1>10. ASSUME NEW t \in Threads, Dispatch(t)
      PROVE  \A r \in Sockets, h \in Kinds : AskedFor(r, h)'
  <2> SUFFICES ASSUME NEW r \in Sockets, phase'[r] = "open",
                      "write" \in Kinds, op_queue_'[data'[r]]["write"] # << >>
               PROVE  "write" \in mask'[r]
    BY AskedSuffices
  <2>1. phase[r] = "open" /\ data'[r] = data[r] /\ mask'[r] = mask[r] /\ data[r] \in States
    BY <1>10, OpenHasState DEF Dispatch, kernelVars, socketVars, stateVars, queueVars
  <2>2. op_queue_[data[r]]["write"] # << >>
    BY <1>10, <2>1 DEF Dispatch, stateVars
  <2> QED
    BY <2>1, <2>2 DEF EdgesKept, AskedFor
<1>11. ASSUME NEW t \in Threads, Lock(t)
      PROVE  \A r \in Sockets, h \in Kinds : AskedFor(r, h)'
  <2> SUFFICES ASSUME NEW r \in Sockets, phase'[r] = "open",
                      "write" \in Kinds, op_queue_'[data'[r]]["write"] # << >>
               PROVE  "write" \in mask'[r]
    BY AskedSuffices
  <2>1. phase[r] = "open" /\ data'[r] = data[r] /\ mask'[r] = mask[r] /\ data[r] \in States
    BY <1>11, OpenHasState DEF Lock, kernelVars, socketVars, stateVars, queueVars
  <2>2. op_queue_[data[r]]["write"] # << >>
    BY <1>11, <2>1 DEF Lock, stateVars
  <2> QED
    BY <2>1, <2>2 DEF EdgesKept, AskedFor
<1>12. ASSUME NEW t \in Threads, Leave(t)
      PROVE  \A r \in Sockets, h \in Kinds : AskedFor(r, h)'
  <2> SUFFICES ASSUME NEW r \in Sockets, phase'[r] = "open",
                      "write" \in Kinds, op_queue_'[data'[r]]["write"] # << >>
               PROVE  "write" \in mask'[r]
    BY AskedSuffices
  <2>1. phase[r] = "open" /\ data'[r] = data[r] /\ mask'[r] = mask[r] /\ data[r] \in States
    BY <1>12, OpenHasState DEF Leave, kernelVars, socketVars, stateVars, queueVars
  <2>2. op_queue_[data[r]]["write"] # << >>
    BY <1>12, <2>1 DEF Leave, stateVars
  <2> QED
    BY <2>1, <2>2 DEF EdgesKept, AskedFor
<1>13. ASSUME NEW t \in Threads, NEW d \in States, Dequeue(t, d)
      PROVE  \A r \in Sockets, h \in Kinds : AskedFor(r, h)'
  <2> SUFFICES ASSUME NEW r \in Sockets, phase'[r] = "open",
                      "write" \in Kinds, op_queue_'[data'[r]]["write"] # << >>
               PROVE  "write" \in mask'[r]
    BY AskedSuffices
  <2>1. phase[r] = "open" /\ data'[r] = data[r] /\ mask'[r] = mask[r] /\ data[r] \in States
    BY <1>13, OpenHasState DEF Dequeue, kernelVars, socketVars, stateVars, queueVars
  <2>2. op_queue_[data[r]]["write"] # << >>
    BY <1>13, <2>1 DEF Dequeue, stateVars
  <2> QED
    BY <2>1, <2>2 DEF EdgesKept, AskedFor
<1>14. ASSUME NEW t \in Threads, NEW k \in Kinds, Misses(t, k)
      PROVE  \A r \in Sockets, h \in Kinds : AskedFor(r, h)'
  <2> SUFFICES ASSUME NEW r \in Sockets, phase'[r] = "open",
                      "write" \in Kinds, op_queue_'[data'[r]]["write"] # << >>
               PROVE  "write" \in mask'[r]
    BY AskedSuffices
  <2>1. phase[r] = "open" /\ data'[r] = data[r] /\ mask'[r] = mask[r] /\ data[r] \in States
    BY <1>14, OpenHasState DEF Misses, kernelVars, socketVars, stateVars, queueVars
  <2>2. op_queue_[data[r]]["write"] # << >>
    BY <1>14, <2>1 DEF Misses, stateVars
  <2> QED
    BY <2>1, <2>2 DEF EdgesKept, AskedFor
<1>15. ASSUME NEW t \in Threads, NEW k \in Kinds, NEW i \in DOMAIN ops, Takes(t, k, i)
      PROVE  \A r \in Sockets, h \in Kinds : AskedFor(r, h)'
  <2> SUFFICES ASSUME NEW r \in Sockets, phase'[r] = "open",
                      "write" \in Kinds, op_queue_'[data'[r]]["write"] # << >>
               PROVE  "write" \in mask'[r]
    BY AskedSuffices
  <2>1. phase[r] = "open" /\ data'[r] = data[r] /\ mask'[r] = mask[r] /\ data[r] \in States
    BY <1>15, OpenHasState DEF Takes, kernelVars, socketVars, stateVars, queueVars
  <2>2. op_queue_[data[r]]["write"] # << >>
    <3>1. op_queue_[data[r]]["write"] = << >> => op_queue_'[data[r]]["write"] = << >>
      BY <1>15, PlaceParts, <2>1, Zenon DEF Takes, Types
    <3> QED
      BY <2>1, <3>1
  <2> QED
    BY <2>1, <2>2 DEF EdgesKept, AskedFor
<1>16. ASSUME NEW t \in Threads, NEW i \in DOMAIN ops, NEW s \in Sockets, NEW k \in Kinds,
             Enqueues(t, i, s, k)
      PROVE  \A r \in Sockets, h \in Kinds : AskedFor(r, h)'
  <2> SUFFICES ASSUME NEW r \in Sockets, phase'[r] = "open",
                      "write" \in Kinds, op_queue_'[data'[r]]["write"] # << >>
               PROVE  "write" \in mask'[r]
    BY AskedSuffices
  <2>1. /\ phase[r] = "open" /\ data'[r] = data[r] /\ data[r] \in States
        /\ mask[r] = registered_events_[data[r]]
    BY <1>16, OpenHasState, Zenon DEF Enqueues, socketVars, Owned
  <2>2. CASE r = s /\ k = "write"
    <3>1. CASE Asks(t, s, k)
      <4>1. mask' = [mask EXCEPT ![s] = Wanted(data[s], k)]
        BY <1>16, <3>1, Zenon DEF Enqueues
      <4>2. mask'[s] = Wanted(data[s], k)
        BY <4>1 DEF Types
      <4> QED
        BY <2>2, <4>2 DEF Wanted
    <3>2. CASE ~Asks(t, s, k)
      <4>1. mask' = mask
        BY <1>16, <3>2, Zenon DEF Enqueues
      <4>2. CASE op_queue_[data[s]][k] = << >>
        <5>1. Wanted(data[s], k) = registered_events_[data[s]]
          BY <3>2, <4>2 DEF Asks
        <5> QED
          BY <2>1, <2>2, <4>1, <5>1 DEF Wanted
      <4>3. CASE op_queue_[data[s]][k] # << >>
        BY <2>1, <2>2, <4>1, <4>3 DEF EdgesKept, AskedFor
      <4> QED
        BY <4>2, <4>3
    <3> QED
      BY <3>1, <3>2
  <2>3. CASE ~(r = s /\ k = "write")
    <3>1. op_queue_' = [op_queue_ EXCEPT ![data[s]][k] = Append(@, i)]
      BY <1>16, Zenon DEF Enqueues
    <3>4. r # s => data[r] # data[s]
      BY <2>1, ReactorAssumption DEF Owned
    <3>2. op_queue_[data[r]]["write"] # << >>
      BY <2>1, <2>3, <3>1, <3>4 DEF Types
    <3>3. "write" \in mask[r]
      BY <2>1, <3>2 DEF EdgesKept, AskedFor
    <3>5. CASE r = s /\ Asks(t, s, k)
      <4>1. mask' = [mask EXCEPT ![s] = Wanted(data[s], k)]
        BY <1>16, <3>5, Zenon DEF Enqueues
      <4>2. mask'[s] = Wanted(data[s], k)
        BY <4>1 DEF Types
      <4> QED
        BY <2>1, <3>3, <3>5, <4>2 DEF Wanted
    <3>6. CASE ~(r = s /\ Asks(t, s, k))
      <4>1. mask'[r] = mask[r]
        BY <1>16, <3>6, Zenon DEF Enqueues, Types
      <4> QED
        BY <3>3, <4>1
    <3> QED
      BY <3>5, <3>6
  <2> QED
    BY <2>2, <2>3
<1>17. ASSUME NEW i \in DOMAIN ops, RunPosted(i)
      PROVE  \A r \in Sockets, h \in Kinds : AskedFor(r, h)'
  <2> SUFFICES ASSUME NEW r \in Sockets, phase'[r] = "open",
                      "write" \in Kinds, op_queue_'[data'[r]]["write"] # << >>
               PROVE  "write" \in mask'[r]
    BY AskedSuffices
  <2>1. phase[r] = "open" /\ data'[r] = data[r] /\ mask'[r] = mask[r] /\ data[r] \in States
    BY <1>17, OpenHasState DEF RunPosted, kernelVars, socketVars, stateVars, queueVars
  <2>2. op_queue_[data[r]]["write"] # << >>
    BY <1>17, <2>1 DEF RunPosted, stateVars
  <2> QED
    BY <2>1, <2>2 DEF EdgesKept, AskedFor
<1>18. CASE UNCHANGED reactorVars
  <2>1. UNCHANGED <<phase, data, mask, op_queue_>>
    BY <1>18 DEF reactorVars, kernelVars, socketVars, stateVars
  <2> QED
    BY <2>1 DEF EdgesKept, AskedFor
<1> QED
  BY <1>1, <1>2, <1>3, <1>4, <1>5, <1>6, <1>7, <1>8, <1>9, <1>10, <1>11, <1>12, <1>13,
       <1>14, <1>15, <1>16, <1>17, <1>18 DEF Step

\* No step loses an edge.
LEMMA EdgeKeptLater ==
  ASSUME Types, Owned, Locked, Queues, Dispatching, EdgesKept, Step \/ UNCHANGED reactorVars
  PROVE  \A r \in Sockets, h \in Kinds : EdgeKept(r, h)'
<1>1. ASSUME NEW s \in Sockets, PeerEnds(s)
      PROVE  \A r \in Sockets, h \in Kinds : EdgeKept(r, h)'
  <2> SUFFICES ASSUME NEW r \in Sockets, NEW h \in Kinds, phase'[r] = "open",
                      h \in mask'[r], h \in Ready(r)'
               PROVE  Minded(r, h)'
    BY DEF EdgeKept
  <2>0. phase[r] = "open" /\ data'[r] = data[r] /\ data[r] \in States
    BY <1>1, OpenHasState DEF PeerEnds, socketVars
  <2>1. CASE r = s /\ h = "read"
    <3>1. listed'[r] /\ h \in mask'[r]
      BY <1>1, <2>1 DEF PeerEnds, Types
    <3> QED
      BY <3>1 DEF Minded, Watched
  <2>2. CASE ~(r = s /\ h = "read")
    <3>2. h \in mask[r] /\ h \in Ready(r)
      BY <1>1, <2>2 DEF PeerEnds, Ready, Types
    <3>3. Watched(r, h) => Watched(r, h)'
      BY <1>1, <2>0, WatchedStays DEF PeerEnds, Types, socketVars, stateVars, queueVars
    <3>4. r \in ended => r \in ended'
      BY <1>1 DEF PeerEnds
    <3>5. WillTry(r, h) => Minded(r, h)'
      <4>1. StartsDirect(r, h)' => StartsDirect(r, h)
        <5>1. \A u \in Threads : loc'[u].at = "start" => loc'[u] = loc[u]
          BY <1>1 DEF PeerEnds
        <5> QED
          BY <1>1, <5>1, DirectStays DEF Step
      <4>2. /\ try_speculative_[data[r]][h] => try_speculative_'[data[r]][h]
            /\ op_queue_[data[r]][h] = << >> => op_queue_'[data[r]][h] = << >>
        BY <1>1 DEF PeerEnds, stateVars
      <4> QED
        BY <2>0, <4>1, <4>2, TryStays DEF Minded
    <3> QED
      BY <2>0, <3>2, <3>3, <3>4, <3>5, MindedStays
  <2> QED
    BY <2>1, <2>2
<1>2. ASSUME NEW s \in Sockets, CancelOps(s)
      PROVE  \A r \in Sockets, h \in Kinds : EdgeKept(r, h)'
  <2> SUFFICES ASSUME NEW r \in Sockets, NEW h \in Kinds, phase'[r] = "open",
                      h \in mask'[r], h \in Ready(r)'
               PROVE  Minded(r, h)'
    BY DEF EdgeKept
  <2>1. phase[r] = "open" /\ data'[r] = data[r] /\ data[r] \in States
    BY <1>2, OpenHasState DEF CancelOps, kernelVars, socketVars, stateVars, queueVars
  <2>2. h \in mask[r] /\ h \in Ready(r)
    BY <1>2 DEF CancelOps, Ready, kernelVars
  <2>3. Watched(r, h) => Watched(r, h)'
    BY <1>2, <2>1, WatchedStays DEF CancelOps, kernelVars, socketVars, stateVars,
         queueVars
  <2>4. r \in ended => r \in ended'
    BY <1>2 DEF CancelOps
  <2>5. WillTry(r, h) => Minded(r, h)'
    <3>1. StartsDirect(r, h)' => StartsDirect(r, h)
      <4>1. \A u \in Threads : loc'[u].at = "start" => loc'[u] = loc[u]
        BY <1>2 DEF CancelOps
      <4> QED
        BY <1>2, <4>1, DirectStays DEF Step
    <3>2. /\ try_speculative_[data[r]][h] => try_speculative_'[data[r]][h]
          /\ op_queue_[data[r]][h] = << >> => op_queue_'[data[r]][h] = << >>
      BY <1>2, <2>1 DEF CancelOps, Abort, Types
    <3> QED
      BY <2>1, <3>1, <3>2, TryStays DEF Minded
  <2> QED
    BY <2>1, <2>2, <2>3, <2>4, <2>5, MindedStays
<1>3. ASSUME NEW s \in Sockets, DeregisterDescriptor(s)
      PROVE  \A r \in Sockets, h \in Kinds : EdgeKept(r, h)'
  <2> SUFFICES ASSUME NEW r \in Sockets, NEW h \in Kinds, phase'[r] = "open",
                      h \in mask'[r], h \in Ready(r)'
               PROVE  Minded(r, h)'
    BY DEF EdgeKept
  <2>1. phase[r] = "open" /\ data'[r] = data[r] /\ data[r] \in States
    BY <1>3, OpenHasState DEF DeregisterDescriptor, socketVars, Types
  <2>2. h \in mask[r] /\ h \in Ready(r)
    BY <1>3 DEF DeregisterDescriptor, Ready, kernelVars
  <2>3. Watched(r, h) => Watched(r, h)'
    BY <1>3, <2>1, WatchedStays DEF DeregisterDescriptor, kernelVars, socketVars,
         stateVars, queueVars
  <2>4. r \in ended => r \in ended'
    BY <1>3 DEF DeregisterDescriptor
  <2>5. WillTry(r, h) => Minded(r, h)'
    <3>1. StartsDirect(r, h)' => StartsDirect(r, h)
      <4>1. \A u \in Threads : loc'[u].at = "start" => loc'[u] = loc[u]
        BY <1>3 DEF DeregisterDescriptor
      <4> QED
        BY <1>3, <4>1, DirectStays DEF Step
    <3>2. /\ try_speculative_[data[r]][h] => try_speculative_'[data[r]][h]
          /\ op_queue_[data[r]][h] = << >> => op_queue_'[data[r]][h] = << >>
      BY <1>3, <2>1 DEF DeregisterDescriptor, Abort, Types
    <3> QED
      BY <2>1, <3>1, <3>2, TryStays DEF Minded
  <2> QED
    BY <2>1, <2>2, <2>3, <2>4, <2>5, MindedStays
<1>4. ASSUME NEW s \in Sockets, CleanupDescriptorData(s)
      PROVE  \A r \in Sockets, h \in Kinds : EdgeKept(r, h)'
  <2> SUFFICES ASSUME NEW r \in Sockets, NEW h \in Kinds, phase'[r] = "open",
                      h \in mask'[r], h \in Ready(r)'
               PROVE  Minded(r, h)'
    BY DEF EdgeKept
  <2>1. phase[r] = "open" /\ data'[r] = data[r] /\ data[r] \in States
    BY <1>4, OpenHasState DEF CleanupDescriptorData, Types
  <2>2. h \in mask[r] /\ h \in Ready(r)
    <3>1. r # s
      BY <1>4 DEF CleanupDescriptorData, Types
    <3> QED
      BY <1>4, <3>1 DEF CleanupDescriptorData, Ready, Types
  <2>3. Watched(r, h) => Watched(r, h)'
    <3>1. r # s
      BY <1>4 DEF CleanupDescriptorData, Types
    <3> QED
      BY <1>4, <2>1, <3>1, WatchedStays DEF CleanupDescriptorData, stateVars,
           queueVars, Types
  <2>4. r \in ended => r \in ended'
    BY <1>4, <2>1 DEF CleanupDescriptorData, Types
  <2>5. WillTry(r, h) => Minded(r, h)'
    <3>1. StartsDirect(r, h)' => StartsDirect(r, h)
      <4>1. \A u \in Threads : loc'[u].at = "start" => loc'[u] = loc[u]
        BY <1>4 DEF CleanupDescriptorData
      <4> QED
        BY <1>4, <4>1, DirectStays DEF Step
    <3>2. /\ try_speculative_[data[r]][h] => try_speculative_'[data[r]][h]
          /\ op_queue_[data[r]][h] = << >> => op_queue_'[data[r]][h] = << >>
      BY <1>4 DEF CleanupDescriptorData, stateVars
    <3> QED
      BY <2>1, <3>1, <3>2, TryStays DEF Minded
  <2> QED
    BY <2>1, <2>2, <2>3, <2>4, <2>5, MindedStays
<1>5. ASSUME NEW s \in Sockets, NEW k \in Kinds, Arrive(s, k)
      PROVE  \A r \in Sockets, h \in Kinds : EdgeKept(r, h)'
  <2> SUFFICES ASSUME NEW r \in Sockets, NEW h \in Kinds, phase'[r] = "open",
                      h \in mask'[r], h \in Ready(r)'
               PROVE  Minded(r, h)'
    BY DEF EdgeKept
  <2>0. phase[r] = "open" /\ data'[r] = data[r] /\ data[r] \in States
    BY <1>5, OpenHasState DEF Arrive, socketVars
  <2>1. CASE r = s /\ h = k
    <3>1. listed'[r] /\ h \in mask'[r]
      BY <1>5, <2>1 DEF Arrive, Types
    <3> QED
      BY <3>1 DEF Minded, Watched
  <2>2. CASE ~(r = s /\ h = k)
    <3>2. h \in mask[r] /\ h \in Ready(r)
      BY <1>5, <2>2 DEF Arrive, Ready, Types
    <3>3. Watched(r, h) => Watched(r, h)'
      BY <1>5, <2>0, WatchedStays DEF Arrive, Types, socketVars, stateVars, queueVars
    <3>4. r \in ended => r \in ended'
      BY <1>5 DEF Arrive
    <3>5. WillTry(r, h) => Minded(r, h)'
      <4>1. StartsDirect(r, h)' => StartsDirect(r, h)
        <5>1. \A u \in Threads : loc'[u].at = "start" => loc'[u] = loc[u]
          BY <1>5 DEF Arrive
        <5> QED
          BY <1>5, <5>1, DirectStays DEF Step
      <4>2. /\ try_speculative_[data[r]][h] => try_speculative_'[data[r]][h]
            /\ op_queue_[data[r]][h] = << >> => op_queue_'[data[r]][h] = << >>
        BY <1>5 DEF Arrive, stateVars
      <4> QED
        BY <2>0, <4>1, <4>2, TryStays DEF Minded
    <3> QED
      BY <2>0, <3>2, <3>3, <3>4, <3>5, MindedStays
  <2> QED
    BY <2>1, <2>2
<1>6. ASSUME NEW s \in Sockets, NEW d \in States, Register(s, d)
      PROVE  \A r \in Sockets, h \in Kinds : EdgeKept(r, h)'
  <2> SUFFICES ASSUME NEW r \in Sockets, NEW h \in Kinds, phase'[r] = "open",
                      h \in mask'[r], h \in Ready(r)'
               PROVE  Minded(r, h)'
    BY DEF EdgeKept
  <2>1. CASE r = s
    <3>1. mask'[s] = Kinds \ {"write"} /\ Ready(s)' = Ready(s)
      BY <1>6 DEF Register, EpollCtl, Ready, Types
    <3>2. Ready(s) \cap (Kinds \ {"write"}) # {}
      BY <2>1, <3>1
    <3>3. listed'[s]
      BY <1>6, <3>2 DEF Register, EpollCtl, Types
    <3> QED
      BY <2>1, <3>3 DEF Minded, Watched
  <2>2. CASE r # s
    <3>1. /\ phase[r] = "open" /\ data'[r] = data[r] /\ data[r] \in States
          /\ data[r] # d
      BY <1>6, <2>2, OpenHasState DEF Register, Free
    <3>2. h \in mask[r] /\ h \in Ready(r)
      BY <1>6, <2>2 DEF Register, EpollCtl, Ready
    <3>3. Watched(r, h) => Watched(r, h)'
      BY <1>6, <2>2, <3>1, WatchedStays DEF Register, EpollCtl, queueVars
    <3>4. r \in ended => r \in ended'
      BY <1>6 DEF Register
    <3>5. WillTry(r, h) => Minded(r, h)'
      <4>1. StartsDirect(r, h)' => StartsDirect(r, h)
        <5>1. \A u \in Threads : loc'[u].at = "start" => loc'[u] = loc[u]
          BY <1>6 DEF Register
        <5> QED
          BY <1>6, <5>1, DirectStays DEF Step
      <4>2. /\ try_speculative_[data[r]][h] => try_speculative_'[data[r]][h]
            /\ op_queue_[data[r]][h] = << >> => op_queue_'[data[r]][h] = << >>
        BY <1>6, <3>1 DEF Register
      <4> QED
        BY <3>1, <4>1, <4>2, TryStays DEF Minded
    <3> QED
      BY <3>1, <3>2, <3>3, <3>4, <3>5, MindedStays
  <2> QED
    BY <2>1, <2>2
<1>7. ASSUME NEW t \in Threads, NEW s \in Sockets, NEW k \in Kinds, NEW size \in 1..2,
             StartsNow(t, s, k, size)
      PROVE  \A r \in Sockets, h \in Kinds : EdgeKept(r, h)'
  <2> SUFFICES ASSUME NEW r \in Sockets, NEW h \in Kinds, phase'[r] = "open",
                      h \in mask'[r], h \in Ready(r)'
               PROVE  Minded(r, h)'
    BY DEF EdgeKept
  <2>0. /\ phase[s] = "open" /\ data[s] \in States /\ mutex_[data[s]] = None
        /\ op_queue_[data[s]][k] = << >>
    BY <1>7, OpenHasState DEF StartsNow
  <2>1. /\ phase[r] = "open" /\ data'[r] = data[r] /\ data[r] \in States
        /\ r # s => data[r] # data[s]
    BY <1>7, OpenHasState, ReactorAssumption DEF StartsNow, socketVars, Owned
  <2>2. CASE r = s /\ h = k
    <3>0. /\ NewOp(s, k, size).socket = s /\ NewOp(s, k, size).kind = k
          /\ NewOp(s, k, size).size = size
      BY NewOpIsOp
    <3>1. CASE Status(NewOp(s, k, size)) = "done"
      <4>1. ~StartsDirect(s, k)
        BY <2>0, NobodyStarts
      <4>2. StartsDirect(s, k)' => StartsDirect(s, k)
        <5>1. \A u \in Threads : loc'[u].at = "start" => loc'[u] = loc[u]
          BY <1>7 DEF StartsNow
        <5> QED
          BY <1>7, <5>1, DirectStays DEF Step
      <4>3. try_speculative_'[data[s]][k] /\ op_queue_'[data[s]][k] = << >>
        BY <1>7, <2>0, <3>1 DEF StartsNow, Types
      <4> QED
        BY <2>1, <2>2, <4>1, <4>2, <4>3 DEF Minded, WillTry
    <3>2. CASE Status(NewOp(s, k, size)) = "done_and_exhausted"
      <4>1. (k = "read" /\ s \in ended') \/ k \notin Ready(s)'
        BY <1>7, <3>0, <3>2, StatusSays DEF StartsNow
      <4> QED
        BY <2>2, <4>1 DEF Minded
    <3>3. Status(NewOp(s, k, size)) \in {"done", "done_and_exhausted"}
      BY <1>7, <3>0, StatusSays DEF StartsNow
    <3> QED
      BY <3>1, <3>2, <3>3
  <2>3. CASE ~(r = s /\ h = k)
    <3>0. /\ NewOp(s, k, size).socket = s /\ NewOp(s, k, size).kind = k
          /\ NewOp(s, k, size).size = size
      BY NewOpIsOp
    <3>1. avail'[r][h] = avail[r][h]
      BY <1>7, <2>3, <3>0, TakeTakes DEF StartsNow
    <3>2. h \in mask[r] /\ h \in Ready(r)
      BY <1>7, <3>1 DEF StartsNow, Ready
    <3>3. Watched(r, h) => Watched(r, h)'
      BY <1>7, <2>1, WatchedStays DEF StartsNow
    <3>4. r \in ended => r \in ended'
      BY <1>7 DEF StartsNow, End
    <3>5. WillTry(r, h) => Minded(r, h)'
      <4>1. StartsDirect(r, h)' => StartsDirect(r, h)
        <5>1. \A u \in Threads : loc'[u].at = "start" => loc'[u] = loc[u]
          BY <1>7 DEF StartsNow
        <5> QED
          BY <1>7, <5>1, DirectStays DEF Step
      <4>2. /\ try_speculative_[data[r]][h] => try_speculative_'[data[r]][h]
            /\ op_queue_[data[r]][h] = << >> => op_queue_'[data[r]][h] = << >>
        BY <1>7, <2>1, <2>3 DEF StartsNow, Types
      <4> QED
        BY <2>1, <4>1, <4>2, TryStays DEF Minded
    <3> QED
      BY <2>1, <3>2, <3>3, <3>4, <3>5, MindedStays
  <2> QED
    BY <2>2, <2>3
<1>8. ASSUME NEW t \in Threads, NEW s \in Sockets, NEW k \in Kinds, NEW size \in 1..2,
             NEW direct \in BOOLEAN, StartsLater(t, s, k, size, direct)
      PROVE  \A r \in Sockets, h \in Kinds : EdgeKept(r, h)'
  <2> SUFFICES ASSUME NEW r \in Sockets, NEW h \in Kinds, phase'[r] = "open",
                      h \in mask'[r], h \in Ready(r)'
               PROVE  Minded(r, h)'
    BY DEF EdgeKept
  <2>1. phase[r] = "open" /\ data'[r] = data[r] /\ data[r] \in States
    BY <1>8, OpenHasState DEF StartsLater, socketVars
  <2>2. h \in mask[r] /\ h \in Ready(r)
    BY <1>8 DEF StartsLater, Ready, kernelVars
  <2>3. Watched(r, h) => Watched(r, h)'
    BY <1>8, IdleAt, <2>1, WatchedStays DEF StartsLater, Types
  <2>4. r \in ended => r \in ended'
    BY <1>8 DEF StartsLater
  <2>5. WillTry(r, h) => Minded(r, h)'
    <3> SUFFICES ASSUME WillTry(r, h)
                 PROVE  Minded(r, h)'
      OBVIOUS
    <3>1. CASE direct /\ r = s /\ h = k
      <4>1. op_queue_[data[s]][k] = << >> /\ try_speculative_[data[s]][k]
        BY <3>1 DEF WillTry
      <4>2. Status(NewOp(s, k, size)) = "not_done"
        BY <1>8, <3>1, <4>1 DEF StartsLater
      <4>3. k \notin Ready(s)
        BY <4>2, NewOpIsOp, StatusSays
      <4> QED
        BY <2>2, <3>1, <4>3
    <3>2. CASE ~(direct /\ r = s /\ h = k)
      <4>1. ASSUME NEW u \in Threads, loc'[u].at = "start", loc'[u].direct,
                   ops'[loc'[u].op].socket = r, ops'[loc'[u].op].kind = h
            PROVE  StartsDirect(r, h)
        <5>1. CASE u = t
          <6>1. loc'[t] = [at |-> "start", op |-> Len(ops) + 1, direct |-> direct]
            BY <1>8 DEF StartsLater, Types
          <6>2. loc'[t].op = Len(ops) + 1 /\ loc'[t].direct = direct
            BY <6>1
          <6>3. ops'[Len(ops) + 1].socket = s /\ ops'[Len(ops) + 1].kind = k
            BY <1>8, NewOpIsOp, OneMoreOp DEF StartsLater
          <6> QED
            BY <3>2, <4>1, <5>1, <6>2, <6>3
        <5>2. CASE u # t
          <6>1. loc'[u] = loc[u]
            BY <1>8, <5>2 DEF StartsLater
          <6>2. loc[u].op \in DOMAIN ops
            BY <4>1, <6>1, StarterHas
          <6>3. ops[loc[u].op].socket = r /\ ops[loc[u].op].kind = h
            BY <1>8, <4>1, <6>1, <6>2, OpsStay DEF Step
          <6> QED
            BY <4>1, <6>1, <6>3 DEF StartsDirect
        <5> QED
          BY <5>1, <5>2
      <4>2. StartsDirect(r, h)' => StartsDirect(r, h)
        BY <4>1 DEF StartsDirect
      <4>3. /\ try_speculative_[data[r]][h] => try_speculative_'[data[r]][h]
            /\ op_queue_[data[r]][h] = << >> => op_queue_'[data[r]][h] = << >>
        BY <1>8 DEF StartsLater
      <4> QED
        BY <2>1, <4>2, <4>3, TryStays DEF Minded
    <3> QED
      BY <3>1, <3>2
  <2> QED
    BY <2>1, <2>2, <2>3, <2>4, <2>5, MindedStays
<1>9. ASSUME NEW t \in Threads, EpollWait(t)
      PROVE  \A r \in Sockets, h \in Kinds : EdgeKept(r, h)'
  <2> SUFFICES ASSUME NEW r \in Sockets, NEW h \in Kinds, phase'[r] = "open",
                      h \in mask'[r], h \in Ready(r)'
               PROVE  Minded(r, h)'
    BY DEF EdgeKept
  <2>1. phase[r] = "open" /\ data'[r] = data[r] /\ data[r] \in States
    BY <1>9, OpenHasState DEF EpollWait, socketVars
  <2>2. h \in mask[r] /\ h \in Ready(r)
    BY <1>9 DEF EpollWait, Ready, kernelVars
  <2>3. Watched(r, h) => Watched(r, h)'
    <3> SUFFICES ASSUME Watched(r, h)
                 PROVE  Watched(r, h)'
      OBVIOUS
    <3>1. events = {} /\ scheduled = {} /\ loc[t] = Idle
      BY <1>9 DEF EpollWait, Dispatching
    <3>2. CASE listed[r] /\ h \in mask[r]
      <4>1. Ready(r) \cap mask[r] # {} /\ h \in Ready(r) \cap mask[r]
        BY <2>2
      <4>2. <<data[r], Ready(r) \cap mask[r]>> \in events'
        BY <1>9, <3>2, <4>1 DEF EpollWait
      <4>3. PICK e \in events' : e = <<data[r], Ready(r) \cap mask[r]>>
        BY <4>2
      <4>4. e[1] = data'[r] /\ h \in e[2]
        BY <2>1, <4>1, <4>3
      <4> QED
        BY <4>4 DEF Watched
    <3>3. CASE \E u \in Threads :
            /\ loc[u].at \in {"lock", "perform"} /\ loc[u].state = data[r]
            /\ h \in loc[u].kinds
      <4>1. PICK u \in Threads :
              /\ loc[u].at \in {"lock", "perform"} /\ loc[u].state = data[r]
              /\ h \in loc[u].kinds
        BY <3>3
      <4>2. loc'[u] = loc[u]
        BY <1>9, <3>1, <4>1, IdleAt DEF EpollWait
      <4> QED
        BY <2>1, <4>1, <4>2 DEF Watched
    <3> QED
      BY <3>1, <3>2, <3>3 DEF Watched
  <2>4. r \in ended => r \in ended'
    BY <1>9 DEF EpollWait
  <2>5. WillTry(r, h) => Minded(r, h)'
    <3>1. StartsDirect(r, h)' => StartsDirect(r, h)
      <4>1. \A u \in Threads : loc'[u].at = "start" => loc'[u] = loc[u]
        BY <1>9, IdleAt DEF EpollWait, Types
      <4> QED
        BY <1>9, <4>1, DirectStays DEF Step
    <3>2. /\ try_speculative_[data[r]][h] => try_speculative_'[data[r]][h]
          /\ op_queue_[data[r]][h] = << >> => op_queue_'[data[r]][h] = << >>
      BY <1>9 DEF EpollWait, stateVars
    <3> QED
      BY <2>1, <3>1, <3>2, TryStays DEF Minded
  <2> QED
    BY <2>1, <2>2, <2>3, <2>4, <2>5, MindedStays
<1>10. ASSUME NEW t \in Threads, Dispatch(t)
      PROVE  \A r \in Sockets, h \in Kinds : EdgeKept(r, h)'
  <2> SUFFICES ASSUME NEW r \in Sockets, NEW h \in Kinds, phase'[r] = "open",
                      h \in mask'[r], h \in Ready(r)'
               PROVE  Minded(r, h)'
    BY DEF EdgeKept
  <2>1. phase[r] = "open" /\ data'[r] = data[r] /\ data[r] \in States
    BY <1>10, OpenHasState DEF Dispatch, socketVars
  <2>2. h \in mask[r] /\ h \in Ready(r)
    BY <1>10 DEF Dispatch, Ready, kernelVars
  <2>3. Watched(r, h) => Watched(r, h)'
    <3> SUFFICES ASSUME Watched(r, h)
                 PROVE  Watched(r, h)'
      OBVIOUS
    <3>1. scheduled = {} /\ loc[t].at = "dispatch"
      BY <1>10 DEF Dispatch, Dispatching
    <3>2. CASE listed[r] /\ h \in mask[r]
      BY <1>10, <3>2 DEF Dispatch, kernelVars, Watched
    <3>3. CASE \E e \in events : e[1] = data[r] /\ h \in e[2]
      <4>1. PICK e \in events : e[1] = data[r] /\ h \in e[2]
        BY <3>3
      <4>2. data[r] \in scheduled'
        BY <1>10, <4>1 DEF Dispatch
      <4>3. h \in task_result_'[data[r]]
        <5>1. task_result_'[data[r]] =
                UNION ({f[2] : f \in {f \in events : f[1] = data[r]}} \cup
                       IF data[r] \in scheduled' THEN {} ELSE {task_result_[data[r]]})
          BY <1>10, <2>1 DEF Dispatch
        <5> QED
          BY <4>1, <5>1
      <4> QED
        BY <2>1, <4>2, <4>3 DEF Watched
    <3>4. CASE \E u \in Threads :
            /\ loc[u].at \in {"lock", "perform"} /\ loc[u].state = data[r]
            /\ h \in loc[u].kinds
      <4>1. PICK u \in Threads :
              /\ loc[u].at \in {"lock", "perform"} /\ loc[u].state = data[r]
              /\ h \in loc[u].kinds
        BY <3>4
      <4>2. loc'[u] = loc[u]
        BY <1>10, <3>1, <4>1 DEF Dispatch
      <4> QED
        BY <2>1, <4>1, <4>2 DEF Watched
    <3> QED
      BY <3>1, <3>2, <3>3, <3>4 DEF Watched
  <2>4. r \in ended => r \in ended'
    BY <1>10 DEF Dispatch
  <2>5. WillTry(r, h) => Minded(r, h)'
    <3>1. StartsDirect(r, h)' => StartsDirect(r, h)
      <4>1. \A u \in Threads : loc'[u].at = "start" => loc'[u] = loc[u]
        BY <1>10, IdleAt DEF Dispatch, Types
      <4> QED
        BY <1>10, <4>1, DirectStays DEF Step
    <3>2. /\ try_speculative_[data[r]][h] => try_speculative_'[data[r]][h]
          /\ op_queue_[data[r]][h] = << >> => op_queue_'[data[r]][h] = << >>
      BY <1>10 DEF Dispatch, stateVars
    <3> QED
      BY <2>1, <3>1, <3>2, TryStays DEF Minded
  <2> QED
    BY <2>1, <2>2, <2>3, <2>4, <2>5, MindedStays
<1>11. ASSUME NEW t \in Threads, Lock(t)
      PROVE  \A r \in Sockets, h \in Kinds : EdgeKept(r, h)'
  <2> SUFFICES ASSUME NEW r \in Sockets, NEW h \in Kinds, phase'[r] = "open",
                      h \in mask'[r], h \in Ready(r)'
               PROVE  Minded(r, h)'
    BY DEF EdgeKept
  <2>1. phase[r] = "open" /\ data'[r] = data[r] /\ data[r] \in States
    BY <1>11, OpenHasState DEF Lock, socketVars
  <2>2. h \in mask[r] /\ h \in Ready(r)
    BY <1>11 DEF Lock, Ready, kernelVars
  <2>3. Watched(r, h) => Watched(r, h)'
    <3>1. /\ loc'[t].at = "perform" /\ loc'[t].state = loc[t].state
          /\ loc'[t].kinds = loc[t].kinds
          /\ \A u \in Threads : u # t => loc'[u] = loc[u]
      BY <1>11, PlaceParts DEF Lock, Types
    <3> QED
      BY <1>11, <2>1, <3>1, WatchedStays DEF Lock, kernelVars, queueVars
  <2>4. r \in ended => r \in ended'
    BY <1>11 DEF Lock
  <2>5. WillTry(r, h) => Minded(r, h)'
    <3>1. StartsDirect(r, h)' => StartsDirect(r, h)
      <4>1. \A u \in Threads : loc'[u].at = "start" => loc'[u] = loc[u]
        <5>1. loc'[t].at = "perform" /\ \A u \in Threads : u # t => loc'[u] = loc[u]
          BY <1>11, PlaceParts DEF Lock, Types
        <5> QED
          BY <5>1
      <4> QED
        BY <1>11, <4>1, DirectStays DEF Step
    <3>2. /\ try_speculative_[data[r]][h] => try_speculative_'[data[r]][h]
          /\ op_queue_[data[r]][h] = << >> => op_queue_'[data[r]][h] = << >>
      BY <1>11 DEF Lock
    <3> QED
      BY <2>1, <3>1, <3>2, TryStays DEF Minded
  <2> QED
    BY <2>1, <2>2, <2>3, <2>4, <2>5, MindedStays
<1>12. ASSUME NEW t \in Threads, Leave(t)
      PROVE  \A r \in Sockets, h \in Kinds : EdgeKept(r, h)'
  <2> SUFFICES ASSUME NEW r \in Sockets, NEW h \in Kinds, phase'[r] = "open",
                      h \in mask'[r], h \in Ready(r)'
               PROVE  Minded(r, h)'
    BY DEF EdgeKept
  <2>1. phase[r] = "open" /\ data'[r] = data[r] /\ data[r] \in States
    BY <1>12, OpenHasState DEF Leave, socketVars
  <2>2. h \in mask[r] /\ h \in Ready(r)
    BY <1>12 DEF Leave, Ready, kernelVars
  <2>3. Watched(r, h) => Watched(r, h)'
    <3>1. loc[t].kinds = {} /\ \A u \in Threads : u # t => loc'[u] = loc[u]
      BY <1>12 DEF Leave
    <3> QED
      BY <1>12, <2>1, <3>1, WatchedStays DEF Leave, kernelVars
  <2>4. r \in ended => r \in ended'
    BY <1>12 DEF Leave
  <2>5. WillTry(r, h) => Minded(r, h)'
    <3>1. StartsDirect(r, h)' => StartsDirect(r, h)
      <4>1. \A u \in Threads : loc'[u].at = "start" => loc'[u] = loc[u]
        BY <1>12, IdleAt DEF Leave, Types
      <4> QED
        BY <1>12, <4>1, DirectStays DEF Step
    <3>2. /\ try_speculative_[data[r]][h] => try_speculative_'[data[r]][h]
          /\ op_queue_[data[r]][h] = << >> => op_queue_'[data[r]][h] = << >>
      BY <1>12 DEF Leave, stateVars
    <3> QED
      BY <2>1, <3>1, <3>2, TryStays DEF Minded
  <2> QED
    BY <2>1, <2>2, <2>3, <2>4, <2>5, MindedStays
<1>13. ASSUME NEW t \in Threads, NEW d \in States, Dequeue(t, d)
      PROVE  \A r \in Sockets, h \in Kinds : EdgeKept(r, h)'
  <2> SUFFICES ASSUME NEW r \in Sockets, NEW h \in Kinds, phase'[r] = "open",
                      h \in mask'[r], h \in Ready(r)'
               PROVE  Minded(r, h)'
    BY DEF EdgeKept
  <2>1. phase[r] = "open" /\ data'[r] = data[r] /\ data[r] \in States
    BY <1>13, OpenHasState DEF Dequeue, socketVars
  <2>2. h \in mask[r] /\ h \in Ready(r)
    BY <1>13 DEF Dequeue, Ready, kernelVars
  <2>3. Watched(r, h) => Watched(r, h)'
    <3>1. /\ loc[t].at = "idle" /\ loc'[t].at = "lock" /\ loc'[t].state = d
          /\ loc'[t].kinds = task_result_[d]
          /\ \A u \in Threads : u # t => loc'[u] = loc[u]
          /\ scheduled' = scheduled \ {d}
      BY <1>13, IdleAt DEF Dequeue, Types
    <3>2. UNCHANGED <<data, events, task_result_, listed, mask>>
      BY <1>13 DEF Dequeue, kernelVars, socketVars
    <3>3. CASE data[r] \in scheduled /\ h \in task_result_[data[r]] /\ data[r] = d
      BY <3>1, <3>2, <3>3 DEF Watched
    <3>4. CASE data[r] \in scheduled /\ h \in task_result_[data[r]] /\ data[r] # d
      BY <3>1, <3>2, <3>4 DEF Watched
    <3>5. ASSUME NEW u \in Threads, loc[u].at \in {"lock", "perform"},
                 loc[u].state = data[r], h \in loc[u].kinds
          PROVE  Watched(r, h)'
      <4>1. loc'[u] = loc[u]
        BY <3>1, <3>5
      <4> QED
        BY <3>2, <3>5, <4>1 DEF Watched
    <3>6. CASE listed[r] /\ h \in mask[r]
      BY <3>2, <3>6 DEF Watched
    <3>7. CASE \E e \in events : e[1] = data[r] /\ h \in e[2]
      BY <3>2, <3>7 DEF Watched
    <3> QED
      BY <3>3, <3>4, <3>5, <3>6, <3>7 DEF Watched
  <2>4. r \in ended => r \in ended'
    BY <1>13 DEF Dequeue
  <2>5. WillTry(r, h) => Minded(r, h)'
    <3>1. StartsDirect(r, h)' => StartsDirect(r, h)
      <4>1. \A u \in Threads : loc'[u].at = "start" => loc'[u] = loc[u]
        BY <1>13 DEF Dequeue, Types
      <4> QED
        BY <1>13, <4>1, DirectStays DEF Step
    <3>2. /\ try_speculative_[data[r]][h] => try_speculative_'[data[r]][h]
          /\ op_queue_[data[r]][h] = << >> => op_queue_'[data[r]][h] = << >>
      BY <1>13 DEF Dequeue, stateVars
    <3> QED
      BY <2>1, <3>1, <3>2, TryStays DEF Minded
  <2> QED
    BY <2>1, <2>2, <2>3, <2>4, <2>5, MindedStays
<1>14. ASSUME NEW t \in Threads, NEW k \in Kinds, Misses(t, k)
      PROVE  \A r \in Sockets, h \in Kinds : EdgeKept(r, h)'
  <2> SUFFICES ASSUME NEW r \in Sockets, NEW h \in Kinds, phase'[r] = "open",
                      h \in mask'[r], h \in Ready(r)'
               PROVE  Minded(r, h)'
    BY DEF EdgeKept
  <2> DEFINE d == loc[t].state
  <2>0. d \in States /\ mutex_[d] = t /\ loc[t].at = "perform" /\ k \in loc[t].kinds
    BY <1>14, PerformerHas DEF Misses
  <2>1. phase[r] = "open" /\ data'[r] = data[r] /\ data[r] \in States
    BY <1>14, OpenHasState DEF Misses, socketVars
  <2>2. h \in mask[r] /\ h \in Ready(r)
    BY <1>14 DEF Misses, Ready
  <2>3. /\ loc'[t].at = "perform" /\ loc'[t].state = d /\ loc'[t].kinds = loc[t].kinds \ {k}
        /\ \A u \in Threads : u # t => loc'[u] = loc[u]
    BY <1>14, PlaceParts DEF Misses, Types
  <2>4. StartsDirect(r, h)' => StartsDirect(r, h)
    <3>1. \A u \in Threads : loc'[u].at = "start" => loc'[u] = loc[u]
      BY <2>3
    <3> QED
      BY <1>14, <3>1, DirectStays DEF Step
  <2>5. CASE data[r] = d /\ h = k
    <3>1. CASE op_queue_[d][k] = << >>
      <4>1. ~StartsDirect(r, h)
        BY <2>0, <2>5, NobodyStarts
      <4>2. try_speculative_'[data[r]][h] /\ op_queue_'[data[r]][h] = << >>
        BY <1>14, <2>0, <2>5, <3>1 DEF Misses, Types
      <4> QED
        BY <2>1, <2>4, <4>1, <4>2 DEF Minded, WillTry
    <3>2. CASE op_queue_[d][k] # << >>
      <4>1. PICK i \in DOMAIN ops : i = Head(op_queue_[d][k])
        BY <2>0, <3>2, HeadIsQueued
      <4>2. ops[i].kind = k /\ data[ops[i].socket] = d
        BY <2>0, <3>2, <4>1, HeadIsQueued
      <4>3. /\ ops[i].socket \in Sockets /\ ops[i].kind \in Kinds
            /\ ops[i].size \in 1..2
        BY OpParts
      <4>4. ops[i].socket = r
        BY <2>1, <2>5, <4>2, <4>3, ReactorAssumption DEF Owned
      <4>5. Status(ops[i]) = "not_done"
        BY <1>14, <3>2, <4>1 DEF Misses
      <4>6. k \notin Ready(r)
        BY <4>2, <4>3, <4>4, <4>5, StatusSays
      <4> QED
        BY <2>2, <2>5, <4>6
    <3> QED
      BY <3>1, <3>2
  <2>6. CASE ~(data[r] = d /\ h = k)
    <3>1. \A u \in Threads :
            loc[u].at \in {"lock", "perform"} /\ loc[u].state = data[r]
              /\ h \in loc[u].kinds
            => /\ loc'[u].at \in {"lock", "perform"} /\ loc'[u].state = data[r]
               /\ h \in loc'[u].kinds
      BY <2>3, <2>6
    <3>2. Watched(r, h) => Watched(r, h)'
      BY <1>14, <2>1, <3>1, WatchedStays DEF Misses, queueVars
    <3>3. /\ try_speculative_[data[r]][h] => try_speculative_'[data[r]][h]
          /\ op_queue_[data[r]][h] = << >> => op_queue_'[data[r]][h] = << >>
      BY <1>14, <2>0, <2>1, <2>6 DEF Misses, Types
    <3>4. WillTry(r, h) => Minded(r, h)'
      BY <2>1, <2>4, <3>3, TryStays DEF Minded
    <3>5. ended' = ended
      BY <1>14 DEF Misses
    <3> QED
      BY <2>1, <2>2, <3>2, <3>4, <3>5, MindedStays
  <2> QED
    BY <2>5, <2>6
<1>15. ASSUME NEW t \in Threads, NEW k \in Kinds, NEW i \in DOMAIN ops, Takes(t, k, i)
      PROVE  \A r \in Sockets, h \in Kinds : EdgeKept(r, h)'
  <2> SUFFICES ASSUME NEW r \in Sockets, NEW h \in Kinds, phase'[r] = "open",
                      h \in mask'[r], h \in Ready(r)'
               PROVE  Minded(r, h)'
    BY DEF EdgeKept
  <2> DEFINE d == loc[t].state
  <2>0. /\ d \in States /\ mutex_[d] = t /\ loc[t].at = "perform" /\ k \in loc[t].kinds
        /\ op_queue_[d][k] # << >> /\ i = Head(op_queue_[d][k])
    BY <1>15, PerformerHas DEF Takes
  <2>1. phase[r] = "open" /\ data'[r] = data[r] /\ data[r] \in States
    BY <1>15, OpenHasState DEF Takes, socketVars
  <2>2. ops[i].kind = k /\ data[ops[i].socket] = d
    BY <2>0, HeadIsQueued
  <2>3. /\ ops[i].socket \in Sockets /\ ops[i].kind \in Kinds /\ ops[i].size \in 1..2
    BY OpParts
  <2>4. data[r] = d <=> r = ops[i].socket
    BY <2>1, <2>2, <2>3, ReactorAssumption DEF Owned
  <2>5. /\ loc'[t].at = "perform" /\ loc'[t].state = d
        /\ loc'[t].kinds = IF Status(ops[i]) = "done" THEN loc[t].kinds
                                                    ELSE loc[t].kinds \ {k}
        /\ \A u \in Threads : u # t => loc'[u] = loc[u]
    BY <1>15 DEF Takes, Performed, Types
  <2>6. CASE data[r] = d /\ h = k
    <3>1. CASE Status(ops[i]) = "done"
      <4>1. loc'[t].kinds = loc[t].kinds
        BY <2>5, <3>1
      <4> QED
        BY <2>0, <2>1, <2>5, <2>6, <4>1 DEF Minded, Watched
    <3>2. CASE Status(ops[i]) = "done_and_exhausted"
      <4>1. (k = "read" /\ r \in ended') \/ k \notin Ready(r)'
        BY <1>15, <2>2, <2>3, <2>4, <2>6, <3>2, StatusSays, Zenon DEF Takes
      <4> QED
        BY <2>6, <4>1 DEF Minded
    <3>3. Status(ops[i]) \in {"done", "done_and_exhausted"}
      BY <1>15, <2>3, StatusSays, Zenon DEF Takes
    <3> QED
      BY <3>1, <3>2, <3>3
  <2>7. CASE ~(data[r] = d /\ h = k)
    <3>0. avail'[r][h] = avail[r][h]
      <4>1. Take(ops[i])
        BY <1>15, Zenon DEF Takes
      <4>2. r # ops[i].socket \/ h # ops[i].kind
        BY <2>2, <2>4, <2>7
      <4> QED
        BY <2>3, <4>1, <4>2, TakeTakes
    <3>1. h \in mask[r] /\ h \in Ready(r)
      BY <1>15, <3>0 DEF Takes, Ready
    <3>2. \A u \in Threads :
            loc[u].at \in {"lock", "perform"} /\ loc[u].state = data[r]
              /\ h \in loc[u].kinds
            => /\ loc'[u].at \in {"lock", "perform"} /\ loc'[u].state = data[r]
               /\ h \in loc'[u].kinds
      BY <2>5, <2>7
    <3>3. Watched(r, h) => Watched(r, h)'
      BY <1>15, <2>1, <3>2, WatchedStays, Zenon DEF Takes, queueVars
    <3>4. /\ try_speculative_[data[r]][h] => try_speculative_'[data[r]][h]
          /\ op_queue_[data[r]][h] = << >> => op_queue_'[data[r]][h] = << >>
      BY <1>15, <2>0, <2>1, <2>7 DEF Takes, Types
    <3>5. StartsDirect(r, h)' => StartsDirect(r, h)
      <4>1. \A u \in Threads : loc'[u].at = "start" => loc'[u] = loc[u]
        BY <2>5
      <4> QED
        BY <1>15, <4>1, DirectStays DEF Step
    <3>6. WillTry(r, h) => Minded(r, h)'
      BY <2>1, <3>4, <3>5, TryStays DEF Minded
    <3>7. r \in ended => r \in ended'
      BY <1>15, Zenon DEF Takes, End
    <3> QED
      BY <2>1, <3>1, <3>3, <3>6, <3>7, MindedStays
  <2> QED
    BY <2>6, <2>7
<1>16. ASSUME NEW t \in Threads, NEW i \in DOMAIN ops, NEW s \in Sockets, NEW k \in Kinds,
             Enqueues(t, i, s, k)
      PROVE  \A r \in Sockets, h \in Kinds : EdgeKept(r, h)'
  <2> SUFFICES ASSUME NEW r \in Sockets, NEW h \in Kinds, phase'[r] = "open",
                      h \in mask'[r], h \in Ready(r)'
               PROVE  Minded(r, h)'
    BY DEF EdgeKept
  <2>0. /\ loc[t].at = "start" /\ phase[s] = "open" /\ data[s] \in States
        /\ loc[t].op = i /\ ops[i].socket = s /\ ops[i].kind = k
    BY <1>16, StarterHas, Zenon DEF Enqueues
  <2>a. phase[r] = "open" /\ data'[r] = data[r]
    BY <1>16, Zenon DEF Enqueues, socketVars
  <2>b. data[r] \in States
    BY <2>a, OpenHasState
  <2>c. r # s => data[r] # data[s]
    BY <2>b, ReactorAssumption DEF Owned
  <2>1. /\ phase[r] = "open" /\ data'[r] = data[r] /\ data[r] \in States
        /\ r # s => data[r] # data[s]
    BY <2>a, <2>b, <2>c
  <2>2. Ready(r)' = Ready(r)
    BY <1>16, Zenon DEF Enqueues, Ready
  <2>3. CASE r = s /\ Asks(t, s, k)
    <3>1. /\ mask' = [mask EXCEPT ![s] = Wanted(data[s], k)]
          /\ listed' = [listed EXCEPT ![s] = @ \/ Ready(s) \cap Wanted(data[s], k) # {}]
      BY <1>16, <2>3, Zenon DEF Enqueues
    <3>2. h \in Wanted(data[s], k)
      BY <2>3, <3>1 DEF Types
    <3>3. Ready(s) \cap Wanted(data[s], k) # {}
      BY <2>2, <2>3, <3>2
    <3>4. listed'[s]
      BY <3>1, <3>3 DEF Types
    <3> QED
      BY <2>3, <3>4 DEF Minded, Watched
  <2>4. CASE ~(r = s /\ Asks(t, s, k))
    <3>1. mask'[r] = mask[r] /\ listed'[r] = listed[r]
      BY <1>16, <2>4 DEF Enqueues, Types
    <3>2. loc'[t] = Idle /\ \A u \in Threads : u # t => loc'[u] = loc[u]
      BY <1>16 DEF Enqueues, Types
    <3>3. Watched(r, h) => Watched(r, h)'
      BY <1>16, <2>0, <2>1, <3>1, <3>2, WatchedStays, Zenon DEF Enqueues
    <3>4. ended' = ended
      BY <1>16, Zenon DEF Enqueues
    <3>5. WillTry(r, h) => Minded(r, h)'
      <4> SUFFICES ASSUME WillTry(r, h)
                   PROVE  Minded(r, h)'
        OBVIOUS
      <4>1. ~(r = s /\ h = k)
        <5> SUFFICES ASSUME r = s, h = k
                     PROVE  FALSE
          OBVIOUS
        <5>1. op_queue_[data[s]][k] = << >> /\ ~StartsDirect(s, k)
          BY DEF WillTry
        <5>2. loc[t].direct = TRUE
          <6>1. loc[t].direct \in BOOLEAN
            BY <2>0, PlaceParts
          <6>2. ~(~loc[t].direct)
            BY <2>4, <5>1 DEF Asks
          <6> QED
            BY <6>1, <6>2
        <5>3. StartsDirect(s, k)
          BY <2>0, <5>2 DEF StartsDirect
        <5> QED
          BY <5>1, <5>3
      <4>2. StartsDirect(r, h)' => StartsDirect(r, h)
        <5>1. \A u \in Threads : loc'[u].at = "start" => loc'[u] = loc[u]
          BY <3>2, IdleAt
        <5> QED
          BY <1>16, <5>1, DirectStays DEF Step
      <4>3. /\ try_speculative_[data[r]][h] => try_speculative_'[data[r]][h]
            /\ op_queue_[data[r]][h] = << >> => op_queue_'[data[r]][h] = << >>
        BY <1>16, <2>0, <2>1, <4>1, Zenon DEF Enqueues, Types
      <4> QED
        BY <2>1, <4>2, <4>3, TryStays DEF Minded
    <3>6. h \in mask[r] /\ h \in Ready(r)
      BY <2>2, <3>1
    <3> QED
      BY <2>1, <3>3, <3>4, <3>5, <3>6, MindedStays
  <2> QED
    BY <2>3, <2>4
<1>17. ASSUME NEW i \in DOMAIN ops, RunPosted(i)
      PROVE  \A r \in Sockets, h \in Kinds : EdgeKept(r, h)'
  <2> SUFFICES ASSUME NEW r \in Sockets, NEW h \in Kinds, phase'[r] = "open",
                      h \in mask'[r], h \in Ready(r)'
               PROVE  Minded(r, h)'
    BY DEF EdgeKept
  <2>1. phase[r] = "open" /\ data'[r] = data[r] /\ data[r] \in States
    BY <1>17, OpenHasState DEF RunPosted, socketVars
  <2>2. h \in mask[r] /\ h \in Ready(r)
    BY <1>17 DEF RunPosted, Ready, kernelVars
  <2>3. Watched(r, h) => Watched(r, h)'
    BY <1>17, <2>1, WatchedStays DEF RunPosted, kernelVars, socketVars, stateVars,
         queueVars
  <2>4. r \in ended => r \in ended'
    BY <1>17 DEF RunPosted
  <2>5. WillTry(r, h) => Minded(r, h)'
    <3>1. StartsDirect(r, h)' => StartsDirect(r, h)
      <4>1. \A u \in Threads : loc'[u].at = "start" => loc'[u] = loc[u]
        BY <1>17 DEF RunPosted
      <4> QED
        BY <1>17, <4>1, DirectStays DEF Step
    <3>2. /\ try_speculative_[data[r]][h] => try_speculative_'[data[r]][h]
          /\ op_queue_[data[r]][h] = << >> => op_queue_'[data[r]][h] = << >>
      BY <1>17 DEF RunPosted, stateVars
    <3> QED
      BY <2>1, <3>1, <3>2, TryStays DEF Minded
  <2> QED
    BY <2>1, <2>2, <2>3, <2>4, <2>5, MindedStays
<1>18. CASE UNCHANGED reactorVars
  <2> SUFFICES ASSUME NEW r \in Sockets, NEW h \in Kinds, phase'[r] = "open",
                      h \in mask'[r], h \in Ready(r)'
               PROVE  Minded(r, h)'
    BY DEF EdgeKept
  <2>1. phase[r] = "open" /\ data'[r] = data[r] /\ data[r] \in States
    BY <1>18, OpenHasState DEF reactorVars, socketVars
  <2>2. h \in mask[r] /\ h \in Ready(r)
    BY <1>18 DEF Ready, reactorVars, kernelVars
  <2>3. Watched(r, h) => Watched(r, h)'
    BY <1>18, <2>1, WatchedStays DEF reactorVars, kernelVars, socketVars, stateVars,
         queueVars
  <2>4. r \in ended => r \in ended'
    BY <1>18 DEF reactorVars
  <2>5. WillTry(r, h) => Minded(r, h)'
    <3>1. StartsDirect(r, h)' => StartsDirect(r, h)
      <4>1. \A u \in Threads : loc'[u].at = "start" => loc'[u] = loc[u]
        BY <1>18 DEF reactorVars
      <4> QED
        BY <1>18, <4>1, DirectStays DEF Step
    <3>2. /\ try_speculative_[data[r]][h] => try_speculative_'[data[r]][h]
          /\ op_queue_[data[r]][h] = << >> => op_queue_'[data[r]][h] = << >>
      BY <1>18 DEF reactorVars, stateVars
    <3> QED
      BY <2>1, <3>1, <3>2, TryStays DEF Minded
  <2> QED
    BY <2>1, <2>2, <2>3, <2>4, <2>5, MindedStays
<1> QED
  BY <1>1, <1>2, <1>3, <1>4, <1>5, <1>6, <1>7, <1>8, <1>9, <1>10, <1>11, <1>12, <1>13,
       <1>14, <1>15, <1>16, <1>17, <1>18 DEF Step

-----------------------------------------------------------------------------
(* The invariant, and the theorems.                                         *)

ReactorInv ==
  /\ Types /\ Owned /\ Locked /\ Queues /\ Started /\ Popped /\ Ranks
  /\ Dispatching /\ EdgesKept /\ WorkBalanced /\ DataInOrder

\* Nothing is started at first.
LEMMA InitHasIt == Init => ReactorInv
<1> SUFFICES ASSUME Init
             PROVE  ReactorInv
  OBVIOUS
<1>1. \A t \in Threads : loc[t].at = "idle"
  BY IdleAt DEF Init
<1>2. /\ Len(ops) = 0 /\ DOMAIN ops = {} /\ \A S : ops \in Seq(S)
  <2>1. ops = << >>
    BY DEF Init
  <2>2. \A S : << >> \in Seq(S)
    OBVIOUS
  <2>3. DOMAIN << >> = {} /\ Len(<< >>) = 0
    OBVIOUS
  <2> QED
    BY <2>1, <2>2, <2>3
<1>3. /\ \A s \in Sockets : phase[s] = "new" /\ data[s] = None /\ mask[s] = {}
      /\ \A d \in States, k \in Kinds : op_queue_[d][k] = << >>
  BY DEF Init
<1>4. Types
  <2>1. << >> \in Seq(Nat)
    OBVIOUS
  <2>2. op_queue_ \in [States -> [Kinds -> Seq(Nat)]]
    BY <2>1 DEF Init
  <2>3. loc \in [Threads -> Place]
    BY DEF Init, Place
  <2>4. avail \in [Sockets -> [Kinds -> 0..MaxAvail]]
    BY ReactorAssumption DEF Init
  <2>5. ops \in Seq(Op) /\ Len(ops) <= MaxOps
    BY <1>2, ReactorAssumption
  <2>6. /\ eof \in [Sockets -> BOOLEAN] /\ listed \in [Sockets -> BOOLEAN]
        /\ mask \in [Sockets -> SUBSET Kinds]
        /\ phase \in [Sockets -> {"new", "open", "closing", "closed"}]
        /\ data \in [Sockets -> States \cup {None}]
    BY DEF Init
  <2>7. /\ try_speculative_ \in [States -> [Kinds -> BOOLEAN]]
        /\ registered_events_ \in [States -> SUBSET Kinds]
        /\ task_result_ \in [States -> SUBSET Kinds]
        /\ mutex_ \in [States -> Threads \cup {None}]
        /\ events \subseteq States \X SUBSET Kinds
        /\ scheduled \subseteq States /\ work \in Int /\ ended \subseteq Sockets
    BY DEF Init
  <2> QED
    BY <2>2, <2>3, <2>4, <2>5, <2>6, <2>7 DEF Types
<1>5. Owned
  BY <1>3 DEF Owned
<1>6. Locked
  BY <1>1 DEF Locked, Holds
<1>7. Queues
  <2>1. Range(<< >>) = {} /\ Increasing(<< >>)
    BY DEF Range, Increasing
  <2> QED
    BY <1>2, <1>3, <2>1 DEF Queues
<1>8. Started
  BY <1>1, <1>2 DEF Started
<1>9. Popped
  BY <1>1 DEF Popped
<1>10. Ranks /\ DataInOrder
  BY <1>2 DEF Ranks, DataInOrder
<1>11. Dispatching
  BY <1>1 DEF Init, Dispatching
<1>12. EdgesKept
  BY <1>3 DEF EdgesKept, EdgeKept, AskedFor
<1>13. WorkBalanced
  <2>1. Pending = {} /\ work = 0
    BY <1>2 DEF Pending, Init
  <2> QED
    BY <2>1, FS_EmptySet DEF WorkBalanced, Pending
<1> QED
  BY <1>4, <1>5, <1>6, <1>7, <1>8, <1>9, <1>10, <1>11, <1>12, <1>13 DEF ReactorInv

\* Every step keeps the invariant.
LEMMA NextKeepsIt == ReactorInv /\ [Next]_reactorVars => ReactorInv'
<1> SUFFICES ASSUME ReactorInv, [Next]_reactorVars
             PROVE  ReactorInv'
  OBVIOUS
<1>1. /\ Types /\ Owned /\ Locked /\ Queues /\ Started /\ Popped /\ Ranks
      /\ Dispatching /\ EdgesKept /\ WorkBalanced /\ DataInOrder
  BY DEF ReactorInv
<1>2. Step \/ UNCHANGED reactorVars
  BY <1>1, Pieces
<1>3. Types'
  BY <1>1, <1>2, TypesKept
<1>4. Owned'
  BY <1>1, <1>2, OwnedKept
<1>5. Locked'
  BY <1>1, <1>2, LockedKept
<1>6. Queues'
  BY <1>1, <1>2, <1>3, <1>4, <1>5, QueuesKept
<1>7. Started'
  BY <1>1, <1>2, <1>5, StartedKept
<1>8. Popped'
  BY <1>1, <1>2, PoppedKept
<1>9. Ranks' /\ DataInOrder'
  BY <1>1, <1>2, <1>3, OrderKept
<1>10. Dispatching'
  BY <1>1, <1>2, DispatchingKept
<1>11. EdgesKept'
  <2>1. \A s \in Sockets, k \in Kinds : EdgeKept(s, k)'
    BY <1>1, <1>2, EdgeKeptLater
  <2>2. \A s \in Sockets, k \in Kinds : AskedFor(s, k)'
    BY <1>1, <1>2, <1>4, AskedKept
  <2> QED
    BY <2>1, <2>2 DEF EdgesKept
<1>12. WorkBalanced'
  BY <1>1, <1>2, WorkKept
<1> QED
  BY <1>3, <1>4, <1>5, <1>6, <1>7, <1>8, <1>9, <1>10, <1>11, <1>12 DEF ReactorInv

\* The invariant holds always.
LEMMA InvHolds == Spec => []ReactorInv
<1>1. Init => ReactorInv
  BY InitHasIt
<1>2. ReactorInv /\ [Next]_reactorVars => ReactorInv'
  BY NextKeepsIt
<1> QED
  BY <1>1, <1>2, PTL DEF Spec

\* Every variable has its type: no queue has the number of an operation that
\* there is not, and the count of work is never negative.
THEOREM TypesTheorem == Spec => []TypeOK
<1>1. ReactorInv => TypeOK
  <2> SUFFICES ASSUME ReactorInv
               PROVE  TypeOK
    OBVIOUS
  <2>1. Types /\ Queues /\ WorkBalanced
    BY DEF ReactorInv
  <2>2. work \in Nat
    <3>1. Cardinality(Pending) \in Nat
      BY <2>1, PendingFinite
    <3> QED
      BY <2>1, <3>1 DEF WorkBalanced, Pending
  <2>3. op_queue_ \in [States -> [Kinds -> Seq(DOMAIN ops)]]
    <3>1. ASSUME NEW d \in States, NEW k \in Kinds
          PROVE  op_queue_[d][k] \in Seq(DOMAIN ops)
      <4> DEFINE q == op_queue_[d][k]
      <4>1. q \in Seq(Nat)
        BY <2>1 DEF Types
      <4>2. \A i \in Range(q) : i \in DOMAIN ops
        BY <2>1 DEF Queues
      <4> HIDE DEF q
      <4>3. /\ Len(q) \in Nat /\ DOMAIN q = 1..Len(q)
            /\ q = [n \in 1..Len(q) |-> q[n]]
        BY <4>1, LenProperties
      <4>4. \A n \in 1..Len(q) : q[n] \in DOMAIN ops
        BY <4>2, <4>3 DEF Range
      <4>5. q \in [1..Len(q) -> DOMAIN ops]
        BY <4>3, <4>4
      <4>6. q \in Seq(DOMAIN ops)
        BY <4>3, <4>5, IsASeq
      <4> QED
        BY <4>6 DEF q
    <3>2. op_queue_ \in [States -> [Kinds -> Seq(Nat)]]
      BY <2>1 DEF Types
    <3> QED
      BY <3>1, <3>2
  <2>4. ops \in Seq(Op) /\ Len(ops) <= MaxOps /\ loc \in [Threads -> Place]
    BY <2>1 DEF Types
  <2> QED
    BY <2>1, <2>2, <2>3, <2>4 DEF Types, TypeOK
<1> QED
  BY <1>1, InvHolds, PTL

\* A descriptor_state that goes back to the pool has no operations, and what an
\* event of an earlier socket finds in it belongs to the present one
\* (deregister_descriptor, register_descriptor, perform_io).
THEOREM OwnTheorem == Spec => []OwnOperations
<1>1. ReactorInv => OwnOperations
  BY DEF ReactorInv, Queues, OwnOperations, Queued
<1> QED
  BY <1>1, InvHolds, PTL

\* The scheduler's count of work is the number of operations that are not over,
\* in whichever way they complete (start_op, perform_io's cleanup, cancel_ops).
THEOREM WorkTheorem == Spec => []WorkBalanced
<1>1. ReactorInv => WorkBalanced
  BY DEF ReactorInv
<1> QED
  BY <1>1, InvHolds, PTL

\* Operations of one kind take their data in the order in which they were
\* started, also when start_op completes one at once while perform_io completes
\* others (start_op, perform_io).
THEOREM OrderTheorem == Spec => []DataInOrder
<1>1. ReactorInv => DataInOrder
  BY DEF ReactorInv
<1> QED
  BY <1>1, InvHolds, PTL

\* An operation that waits while its socket is ready will be tried, although
\* epoll says only once that the socket became ready (start_op, perform_io).
THEOREM ForgottenTheorem == Spec => []NoOpForgotten
<1>1. ReactorInv => NoOpForgotten
  <2> SUFFICES ASSUME ReactorInv, NEW s \in Sockets, NEW k \in Kinds, phase[s] = "open",
                      op_queue_[data[s]][k] # << >>, k \in Ready(s)
               PROVE  Watched(s, k) \/ (k = "read" /\ s \in ended)
    BY DEF NoOpForgotten
  <2>1. EdgeKept(s, k) /\ AskedFor(s, k)
    BY DEF ReactorInv, EdgesKept
  <2>2. k \in mask[s]
    BY <2>1 DEF AskedFor
  <2>3. Minded(s, k)
    BY <2>1, <2>2 DEF EdgeKept
  <2>4. ~WillTry(s, k)
    BY DEF WillTry
  <2> QED
    BY <2>3, <2>4 DEF Minded
<1> QED
  BY <1>1, InvHolds, PTL

=============================================================================
