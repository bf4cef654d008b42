------------------------------ MODULE Reactor ------------------------------
(***************************************************************************)
(* The reactor of asio on Linux (detail/impl/epoll_reactor.ipp).  Each      *)
(* registered socket has a descriptor_state with a queue of operations per  *)
(* kind.  epoll is edge-triggered: it says once that a socket became ready, *)
(* so an operation that is queued after that, or left in the queue, is      *)
(* never tried again unless the code sees to it.  An operation is tried     *)
(* when it is started, as long as try_speculative_ says that this can help. *)
(*                                                                          *)
(* The mutex of a descriptor_state is held over several system calls, and   *)
(* the kernel moves between them.  A descriptor_state goes back to a pool   *)
(* when its socket is closed and may serve another socket while an event    *)
(* of the first one is still on its way.                                    *)
(*                                                                          *)
(* epoll_ctl does not fail here, and a peer ends its stream but does not    *)
(* reset it.  Of the scheduler this module keeps the set of descriptors     *)
(* that it was given and the count of work; Scheduler has the rest.         *)
(***************************************************************************)
EXTENDS Integers, Sequences, FiniteSets, Functions

CONSTANTS
  Sockets,    \* file descriptors, each opened once
  States,     \* descriptor_state objects
  Threads,
  Kinds,      \* of operations: a subset of read, write, except
  MaxOps,     \* operations started
  MaxAvail,   \* units a socket can hold, of each kind
  None

ASSUME ReactorAssumption ==
  /\ Kinds \subseteq {"read", "write", "except"}
  /\ MaxOps \in Nat /\ MaxAvail \in Nat
  /\ None \notin States \cup Threads \cup Sockets

VARIABLES
  avail, eof,            \* of a socket: units it can give or take, end of stream
  mask, listed,          \* its epoll entry, and whether epoll will report it
  phase, data,           \* of a socket: "new", "open", "closing", "closed"
  op_queue_, try_speculative_, registered_events_, mutex_,  \* of a descriptor_state
  events,                \* what epoll_wait returned, until it is dispatched
  scheduled, task_result_,   \* descriptors in the scheduler's queue
  work,                  \* outstanding_work_
  ops,                   \* started operations, in order
  loc,                   \* where each thread is
  ended                  \* sockets with a read that reported the end

kernelVars == <<avail, eof, mask, listed>>
socketVars == <<phase, data>>
stateVars  == <<op_queue_, try_speculative_, registered_events_, mutex_>>
queueVars  == <<events, scheduled, task_result_, work>>
reactorVars == <<kernelVars, socketVars, stateVars, queueVars, ops, loc, ended>>

Idle == [at |-> "idle"]
Free == States \ {data[s] : s \in Sockets}
Ready(s) == {k \in Kinds : avail[s][k] > 0 \/ (k = "read" /\ eof[s])}

Init ==
  /\ avail = [s \in Sockets |-> [k \in Kinds |-> 0]]
  /\ eof = [s \in Sockets |-> FALSE]
  /\ mask = [s \in Sockets |-> {}]
  /\ listed = [s \in Sockets |-> FALSE]
  /\ phase = [s \in Sockets |-> "new"]
  /\ data = [s \in Sockets |-> None]
  /\ op_queue_ = [d \in States |-> [k \in Kinds |-> << >>]]
  /\ try_speculative_ = [d \in States |-> [k \in Kinds |-> FALSE]]
  /\ registered_events_ = [d \in States |-> {}]
  /\ mutex_ = [d \in States |-> None]
  /\ events = {} /\ scheduled = {}
  /\ task_result_ = [d \in States |-> {}]
  /\ work = 0
  /\ ops = << >>
  /\ loc = [t \in Threads |-> Idle]
  /\ ended = {}

-----------------------------------------------------------------------------
(* The kernel.                                                              *)

\* Data arrives, or the peer makes room.
Arrive(s, k) ==
  /\ phase[s] \in {"open", "closing"} /\ avail[s][k] < MaxAvail
  /\ k = "read" => ~eof[s]
  /\ avail' = [avail EXCEPT ![s][k] = @ + 1]
  /\ listed' = [listed EXCEPT ![s] = @ \/ k \in mask[s]]
  /\ UNCHANGED <<eof, mask, socketVars, stateVars, queueVars, ops, loc, ended>>

PeerEnds(s) ==
  /\ phase[s] \in {"open", "closing"} /\ ~eof[s] /\ "read" \in Kinds
  /\ eof' = [eof EXCEPT ![s] = TRUE]
  /\ listed' = [listed EXCEPT ![s] = @ \/ "read" \in mask[s]]
  /\ UNCHANGED <<avail, mask, socketVars, stateVars, queueVars, ops, loc, ended>>

\* epoll_ctl with EPOLL_CTL_ADD or EPOLL_CTL_MOD reports what is ready now.
EpollCtl(s, m) ==
  /\ mask' = [mask EXCEPT ![s] = m]
  /\ listed' = [listed EXCEPT ![s] = @ \/ Ready(s) \cap m # {}]

\* perform() of an operation: a recv takes one unit; a send takes what it has
\* to send, or what there is room for.
Status(o) ==
  LET n == avail[o.socket][o.kind] IN
  IF n = 0 THEN IF o.kind = "read" /\ eof[o.socket] THEN "done_and_exhausted"
                ELSE "not_done"
  ELSE IF o.kind = "write" /\ n < o.size THEN "done_and_exhausted" ELSE "done"

Take(o) ==
  LET n == avail[o.socket][o.kind] IN
  avail' = [avail EXCEPT ![o.socket][o.kind] = IF o.size < n THEN n - o.size ELSE 0]

\* What is left of an operation that completed, and the rank of its data.
Rank(s, k) == Cardinality({i \in DOMAIN ops : /\ ops[i].socket = s /\ ops[i].kind = k
                                              /\ ops[i].rank # 0})
Completed(o, stage) ==
  [o EXCEPT !.stage = stage, !.rank = 1 + Rank(o.socket, o.kind)]

End(o) == ended' = IF o.kind = "read" /\ avail[o.socket]["read"] = 0
                   THEN ended \cup {o.socket} ELSE ended

-----------------------------------------------------------------------------
(* What the owner of a socket does.                                         *)

\* register_descriptor, with a descriptor_state from the pool.
Register(s, d) ==
  /\ phase[s] = "new" /\ d \in Free /\ mutex_[d] = None
  /\ phase' = [phase EXCEPT ![s] = "open"]
  /\ data' = [data EXCEPT ![s] = d]
  /\ try_speculative_' = [try_speculative_ EXCEPT ![d] = [k \in Kinds |-> TRUE]]
  /\ registered_events_' = [registered_events_ EXCEPT ![d] = Kinds \ {"write"}]
  /\ EpollCtl(s, Kinds \ {"write"})
  /\ UNCHANGED <<avail, eof, op_queue_, mutex_, queueVars, ops, loc, ended>>

\* The condition of start_op under which it may try the operation at once.
Direct(d, k, speculative) ==
  /\ speculative
  /\ k = "read" /\ "except" \in Kinds => op_queue_[d]["except"] = << >>

\* Seeded fault: an operation is tried although others wait before it.
TriesOutOfTurn(d, k, speculative) ==
  Direct(d, k, speculative) /\ try_speculative_[d][k]

Tries(d, k, speculative) ==
  /\ op_queue_[d][k] = << >>
  /\ Direct(d, k, speculative) /\ try_speculative_[d][k]

\* start_op, up to the first attempt: it completes the operation at once, or
\* goes on with the mutex held.
StartOp(t, s, k, size, speculative) ==
  LET d == data[s]
      o == [socket |-> s, kind |-> k, size |-> size, stage |-> "started", rank |-> 0]
      immediate == Tries(d, k, speculative) /\ Status(o) # "not_done"
  IN
  /\ loc[t] = Idle /\ phase[s] = "open" /\ mutex_[d] = None
  /\ Len(ops) < MaxOps
  /\ IF immediate
     THEN /\ ops' = Append(ops, Completed(o, "posted"))
          /\ Take(o) /\ End(o)
          /\ try_speculative_' = [try_speculative_ EXCEPT ![d][k] =
                                    Status(o) # "done_and_exhausted"]
          /\ work' = work + 1
          /\ UNCHANGED <<mutex_, loc>>
     ELSE /\ ops' = Append(ops, o)
          /\ mutex_' = [mutex_ EXCEPT ![d] = t]
          /\ loc' = [loc EXCEPT ![t] =
                       [at |-> "start", op |-> Len(ops) + 1, direct |-> Direct(d, k, speculative)]]
          /\ UNCHANGED <<avail, ended, try_speculative_, work>>
  /\ UNCHANGED <<eof, mask, listed, socketVars, op_queue_, registered_events_,
                 events, scheduled, task_result_>>

Push(i) ==
  LET o == ops[i]  d == data[o.socket] IN
  /\ op_queue_' = [op_queue_ EXCEPT ![d][o.kind] = Append(@, i)]
  /\ ops' = [ops EXCEPT ![i].stage = "queued"]
  /\ work' = work + 1
  /\ mutex_' = [mutex_ EXCEPT ![d] = None]

\* Seeded fault: nobody asks epoll for EPOLLOUT.
EnqueueUnasked(t) ==
  /\ loc[t].at = "start"
  /\ Push(loc[t].op)
  /\ loc' = [loc EXCEPT ![t] = Idle]
  /\ UNCHANGED <<kernelVars, registered_events_, socketVars, try_speculative_,
                 events, scheduled, task_result_, ended>>

\* The rest of start_op.
Enqueue(t) ==
  LET i == loc[t].op  s == ops[i].socket  d == data[s]
      wanted == registered_events_[d] \cup (IF ops[i].kind = "write" THEN {"write"} ELSE {})
  IN
  /\ loc[t].at = "start"
  /\ IF /\ op_queue_[d][ops[i].kind] = << >>
        /\ ~loc[t].direct \/ wanted # registered_events_[d]
     THEN /\ EpollCtl(s, wanted)
          /\ registered_events_' = [registered_events_ EXCEPT ![d] = wanted]
     ELSE UNCHANGED <<mask, listed, registered_events_>>
  /\ Push(i)
  /\ loc' = [loc EXCEPT ![t] = Idle]
  /\ UNCHANGED <<avail, eof, socketVars, try_speculative_, events, scheduled,
                 task_result_, ended>>

Queued(d) == UNION {Range(op_queue_[d][k]) : k \in Kinds}

\* Every queued operation goes to the scheduler with operation_aborted.
Abort(d) ==
  /\ mutex_[d] = None
  /\ ops' = [i \in DOMAIN ops |-> IF i \in Queued(d) THEN [ops[i] EXCEPT !.stage = "posted"]
                                                     ELSE ops[i]]
  /\ op_queue_' = [op_queue_ EXCEPT ![d] = [k \in Kinds |-> << >>]]

\* cancel_ops.
CancelOps(s) ==
  /\ phase[s] = "open" /\ Queued(data[s]) # {}
  /\ Abort(data[s])
  /\ UNCHANGED <<kernelVars, socketVars, try_speculative_, registered_events_,
                 mutex_, queueVars, loc, ended>>

\* Seeded fault: the operations stay in a descriptor_state that another socket
\* will get.
DeregisterOnly(s) ==
  /\ phase[s] = "open" /\ mutex_[data[s]] = None
  /\ phase' = [phase EXCEPT ![s] = "closing"]
  /\ UNCHANGED <<kernelVars, data, stateVars, queueVars, ops, loc, ended>>

\* deregister_descriptor, of a socket that will be closed.
DeregisterDescriptor(s) ==
  /\ phase[s] = "open"
  /\ Abort(data[s])
  /\ phase' = [phase EXCEPT ![s] = "closing"]
  /\ UNCHANGED <<kernelVars, data, try_speculative_, registered_events_,
                 mutex_, queueVars, loc, ended>>

\* close(), which takes the socket out of epoll, and cleanup_descriptor_data.
CleanupDescriptorData(s) ==
  /\ phase[s] = "closing"
  /\ phase' = [phase EXCEPT ![s] = "closed"]
  /\ data' = [data EXCEPT ![s] = None]
  /\ mask' = [mask EXCEPT ![s] = {}]
  /\ listed' = [listed EXCEPT ![s] = FALSE]
  /\ avail' = [avail EXCEPT ![s] = [k \in Kinds |-> 0]]
  /\ eof' = [eof EXCEPT ![s] = FALSE]
  /\ ended' = ended \ {s}
  /\ UNCHANGED <<stateVars, queueVars, ops, loc>>

-----------------------------------------------------------------------------
(* What the scheduler's threads do.                                         *)

\* epoll_wait, when everything returned before was taken from the queue.
EpollWait(t) ==
  LET reported == {s \in Sockets : listed[s] /\ Ready(s) \cap mask[s] # {}} IN
  /\ loc[t] = Idle /\ \A u \in Threads : loc[u].at # "dispatch"
  /\ scheduled = {} /\ reported # {}
  /\ events' = {<<data[s], Ready(s) \cap mask[s]>> : s \in reported}
  /\ listed' = [s \in Sockets |-> FALSE]
  /\ loc' = [loc EXCEPT ![t] = [at |-> "dispatch"]]
  /\ UNCHANGED <<avail, eof, mask, socketVars, stateVars, scheduled,
                 task_result_, work, ops, ended>>

\* The events go to the scheduler, which queues the descriptors.  No
\* descriptor_state is there twice: it has one socket in epoll at a time.
Dispatch(t) ==
  /\ loc[t].at = "dispatch"
  /\ scheduled' = {e[1] : e \in events}
  /\ task_result_' = [d \in States |->
       UNION ({e[2] : e \in {e \in events : e[1] = d}} \cup
              IF d \in scheduled' THEN {} ELSE {task_result_[d]})]
  /\ events' = {}
  /\ loc' = [loc EXCEPT ![t] = Idle]
  /\ UNCHANGED <<kernelVars, socketVars, stateVars, work, ops, ended>>

\* do_run_one takes a descriptor and reads its task_result_ under its own mutex.
Dequeue(t, d) ==
  /\ loc[t] = Idle /\ d \in scheduled
  /\ scheduled' = scheduled \ {d}
  /\ loc' = [loc EXCEPT ![t] = [at |-> "lock", state |-> d,
                                kinds |-> task_result_[d], done |-> << >>]]
  /\ UNCHANGED <<kernelVars, socketVars, stateVars, events, task_result_, work,
                 ops, ended>>

Lock(t) ==
  /\ loc[t].at = "lock" /\ mutex_[loc[t].state] = None
  /\ mutex_' = [mutex_ EXCEPT ![loc[t].state] = t]
  /\ loc' = [loc EXCEPT ![t].at = "perform"]
  /\ UNCHANGED <<kernelVars, socketVars, op_queue_, try_speculative_,
                 registered_events_, queueVars, ops, ended>>

\* The kind that perform_io comes to first.
First(kinds) == IF "except" \in kinds THEN "except"
                ELSE IF "write" \in kinds THEN "write" ELSE "read"

\* perform_io: one attempt of the loop for one kind.
Perform(t) ==
  LET d == loc[t].state  k == First(loc[t].kinds)  q == op_queue_[d][k]
      o == ops[Head(q)]
  IN
  /\ loc[t].at = "perform" /\ loc[t].kinds # {}
  /\ IF q = << >> \/ Status(o) = "not_done"
     THEN /\ try_speculative_' = [try_speculative_ EXCEPT ![d][k] = TRUE]
          /\ loc' = [loc EXCEPT ![t].kinds = @ \ {k}]
          /\ UNCHANGED <<avail, ended, op_queue_, ops>>
     ELSE /\ try_speculative_' = [try_speculative_ EXCEPT ![d][k] =
                                    Status(o) # "done_and_exhausted"]
          /\ Take(o) /\ End(o)
          /\ op_queue_' = [op_queue_ EXCEPT ![d][k] = Tail(@)]
          /\ ops' = [ops EXCEPT ![Head(q)] = Completed(@, "popped")]
          /\ loc' = [loc EXCEPT ![t].kinds = IF Status(o) = "done" THEN @ ELSE @ \ {k},
                                ![t].done = Append(@, Head(q))]
  /\ UNCHANGED <<eof, mask, listed, socketVars, registered_events_, mutex_, queueVars>>

\* Seeded fault: no compensating_work_started() when nothing completed.
LeaveUncompensated(t) ==
  LET d == loc[t].state  done == loc[t].done IN
  /\ loc[t].at = "perform" /\ loc[t].kinds = {}
  /\ mutex_' = [mutex_ EXCEPT ![d] = None]
  /\ ops' = [i \in DOMAIN ops |->
       IF i \notin Range(done) THEN ops[i]
       ELSE [ops[i] EXCEPT !.stage = IF i = done[1] THEN "done" ELSE "posted"]]
  /\ work' = work - 1
  /\ loc' = [loc EXCEPT ![t] = Idle]
  /\ UNCHANGED <<kernelVars, socketVars, op_queue_, try_speculative_,
                 registered_events_, events, scheduled, task_result_, ended>>

\* The end of perform_io and of its cleanup: the first operation is completed
\* here, for the work_finished() that the scheduler calls; the others are
\* posted; compensating_work_started() when there is none.
Leave(t) ==
  LET d == loc[t].state  done == loc[t].done IN
  /\ loc[t].at = "perform" /\ loc[t].kinds = {}
  /\ mutex_' = [mutex_ EXCEPT ![d] = None]
  /\ ops' = [i \in DOMAIN ops |->
       IF i \notin Range(done) THEN ops[i]
       ELSE [ops[i] EXCEPT !.stage = IF i = done[1] THEN "done" ELSE "posted"]]
  /\ work' = IF done = << >> THEN work ELSE work - 1
  /\ loc' = [loc EXCEPT ![t] = Idle]
  /\ UNCHANGED <<kernelVars, socketVars, op_queue_, try_speculative_,
                 registered_events_, events, scheduled, task_result_, ended>>

\* The scheduler runs a posted operation.
RunPosted(i) ==
  /\ ops[i].stage = "posted"
  /\ ops' = [ops EXCEPT ![i].stage = "done"]
  /\ work' = work - 1
  /\ UNCHANGED <<kernelVars, socketVars, stateVars, events, scheduled,
                 task_result_, loc, ended>>

-----------------------------------------------------------------------------
System(t) ==
  \/ Enqueue(t) \/ EpollWait(t) \/ Dispatch(t) \/ Lock(t) \/ Perform(t) \/ Leave(t)
  \/ \E d \in States : Dequeue(t, d)

Next ==
  \/ \E s \in Sockets :
       \/ PeerEnds(s) \/ CancelOps(s) \/ DeregisterDescriptor(s) \/ CleanupDescriptorData(s)
       \/ \E k \in Kinds : Arrive(s, k)
       \/ \E d \in States : Register(s, d)
       \/ \E t \in Threads, k \in Kinds, size \in 1..2, speculative \in BOOLEAN :
            (k # "write" => size = 1) /\ StartOp(t, s, k, size, speculative)
  \/ \E t \in Threads : System(t)
  \/ \E i \in DOMAIN ops : RunPosted(i)

Spec == Init /\ [][Next]_reactorVars

-----------------------------------------------------------------------------
(* Properties.                                                              *)

Op == [socket : Sockets, kind : Kinds, size : 1..2, rank : Nat,
       stage : {"started", "queued", "popped", "posted", "done"}]

Place == {Idle} \cup [at : {"dispatch"}]
         \cup [at : {"start"}, op : Nat, direct : BOOLEAN]
         \cup [at : {"lock", "perform"}, state : States, kinds : SUBSET Kinds,
               done : Seq(Nat)]

\* Every variable has its type.
TypeOK ==
  /\ ops \in Seq(Op) /\ Len(ops) <= MaxOps
  /\ loc \in [Threads -> Place]
  /\ avail \in [Sockets -> [Kinds -> 0..MaxAvail]]
  /\ {eof, listed} \subseteq [Sockets -> BOOLEAN]
  /\ mask \in [Sockets -> SUBSET Kinds]
  /\ phase \in [Sockets -> {"new", "open", "closing", "closed"}]
  /\ data \in [Sockets -> States \cup {None}]
  /\ op_queue_ \in [States -> [Kinds -> Seq(DOMAIN ops)]]
  /\ try_speculative_ \in [States -> [Kinds -> BOOLEAN]]
  /\ {registered_events_, task_result_} \subseteq [States -> SUBSET Kinds]
  /\ mutex_ \in [States -> Threads \cup {None}]
  /\ events \subseteq States \X SUBSET Kinds
  /\ scheduled \subseteq States
  /\ work \in Nat
  /\ ended \subseteq Sockets

\* Somebody will try the operations of kind k on socket s.
Watched(s, k) ==
  \/ listed[s] /\ k \in mask[s]
  \/ \E e \in events : e[1] = data[s] /\ k \in e[2]
  \/ data[s] \in scheduled /\ k \in task_result_[data[s]]
  \/ \E t \in Threads : /\ loc[t].at \in {"lock", "perform"} /\ loc[t].state = data[s]
                        /\ k \in loc[t].kinds

\* No operation is forgotten: one that is queued while its socket is ready will
\* be tried (start_op, perform_io).  A read that follows one which reported the
\* end is the exception: try_speculative_ is off and epoll is silent.  The
\* service closes the connection then.
NoOpForgotten ==
  \A s \in Sockets, k \in Kinds :
    phase[s] = "open" /\ op_queue_[data[s]][k] # << >> /\ k \in Ready(s) =>
      Watched(s, k) \/ (k = "read" /\ s \in ended)

\* Operations of one kind take their data in the order in which they were
\* started, speculative ones included.
DataInOrder ==
  \A i, j \in DOMAIN ops :
    /\ i < j /\ ops[i].socket = ops[j].socket /\ ops[i].kind = ops[j].kind
    /\ ops[j].rank # 0
    => ops[i].rank \in 1..(ops[j].rank - 1) \/ (ops[i].rank = 0 /\ ops[i].stage \in {"posted", "done"})

\* The scheduler's count is the number of operations that are not over: it
\* stops neither with operations left nor never, although the descriptors that
\* it runs for the reactor are not counted (epoll_reactor.ipp:573-575,746-750).
WorkBalanced ==
  work = Cardinality({i \in DOMAIN ops : ops[i].stage \in {"queued", "popped", "posted"}})

\* A descriptor_state has only operations of the socket that it serves, also
\* when an event of an earlier socket reaches it.
OwnOperations ==
  \A d \in States : \A i \in Queued(d) :
    ops[i].stage = "queued" /\ data[ops[i].socket] = d

=============================================================================
