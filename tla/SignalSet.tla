----------------------------- MODULE SignalSet -----------------------------
(***************************************************************************)
(* Signals in asio (detail/impl/signal_set_service.ipp), which the service *)
(* uses to shut down.  The handler that the kernel calls writes the number *)
(* of the signal to a pipe that all signal_set_services of the process     *)
(* share.  The reactor of each service watches the pipe, edge-triggered,   *)
(* and whichever reads a number delivers it to the sets of all services.   *)
(*                                                                         *)
(* The calls of a signal_set hold the global mutex_ throughout and are one *)
(* step each; add_service and remove_service give it up in between.  All   *)
(* signals are added without flags, sigaction and pipe do not fail, every  *)
(* io_context is safe for threads, and nothing forks.                      *)
(***************************************************************************)
EXTENDS Integers, Sequences, FiniteSets, Functions

CONSTANTS
  Services,    \* signal_set_service objects, one per io_context
  Sets,        \* signal_set objects
  ServiceOf,   \* the service of each set
  Signals,     \* signal numbers
  Wanted,      \* those that the program adds to each set
  PipeSize,    \* signal numbers that the pipe can hold
  MaxRaised,   \* signals that occur
  MaxWaits,    \* calls of async_wait, for each set
  MaxPipes,    \* pipes opened
  Aborted

ASSUME SignalSetAssumption ==
  /\ Signals \subseteq Nat \ {0}
  /\ ServiceOf \in [Sets -> Services]
  /\ {PipeSize, MaxRaised, MaxWaits, MaxPipes} \subseteq Nat
  /\ Aborted \notin Signals
  /\ IsFiniteSet(Sets) /\ IsFiniteSet(Services)

ASSUME WantedAssumption == Wanted \in [Sets -> SUBSET Signals]

VARIABLES
  service_list_,
  pipe, opened,   \* the pipe that is open while there is a service, and how many so far
  registration_count_, disposition,   \* of each signal
  stage,          \* of each service: "new", "adding", "added", "removing", "removed"
  watched,        \* the pipe that its reactor watches, 0 for none
  edge,           \* whether epoll has an event for it
  reader, number, \* its pipe_read_op: "idle" or "reading", and what it read or 0
  undelivered_,   \* of each set: a function on the signals registered
  waiting,        \* operations in its queue_
  posted,         \* what the handlers get, in order
  raised, waits   \* how often so far

pipeVars == <<pipe, opened>>
kernelVars == <<registration_count_, disposition>>
serviceVars == <<service_list_, stage, watched, edge, reader, number>>
setVars == <<undelivered_, waiting, posted, waits>>
signalVars == <<pipeVars, kernelVars, serviceVars, setVars, raised>>

Registered(s) == DOMAIN undelivered_[s]

Init ==
  /\ service_list_ = {} /\ pipe = << >> /\ opened = 0
  /\ registration_count_ = [n \in Signals |-> 0]
  /\ disposition = [n \in Signals |-> "default"]
  /\ stage = [v \in Services |-> "new"]
  /\ watched = [v \in Services |-> 0]
  /\ edge = [v \in Services |-> FALSE]
  /\ reader = [v \in Services |-> "idle"]
  /\ number = [v \in Services |-> 0]
  /\ undelivered_ = [s \in Sets |-> << >>]
  /\ waiting = [s \in Sets |-> 0]
  /\ posted = [s \in Sets |-> << >>]
  /\ raised = 0
  /\ waits = [s \in Sets |-> 0]

-----------------------------------------------------------------------------
(* The kernel, and asio_signal_handler.                                    *)

\* A signal that asio handles occurs: its number goes into the pipe if there
\* is room, and the result of write is ignored.
Raise(n) ==
  /\ raised < MaxRaised /\ disposition[n] = "asio"
  /\ raised' = raised + 1
  /\ IF service_list_ # {} /\ Len(pipe) < PipeSize
     THEN /\ pipe' = Append(pipe, n)
          /\ edge' = [v \in Services |-> edge[v] \/ (stage[v] = "added" /\ watched[v] = opened)]
     ELSE UNCHANGED <<pipe, edge>>
  /\ UNCHANGED <<opened, kernelVars, service_list_, stage, watched, reader, number, setVars>>

-----------------------------------------------------------------------------
(* pipe_read_op.                                                           *)

EpollEvent(v) ==
  /\ edge[v] /\ reader[v] = "idle"
  /\ edge' = [edge EXCEPT ![v] = FALSE]
  /\ reader' = [reader EXCEPT ![v] = "reading"]
  /\ UNCHANGED <<pipeVars, kernelVars, service_list_, stage, watched, number, setVars, raised>>

\* Seeded fault: one number for each event.
ReadPipeOnce(v) ==
  /\ reader[v] = "reading" /\ number[v] = 0
  /\ reader' = [reader EXCEPT ![v] = "idle"]
  /\ IF pipe = << >> THEN UNCHANGED <<pipe, number>>
     ELSE number' = [number EXCEPT ![v] = Head(pipe)] /\ pipe' = Tail(pipe)
  /\ UNCHANGED <<opened, kernelVars, service_list_, stage, watched, edge, setVars, raised>>

\* One read of the loop, which ends when the pipe is empty.
ReadPipe(v) ==
  /\ reader[v] = "reading" /\ number[v] = 0
  /\ IF pipe = << >>
     THEN reader' = [reader EXCEPT ![v] = "idle"] /\ UNCHANGED <<pipe, number>>
     ELSE /\ number' = [number EXCEPT ![v] = Head(pipe)]
          /\ pipe' = Tail(pipe)
          /\ UNCHANGED reader
  /\ UNCHANGED <<opened, kernelVars, service_list_, stage, watched, edge, setVars, raised>>

Hears(s, n) == ServiceOf[s] \in service_list_ /\ n \in Registered(s)

\* Seeded fault: the signal is also counted where an operation waits for it.
DeliverAndCount(v) ==
  LET n == number[v] IN
  /\ n # 0
  /\ undelivered_' = [s \in Sets |->
       IF Hears(s, n) THEN [undelivered_[s] EXCEPT ![n] = @ + 1] ELSE undelivered_[s]]
  /\ posted' = [s \in Sets |->
       IF Hears(s, n) THEN posted[s] \o [i \in 1..waiting[s] |-> n] ELSE posted[s]]
  /\ waiting' = [s \in Sets |-> IF Hears(s, n) THEN 0 ELSE waiting[s]]
  /\ number' = [number EXCEPT ![v] = 0]
  /\ UNCHANGED <<pipeVars, kernelVars, service_list_, stage, watched, edge, reader, waits, raised>>

\* deliver_signal: every operation that waits in a set gets the signal; where
\* none does, it is counted.
Deliver(v) ==
  LET n == number[v] IN
  /\ n # 0
  /\ undelivered_' = [s \in Sets |->
       IF Hears(s, n) /\ waiting[s] = 0
       THEN [undelivered_[s] EXCEPT ![n] = @ + 1] ELSE undelivered_[s]]
  /\ posted' = [s \in Sets |->
       IF Hears(s, n) THEN posted[s] \o [i \in 1..waiting[s] |-> n] ELSE posted[s]]
  /\ waiting' = [s \in Sets |-> IF Hears(s, n) THEN 0 ELSE waiting[s]]
  /\ number' = [number EXCEPT ![v] = 0]
  /\ UNCHANGED <<pipeVars, kernelVars, service_list_, stage, watched, edge, reader, waits, raised>>

-----------------------------------------------------------------------------
(* The calls of a signal_set.                                              *)

Usable(s) == stage[ServiceOf[s]] = "added"

\* destroy, which clears and cancels, also when the set belongs to a handler that
\* the shut-down of the io_context destroys.
MayGo(s) == stage[ServiceOf[s]] \in {"added", "removed"}

\* add.
Add(s, n) ==
  /\ Usable(s) /\ n \in Wanted[s] \ Registered(s)
  /\ disposition' = [disposition EXCEPT ![n] =
                       IF registration_count_[n] = 0 THEN "asio" ELSE @]
  /\ undelivered_' = [undelivered_ EXCEPT ![s] =
                        [m \in Registered(s) \cup {n} |-> IF m = n THEN 0 ELSE @[m]]]
  /\ registration_count_' = [registration_count_ EXCEPT ![n] = @ + 1]
  /\ UNCHANGED <<pipeVars, serviceVars, waiting, posted, waits, raised>>

\* Seeded fault: the default is restored although another set has the signal.
RemoveForAll(s, n) ==
  /\ Usable(s) /\ n \in Registered(s)
  /\ disposition' = [disposition EXCEPT ![n] = "default"]
  /\ undelivered_' = [undelivered_ EXCEPT ![s] = Restrict(@, Registered(s) \ {n})]
  /\ registration_count_' = [registration_count_ EXCEPT ![n] = @ - 1]
  /\ UNCHANGED <<pipeVars, serviceVars, waiting, posted, waits, raised>>

\* remove, and clear for each signal of the set.
Remove(s, n) ==
  /\ Usable(s) /\ n \in Registered(s)
  /\ disposition' = [disposition EXCEPT ![n] =
                       IF registration_count_[n] = 1 THEN "default" ELSE @]
  /\ undelivered_' = [undelivered_ EXCEPT ![s] = Restrict(@, Registered(s) \ {n})]
  /\ registration_count_' = [registration_count_ EXCEPT ![n] = @ - 1]
  /\ UNCHANGED <<pipeVars, serviceVars, waiting, posted, waits, raised>>

Clear(s) ==
  /\ MayGo(s) /\ Registered(s) # {}
  /\ disposition' = [n \in Signals |->
       IF n \in Registered(s) /\ registration_count_[n] = 1 THEN "default" ELSE disposition[n]]
  /\ registration_count_' = [n \in Signals |->
       registration_count_[n] - IF n \in Registered(s) THEN 1 ELSE 0]
  /\ undelivered_' = [undelivered_ EXCEPT ![s] = << >>]
  /\ UNCHANGED <<pipeVars, serviceVars, waiting, posted, waits, raised>>

\* cancel.
Cancel(s) ==
  /\ MayGo(s) /\ waiting[s] > 0
  /\ posted' = [posted EXCEPT ![s] = @ \o [i \in 1..waiting[s] |-> Aborted]]
  /\ waiting' = [waiting EXCEPT ![s] = 0]
  /\ UNCHANGED <<pipeVars, kernelVars, serviceVars, undelivered_, waits, raised>>

Queued(s) == {n \in Registered(s) : undelivered_[s][n] > 0}

\* Seeded fault: an operation waits for the next signal.
StartWaitForNext(s) ==
  /\ Usable(s) /\ waits[s] < MaxWaits
  /\ waits' = [waits EXCEPT ![s] = @ + 1]
  /\ waiting' = [waiting EXCEPT ![s] = @ + 1]
  /\ UNCHANGED <<pipeVars, kernelVars, serviceVars, undelivered_, posted, raised>>

\* start_wait_op: the lowest signal that was counted is taken, or the
\* operation waits.
StartWait(s) ==
  /\ Usable(s) /\ waits[s] < MaxWaits
  /\ waits' = [waits EXCEPT ![s] = @ + 1]
  /\ IF Queued(s) = {}
     THEN /\ waiting' = [waiting EXCEPT ![s] = @ + 1]
          /\ UNCHANGED <<undelivered_, posted>>
     ELSE LET n == CHOOSE n \in Queued(s) : \A m \in Queued(s) : n <= m IN
          /\ undelivered_' = [undelivered_ EXCEPT ![s][n] = @ - 1]
          /\ posted' = [posted EXCEPT ![s] = Append(@, n)]
          /\ UNCHANGED waiting
  /\ UNCHANGED <<pipeVars, kernelVars, serviceVars, raised>>

-----------------------------------------------------------------------------
(* Services come and go.                                                   *)

\* add_service, up to the end of the critical section: the first service opens
\* the pipe.
AddService(v) ==
  /\ stage[v] = "new" /\ (service_list_ = {} => opened < MaxPipes)
  /\ IF service_list_ = {} THEN opened' = opened + 1 /\ pipe' = << >>
                           ELSE UNCHANGED pipeVars
  /\ service_list_' = service_list_ \cup {v}
  /\ stage' = [stage EXCEPT ![v] = "adding"]
  /\ watched' = [watched EXCEPT ![v] = opened']
  /\ UNCHANGED <<kernelVars, edge, reader, number, setVars, raised>>

\* register_internal_descriptor, of the descriptor read before.
WatchPipe(v) ==
  /\ stage[v] = "adding"
  /\ stage' = [stage EXCEPT ![v] = "added"]
  /\ edge' = [edge EXCEPT ![v] = pipe # << >>]
  /\ UNCHANGED <<pipeVars, service_list_, kernelVars, watched, reader, number, setVars, raised>>

\* remove_service, up to its lock, when the io_context shuts down: nobody runs
\* it, but its sets may still be registered and have operations that wait.
UnwatchPipe(v) ==
  /\ stage[v] = "added" /\ reader[v] = "idle"
  /\ stage' = [stage EXCEPT ![v] = "removing"]
  /\ watched' = [watched EXCEPT ![v] = 0]
  /\ edge' = [edge EXCEPT ![v] = FALSE]
  /\ UNCHANGED <<pipeVars, kernelVars, service_list_, reader, number, setVars, raised>>

\* shutdown, after remove_service: the operations of the registrations.
Abandon(v) ==
  waiting' = [s \in Sets |->
    IF ServiceOf[s] = v /\ Registered(s) # {} THEN 0 ELSE waiting[s]]

\* Seeded fault: any one closes the pipe.
RemoveServiceAndPipe(v) ==
  /\ stage[v] = "removing"
  /\ service_list_' = service_list_ \ {v}
  /\ stage' = [stage EXCEPT ![v] = "removed"]
  /\ pipe' = << >>
  /\ opened' = opened + 1
  /\ Abandon(v)
  /\ UNCHANGED <<kernelVars, watched, edge, reader, number, undelivered_, posted, waits, raised>>

\* The last one closes the pipe.  What waits in a set that has a signal is then
\* abandoned without a call of its handler.  The lock is not held any more, but
\* only a service of the list is looked at by others.
RemoveService(v) ==
  /\ stage[v] = "removing"
  /\ service_list_' = service_list_ \ {v}
  /\ stage' = [stage EXCEPT ![v] = "removed"]
  /\ pipe' = IF service_list_' = {} THEN << >> ELSE pipe
  /\ Abandon(v)
  /\ UNCHANGED <<opened, kernelVars, watched, edge, reader, number, undelivered_, posted, waits,
                 raised>>

-----------------------------------------------------------------------------
System(v) == EpollEvent(v) \/ ReadPipe(v) \/ Deliver(v)

Next ==
  \/ \E n \in Signals :
       Raise(n) \/ \E s \in Sets : Add(s, n) \/ Remove(s, n)
  \/ \E s \in Sets : Clear(s) \/ Cancel(s) \/ StartWait(s)
  \/ \E v \in Services :
       System(v) \/ AddService(v) \/ WatchPipe(v) \/ UnwatchPipe(v) \/ RemoveService(v)

Spec == Init /\ [][Next]_signalVars

\* What the thread of an io_context has begun or been told: at most one of the
\* three can go on at a time.
Work(v) == System(v) \/ WatchPipe(v) \/ RemoveService(v)

\* The io_contexts run, and add_service and shutdown are finished.
FairSpec == Spec /\ \A v \in Services : WF_signalVars(Work(v))

-----------------------------------------------------------------------------
(* Properties.                                                             *)

\* Every variable has its type.
TypeOK ==
  /\ service_list_ \subseteq Services
  /\ pipe \in Seq(Signals) /\ Len(pipe) <= PipeSize
  /\ opened \in 0..MaxPipes
  /\ registration_count_ \in [Signals -> 0..Cardinality(Sets)]
  /\ disposition \in [Signals -> {"default", "asio"}]
  /\ stage \in [Services -> {"new", "adding", "added", "removing", "removed"}]
  /\ watched \in [Services -> 0..MaxPipes]
  /\ edge \in [Services -> BOOLEAN]
  /\ reader \in [Services -> {"idle", "reading"}]
  /\ number \in [Services -> Signals \cup {0}]
  /\ undelivered_ = [s \in Sets |-> undelivered_[s]]
  /\ \A s \in Sets : Registered(s) \subseteq Signals
                     /\ undelivered_[s] \in [Registered(s) -> Nat]
  /\ waiting \in [Sets -> Nat]
  /\ posted \in [Sets -> Seq(Signals \cup {Aborted})]

\* A signal has asio's handler exactly while a set is registered for it, so that
\* no signal that a set waits for kills the process, and none is swallowed when
\* no set does (add, remove, clear: registration_count_).
DispositionMatches ==
  \A n \in Signals :
    (disposition[n] = "asio") <=> (\E s \in Sets : n \in Registered(s))

\* No operation waits in a set that has a signal to give (deliver_signal and
\* start_wait_op), also when a set has several signals.
NoWaiterWhileQueued == \A s \in Sets : waiting[s] = 0 \/ Queued(s) = {}

\* How often a number is in the pipe or with a pipe_read_op, and how often the
\* handlers of a set have got it.
Places(q, n) == {i \in DOMAIN q : q[i] = n}
InFlight(n) == Cardinality(Places(pipe, n)) + Cardinality(Places(number, n))
Got(s, n) == Cardinality(Places(posted[s], n))

\* No notification is lost, given twice, or both given and counted.  A number
\* that leaves the pipe and its readers goes, in each set that has the signal, to
\* all operations that wait, or is counted once where none does; and no other
\* step gives a handler a signal but one that was counted, and that is then
\* counted no more (deliver_signal, start_wait_op).
NotificationsKept ==
  [][\A s \in Sets : \A n \in Registered(s) \cap Registered(s)' :
       LET left == InFlight(n) - InFlight(n)'
           given == Got(s, n)' - Got(s, n)
           counted == undelivered_'[s][n] - undelivered_[s][n] IN
       IF left > 0 /\ ServiceOf[s] \in service_list_ \cap service_list_'
       THEN IF waiting[s] > 0 THEN given = waiting[s] /\ counted = 0
                              ELSE given = 0 /\ counted = left
       ELSE given + counted = 0]_signalVars

\* What is in the pipe will be read: epoll has an event for some service or a
\* pipe_read_op is at work, whichever service took the event before, and
\* whichever has come or gone since.
PipeIsWatched ==
  pipe # << >> =>
    \/ \E v \in Services : edge[v] \/ reader[v] # "idle" \/ stage[v] = "adding"
    \/ \A v \in service_list_ : stage[v] = "removing"

\* Every service watches the pipe that the signal handler writes to, although
\* the last service to go closes it and add_service has read the descriptor
\* before it registers it.
WatchesOpenPipe ==
  \A v \in Services : stage[v] \in {"adding", "added"} => watched[v] = opened /\ v \in service_list_

\* A signal in the pipe reaches a set that is registered for it and waits, if the
\* set is not cancelled or its io_context shut down before.
SignalArrives ==
  \A s \in Sets : \A n \in Wanted[s] :
    (\E i \in DOMAIN pipe : pipe[i] = n) /\ n \in Registered(s) /\ waiting[s] > 0
      ~> (waiting[s] = 0 \/ n \notin Registered(s))

=============================================================================
