----------------------------- MODULE Scheduler -----------------------------
(***************************************************************************)
(* The scheduler of asio (detail/impl/scheduler.ipp) with its event        *)
(* (detail/posix_event.hpp): the queue of operations that io_context::run  *)
(* takes from, by any number of threads.  One element of the queue stands  *)
(* for the reactor: the thread that takes it waits in epoll, and puts it   *)
(* back behind the operations that became ready.  The service runs one     *)
(* thread; the constructor of its io_context leaves the number open, and   *)
(* so does this module.                                                    *)
(*                                                                         *)
(* A critical section of mutex_ is one step, unless it spans several, and  *)
(* then holder keeps the mutex.  A thread that unlocks and signals later   *)
(* does so in a step of its own.                                           *)
(***************************************************************************)
EXTENDS Integers, Sequences, FiniteSets, Functions

CONSTANTS
  Threads,    \* threads that call run()
  Others,     \* threads that only post
  Ops,        \* operations, each started once
  Started,    \* those that may wait for the reactor before run() is called
  Task,       \* task_operation_
  Nobody

ASSUME SchedulerAssumption ==
  /\ Started \subseteq Ops
  /\ Task \notin Ops
  /\ Nobody \notin Threads \cup Others \cup Ops
  /\ Threads \cap Others = {}
  /\ IsFiniteSet(Threads) /\ IsFiniteSet(Others) /\ IsFiniteSet(Ops)

VARIABLES
  op_queue_, outstanding_work_, stopped_, task_, task_interrupted_,
  holder,        \* who keeps mutex_ from one step to the next
  signalled,     \* bit 0 of the event's state_
  waits,         \* who is between += 2 and -= 2 of state_: "no", "asleep",
                 \* or "woken", and needs mutex_ again
  pc, after,     \* where each thread is, and where it goes after a signal
  current,       \* the operation that a thread works on
  posting,       \* the one that it posts
  private_op_queue, private_outstanding_work,
  blocks,        \* whether the thread in epoll was told to block
  interrupted,   \* the interrupter has an event for epoll_wait
  stage,         \* of each operation: "new", "waits" (in the reactor), "posted"
                 \* (by post, on its way), "running", "done"
  ready          \* operations in the reactor with an event for epoll_wait

queueVars  == <<op_queue_, outstanding_work_, stopped_, task_>>
wakeVars   == <<task_interrupted_, signalled, waits, interrupted>>
threadVars == <<pc, after, current, posting, private_op_queue,
                private_outstanding_work, blocks>>
opVars     == <<stage, ready>>
schedulerVars == <<queueVars, wakeVars, holder, threadVars, opVars>>

Actors == Threads \cup Others
Goto(t, l) == pc' = [pc EXCEPT ![t] = l]

\* A step of t that takes mutex_ and gives it back, or that has it already.
Locks(t) == holder \in {Nobody, t}

Init ==
  /\ task_ \in BOOLEAN
  /\ op_queue_ = IF task_ THEN <<Task>> ELSE << >>
  /\ stage \in [Ops -> {"new", "waits"}]
  /\ \A o \in Ops : stage[o] = "waits" => o \in Started /\ task_
  /\ outstanding_work_ = Cardinality({o \in Ops : stage[o] = "waits"})
  /\ stopped_ = FALSE
  /\ task_interrupted_ = TRUE
  /\ holder = Nobody
  /\ signalled = task_       \* init_task() wakes a thread
  /\ waits = [t \in Actors |-> "no"]
  /\ pc = [t \in Actors |-> "out"]
  /\ after = [t \in Actors |-> "out"]
  /\ current = [t \in Actors |-> Nobody]
  /\ posting = [t \in Actors |-> Nobody]
  /\ private_op_queue = [t \in Actors |-> << >>]
  /\ private_outstanding_work = [t \in Actors |-> 0]
  /\ blocks = [t \in Actors |-> FALSE]
  /\ interrupted = TRUE      \* by the constructor of epoll_reactor
  /\ ready = {}

-----------------------------------------------------------------------------
(* Waking.                                                                 *)

Waiting(t) == {u \in Actors \ {t} : waits[u] # "no"}
Asleep == {t \in Actors : waits[t] = "asleep"}

Interrupt ==
  /\ interrupted' = (interrupted \/ (task_ /\ ~task_interrupted_))
  /\ task_interrupted_' = (task_interrupted_ \/ task_)

\* Seeded fault: the thread in epoll is left there.
WakeWithoutTask(t, l) ==
  /\ signalled' = TRUE
  /\ Goto(t, IF Waiting(t) # {} THEN "signal" ELSE l)
  /\ after' = [after EXCEPT ![t] = l]
  /\ UNCHANGED <<task_interrupted_, interrupted>>

\* wake_one_thread_and_unlock: a waiter is signalled once mutex_ is free; the
\* thread in epoll is interrupted when there is none.
Wake(t, l) ==
  /\ signalled' = TRUE
  /\ after' = [after EXCEPT ![t] = l]
  /\ IF Waiting(t) # {}
     THEN Goto(t, "signal") /\ UNCHANGED <<task_interrupted_, interrupted>>
     ELSE Goto(t, l) /\ Interrupt

\* pthread_cond_signal.
Signal(t) ==
  /\ pc[t] = "signal"
  /\ Goto(t, after[t])
  /\ IF Asleep = {} THEN UNCHANGED waits
     ELSE \E u \in Asleep : waits' = [waits EXCEPT ![u] = "woken"]
  /\ UNCHANGED <<queueVars, task_interrupted_, signalled, interrupted, holder,
                 after, current, posting, private_op_queue,
                 private_outstanding_work, blocks, opVars>>

\* pthread_cond_wait may return without a signal.
SpuriousWakeup(t) ==
  /\ waits[t] = "asleep"
  /\ waits' = [waits EXCEPT ![t] = "woken"]
  /\ UNCHANGED <<queueVars, task_interrupted_, signalled, interrupted, holder,
                 threadVars, opVars>>

\* Seeded fault: the thread in epoll is left there.
StopAllWithoutTask ==
  /\ stopped_' = TRUE
  /\ signalled' = TRUE
  /\ waits' = [t \in Actors |-> IF waits[t] = "asleep" THEN "woken" ELSE waits[t]]
  /\ UNCHANGED <<task_interrupted_, interrupted>>

\* stop_all_threads.
StopAll ==
  /\ stopped_' = TRUE
  /\ signalled' = TRUE
  /\ waits' = [t \in Actors |-> IF waits[t] = "asleep" THEN "woken" ELSE waits[t]]
  /\ Interrupt

-----------------------------------------------------------------------------
(* run and do_run_one.                                                     *)

Run(t) ==
  /\ pc[t] = "out" /\ t \in Threads
  /\ Goto(t, IF outstanding_work_ = 0 THEN "stopping" ELSE "loop")
  /\ after' = [after EXCEPT ![t] = "done"]
  /\ UNCHANGED <<queueVars, wakeVars, holder, current, posting,
                 private_op_queue, private_outstanding_work, blocks, opVars>>

Stop(t) ==
  /\ pc[t] = "stopping" /\ Locks(t)
  /\ StopAll
  /\ Goto(t, after[t])
  /\ UNCHANGED <<op_queue_, outstanding_work_, task_, holder, after, current,
                 posting, private_op_queue, private_outstanding_work, blocks,
                 opVars>>

\* Seeded fault: run() returns when the queue is empty, as poll() does.
LeaveEmpty(t) ==
  /\ pc[t] = "loop" /\ Locks(t) /\ (stopped_ \/ op_queue_ = << >>)
  /\ Goto(t, "done")
  /\ holder' = Nobody
  /\ UNCHANGED <<queueVars, wakeVars, after, current, posting,
                 private_op_queue, private_outstanding_work, blocks, opVars>>

Leave(t) ==
  /\ pc[t] = "loop" /\ Locks(t) /\ stopped_
  /\ Goto(t, "done")
  /\ holder' = Nobody
  /\ UNCHANGED <<queueVars, wakeVars, after, current, posting,
                 private_op_queue, private_outstanding_work, blocks, opVars>>

More == Len(op_queue_) > 1

TakeTask(t) ==
  /\ pc[t] = "loop" /\ Locks(t) /\ ~stopped_
  /\ op_queue_ # << >> /\ Head(op_queue_) = Task
  /\ op_queue_' = Tail(op_queue_)
  /\ task_interrupted_' = More
  /\ signalled' = (signalled \/ More)
  /\ Goto(t, IF More /\ Waiting(t) # {} THEN "signal" ELSE "task")
  /\ after' = [after EXCEPT ![t] = "task"]
  /\ blocks' = [blocks EXCEPT ![t] = ~More]
  /\ holder' = Nobody
  /\ UNCHANGED <<outstanding_work_, stopped_, task_, waits, interrupted,
                 current, posting, private_op_queue, private_outstanding_work,
                 opVars>>

\* An operation that was posted is completed.  One that the reactor put here
\* is tried first: it completes, or nothing does and compensating work is
\* counted for the work_finished that follows.
TakeOperation(t) ==
  LET o == Head(op_queue_) IN
  /\ pc[t] = "loop" /\ Locks(t) /\ ~stopped_
  /\ op_queue_ # << >> /\ o # Task
  /\ op_queue_' = Tail(op_queue_)
  /\ IF More THEN Wake(t, "complete")
     ELSE Goto(t, "complete") /\ UNCHANGED <<after, signalled, task_interrupted_, interrupted>>
  /\ current' = [current EXCEPT ![t] = o]
  /\ holder' = Nobody
  /\ UNCHANGED <<posting, outstanding_work_, stopped_, task_, waits,
                 private_op_queue, private_outstanding_work, blocks, opVars>>

\* clear and wait of the event: mutex_ is free while the thread sleeps.
Sleep(t) ==
  /\ pc[t] = "loop" /\ Locks(t) /\ ~stopped_ /\ op_queue_ = << >>
  /\ signalled' = FALSE
  /\ waits' = [waits EXCEPT ![t] = "asleep"]
  /\ Goto(t, "asleep")
  /\ holder' = Nobody
  /\ UNCHANGED <<queueVars, task_interrupted_, interrupted, after, current,
                 posting, private_op_queue, private_outstanding_work, blocks,
                 opVars>>

Awake(t) ==
  /\ waits[t] = "woken" /\ Locks(t)
  /\ IF signalled
     THEN /\ waits' = [waits EXCEPT ![t] = "no"]
          /\ Goto(t, "loop")
          /\ holder' = t
     ELSE /\ waits' = [waits EXCEPT ![t] = "asleep"]
          /\ UNCHANGED <<pc, holder>>
  /\ UNCHANGED <<queueVars, task_interrupted_, signalled, interrupted, after,
                 current, posting, private_op_queue, private_outstanding_work,
                 blocks, opVars>>

-----------------------------------------------------------------------------
(* The reactor, and task_cleanup.                                          *)

\* The file descriptor of an operation becomes ready, or looks so.
Ready(o) ==
  /\ stage[o] = "waits" /\ o \notin ready
  /\ ready' = ready \cup {o}
  /\ UNCHANGED <<queueVars, wakeVars, holder, threadVars, stage>>

\* epoll_wait returns everything that has an event.
RunTask(t) ==
  /\ pc[t] = "task"
  /\ ~blocks[t] \/ interrupted \/ ready # {}
  /\ interrupted' = FALSE
  /\ \E s \in [1..Cardinality(ready) -> ready] :
       /\ \A i, j \in DOMAIN s : s[i] = s[j] => i = j
       /\ private_op_queue' = [private_op_queue EXCEPT ![t] = s]
  /\ ready' = {}
  /\ Goto(t, "taskDone")
  /\ UNCHANGED <<queueVars, task_interrupted_, signalled, waits, holder, after,
                 current, posting, private_outstanding_work, blocks, stage>>

\* Seeded fault: the reactor goes back before what became ready.
TaskCleanupInFront(t) ==
  /\ pc[t] = "taskDone" /\ Locks(t)
  /\ holder' = t
  /\ task_interrupted_' = TRUE
  /\ op_queue_' = op_queue_ \o <<Task>> \o private_op_queue[t]
  /\ private_op_queue' = [private_op_queue EXCEPT ![t] = << >>]
  /\ Goto(t, "loop")
  /\ UNCHANGED <<outstanding_work_, stopped_, task_, signalled, waits,
                 interrupted, after, current, posting,
                 private_outstanding_work, blocks, opVars>>

\* The mutex stays locked for the next round of do_run_one.
TaskCleanup(t) ==
  /\ pc[t] = "taskDone" /\ Locks(t)
  /\ holder' = t
  /\ outstanding_work_' = outstanding_work_ + private_outstanding_work[t]
  /\ private_outstanding_work' = [private_outstanding_work EXCEPT ![t] = 0]
  /\ task_interrupted_' = TRUE
  /\ op_queue_' = op_queue_ \o private_op_queue[t] \o <<Task>>
  /\ private_op_queue' = [private_op_queue EXCEPT ![t] = << >>]
  /\ Goto(t, "loop")
  /\ UNCHANGED <<stopped_, task_, signalled, waits, interrupted, after,
                 current, posting, blocks, opVars>>

-----------------------------------------------------------------------------
(* Handlers, what they may do, and work_cleanup.                           *)

\* A descriptor's operation is performed; no event is left over for it.
Perform(t) ==
  LET o == current[t] IN
  /\ pc[t] = "complete"
  /\ \/ /\ stage[o] \in {"waits", "posted"}
        /\ stage' = [stage EXCEPT ![o] = "running"]
        /\ Goto(t, "handler")
        /\ UNCHANGED private_outstanding_work
     \/ /\ stage[o] # "posted"
        /\ private_outstanding_work' = [private_outstanding_work EXCEPT ![t] = @ + 1]
        /\ Goto(t, "cleanup")
        /\ UNCHANGED stage
  /\ UNCHANGED <<queueVars, wakeVars, holder, after, current, posting,
                 private_op_queue, blocks, ready>>

Back(t) == IF t \in Others THEN "out" ELSE "handler"
MayPost(t) == pc[t] = Back(t)

\* post_immediate_completion, of a continuation in a handler.
PostContinuation(t, o) ==
  /\ pc[t] = "handler" /\ stage[o] = "new"
  /\ stage' = [stage EXCEPT ![o] = "posted"]
  /\ private_outstanding_work' = [private_outstanding_work EXCEPT ![t] = @ + 1]
  /\ private_op_queue' = [private_op_queue EXCEPT ![t] = Append(@, o)]
  /\ UNCHANGED <<queueVars, wakeVars, holder, pc, after, current, posting,
                 blocks, ready>>

\* Seeded fault: as if the operation were counted already
\* (post_deferred_completion).
PostUncounted(t, o) ==
  /\ MayPost(t) /\ stage[o] = "new"
  /\ stage' = [stage EXCEPT ![o] = "posted"]
  /\ Goto(t, "posting")
  /\ posting' = [posting EXCEPT ![t] = o]
  /\ UNCHANGED <<queueVars, wakeVars, holder, after, current,
                 private_op_queue, private_outstanding_work, blocks, ready>>

\* post_immediate_completion of any other: work_started() comes first, without
\* the mutex.
Post(t, o) ==
  /\ MayPost(t) /\ stage[o] = "new"
  /\ stage' = [stage EXCEPT ![o] = "posted"]
  /\ outstanding_work_' = outstanding_work_ + 1
  /\ Goto(t, "posting")
  /\ posting' = [posting EXCEPT ![t] = o]
  /\ UNCHANGED <<op_queue_, stopped_, task_, wakeVars, holder, after, current,
                 private_op_queue, private_outstanding_work, blocks, ready>>

\* Seeded fault: a posted operation wakes nobody.
PushSilently(t) ==
  /\ pc[t] = "posting" /\ Locks(t)
  /\ op_queue_' = Append(op_queue_, posting[t])
  /\ posting' = [posting EXCEPT ![t] = Nobody]
  /\ Goto(t, Back(t))
  /\ UNCHANGED <<outstanding_work_, stopped_, task_, wakeVars, holder, after,
                 current, private_op_queue, private_outstanding_work, blocks,
                 opVars>>

Push(t) ==
  /\ pc[t] = "posting" /\ Locks(t)
  /\ op_queue_' = Append(op_queue_, posting[t])
  /\ posting' = [posting EXCEPT ![t] = Nobody]
  /\ Wake(t, Back(t))
  /\ UNCHANGED <<outstanding_work_, stopped_, task_, waits, holder, current,
                 private_op_queue, private_outstanding_work, blocks, opVars>>

\* init_task: the first I/O object brings the reactor in.
InitTask(t) ==
  /\ MayPost(t) /\ Locks(t) /\ ~task_
  /\ task_' = TRUE
  /\ op_queue_' = Append(op_queue_, Task)
  /\ Wake(t, Back(t))
  /\ UNCHANGED <<outstanding_work_, stopped_, waits, holder, current, posting,
                 private_op_queue, private_outstanding_work, blocks, opVars>>

\* start_op of the reactor: the operation is its, and counts as work.
StartOp(t, o) ==
  /\ MayPost(t) /\ task_ /\ stage[o] = "new"
  /\ stage' = [stage EXCEPT ![o] = "waits"]
  /\ outstanding_work_' = outstanding_work_ + 1
  /\ UNCHANGED <<op_queue_, stopped_, task_, wakeVars, holder, threadVars,
                 ready>>

\* io_context::stop() in a handler.
StopInHandler(t) ==
  /\ pc[t] = "handler" /\ ~stopped_
  /\ Goto(t, "stopping")
  /\ after' = [after EXCEPT ![t] = "handler"]
  /\ UNCHANGED <<queueVars, wakeVars, holder, current, posting,
                 private_op_queue, private_outstanding_work, blocks, opVars>>

HandlerReturns(t) ==
  /\ pc[t] = "handler"
  /\ stage' = [stage EXCEPT ![current[t]] = "done"]
  /\ Goto(t, "cleanup")
  /\ UNCHANGED <<queueVars, wakeVars, holder, after, current, posting,
                 private_op_queue, private_outstanding_work, blocks, ready>>

\* Seeded fault: the private count is not reset.
WorkCleanupKeeps(t) ==
  LET work == private_outstanding_work[t] - 1 IN
  /\ pc[t] = "cleanup"
  /\ outstanding_work_' = outstanding_work_ + work
  /\ Goto(t, IF work < 0 /\ outstanding_work_' = 0 THEN "stopping" ELSE "pushing")
  /\ after' = [after EXCEPT ![t] = "pushing"]
  /\ current' = [current EXCEPT ![t] = Nobody]
  /\ UNCHANGED <<posting, op_queue_, stopped_, task_, wakeVars, holder,
                 private_op_queue, private_outstanding_work, blocks, opVars>>

\* work_cleanup: what the handler added less the operation that is done.
WorkCleanup(t) ==
  LET work == private_outstanding_work[t] - 1 IN
  /\ pc[t] = "cleanup"
  /\ outstanding_work_' = outstanding_work_ + work
  /\ Goto(t, IF work < 0 /\ outstanding_work_' = 0 THEN "stopping" ELSE "pushing")
  /\ after' = [after EXCEPT ![t] = "pushing"]
  /\ private_outstanding_work' = [private_outstanding_work EXCEPT ![t] = 0]
  /\ current' = [current EXCEPT ![t] = Nobody]
  /\ UNCHANGED <<posting, op_queue_, stopped_, task_, wakeVars, holder,
                 private_op_queue, blocks, opVars>>

\* The private queue needs the mutex, which stays locked for the next round.
PushPrivate(t) ==
  /\ pc[t] = "pushing"
  /\ private_op_queue[t] # << >> => Locks(t)
  /\ holder' = IF private_op_queue[t] = << >> THEN holder ELSE t
  /\ op_queue_' = op_queue_ \o private_op_queue[t]
  /\ private_op_queue' = [private_op_queue EXCEPT ![t] = << >>]
  /\ Goto(t, "loop")
  /\ UNCHANGED <<outstanding_work_, stopped_, task_, wakeVars, after, current,
                 posting, private_outstanding_work, blocks, opVars>>

-----------------------------------------------------------------------------
Loop(t) == Leave(t) \/ TakeTask(t) \/ TakeOperation(t) \/ Sleep(t) \/ Awake(t)

\* What a thread does without waiting for anything but the mutex.
Proceed(t) ==
  \/ Signal(t) \/ Stop(t) \/ Loop(t) \/ RunTask(t) \/ TaskCleanup(t)
  \/ Perform(t) \/ Push(t) \/ WorkCleanup(t) \/ PushPrivate(t)

Next ==
  \/ \E t \in Actors :
       \/ Run(t) \/ Proceed(t) \/ SpuriousWakeup(t)
       \/ InitTask(t) \/ StopInHandler(t) \/ HandlerReturns(t)
       \/ \E o \in Ops : PostContinuation(t, o) \/ Post(t, o) \/ StartOp(t, o)
  \/ \E o \in Ops : Ready(o)

Spec == Init /\ [][Next]_schedulerVars

\* Threads run, the kernel grants the mutex in the end to whoever asks for it
\* again and again, and handlers return.
Fairness ==
  \A t \in Actors : /\ SF_schedulerVars(Proceed(t))
                    /\ WF_schedulerVars(Run(t))
                    /\ WF_schedulerVars(HandlerReturns(t))

FairSpec == Spec /\ Fairness

-----------------------------------------------------------------------------
(* Properties.                                                             *)

Positions(o) == {i \in 1..Len(op_queue_) : op_queue_[i] = o}
Slots(o) == {s \in Actors \X (1..Cardinality(Ops)) :
               /\ s[2] \in DOMAIN private_op_queue[s[1]]
               /\ private_op_queue[s[1]][s[2]] = o}
InTask == {t \in Actors : pc[t] \in {"task", "taskDone"} \/
                          (pc[t] = "signal" /\ after[t] = "task")}

\* Every variable has its type, and the work is counted in full.
TypeOK ==
  /\ op_queue_ \in Seq(Ops \cup {Task})
  /\ outstanding_work_ \in Nat
  /\ {stopped_, task_, task_interrupted_, signalled, interrupted} \subseteq BOOLEAN
  /\ holder \in Actors \cup {Nobody}
  /\ waits \in [Actors -> {"no", "asleep", "woken"}]
  /\ pc \in [Actors -> {"out", "loop", "asleep", "signal", "task", "taskDone",
                        "complete", "handler", "posting", "stopping", "cleanup",
                        "pushing", "done"}]
  /\ after \in [Actors -> {"out", "task", "complete", "handler", "pushing", "done"}]
  /\ {current, posting} \subseteq [Actors -> Ops \cup {Nobody}]
  /\ private_op_queue \in [Actors -> Seq(Ops)]
  /\ private_outstanding_work \in [Actors -> Nat]
  /\ blocks \in [Actors -> BOOLEAN]
  /\ stage \in [Ops -> {"new", "waits", "posted", "running", "done"}]
  /\ ready \subseteq Ops

\* The reactor is in the queue or with one thread, never in two places and
\* never lost (do_run_one, task_cleanup), and no operation is in the queue
\* twice: epoll_reactor.ipp:487 relies on it when it reuses an operation.
OnePlaceEach ==
  /\ task_ => Cardinality(Positions(Task)) + Cardinality(InTask) = 1
  /\ \A o \in Ops :
       Cardinality(Positions(o)) +
       Cardinality({t \in Actors : posting[t] = o}) +
       Cardinality(Slots(o)) <= 1

\* outstanding_work_ and the private counts are together what is left to do:
\* run() neither returns with work left nor waits when there is none
\* (work_cleanup, task_cleanup, compensating_work_started).
WorkIsCounted ==
  outstanding_work_ + SumFunction(private_outstanding_work) =
    Cardinality({o \in Ops : stage[o] \in {"waits", "posted", "running"}}) +
    Cardinality({t \in Actors : pc[t] = "cleanup"})

\* A thread that does nothing until somebody wakes it.
Idle(t) ==
  \/ waits[t] = "asleep" \/ (waits[t] = "woken" /\ ~signalled)
  \/ pc[t] = "task" /\ blocks[t] /\ ~interrupted /\ ready = {}

\* One that comes to the queue, or to wake another, without running a handler.
Coming(t) ==
  \/ pc[t] \in {"loop", "signal", "posting", "taskDone", "cleanup", "pushing"}
  \/ pc[t] \in {"asleep", "task"} /\ ~Idle(t)

\* No wakeup is lost: while an operation is in the queue and a thread has
\* nothing to do, some thread is on its way, although signals go to threads
\* that are not awake yet and the mutex is given up before the signal.
QueueIsWatched ==
  op_queue_ # << >> /\ ~stopped_ /\ (\E t \in Threads : Idle(t)) =>
    \E t \in Actors : Coming(t)

\* What was posted is run, unless the scheduler is stopped before.
PostedIsRun ==
  \A o \in Ops : stage[o] = "posted" ~> (stage[o] = "done" \/ stopped_)

\* run() returns in all threads once there is nothing left to do for good
\* (scheduler.ipp:196 and work_finished), however late the last work was counted.
RunReturns ==
  <>[](\A o \in Ops : stage[o] \in {"new", "done"})
    => <>(\A t \in Threads : pc[t] = "done")

\* stop() brings every thread out of run() (stop_all_threads), also the one
\* that waits in epoll.
StopEndsRun == \A t \in Threads : stopped_ ~> (pc[t] = "done")

-----------------------------------------------------------------------------
(* The promise of IoContext: where a thread is in its words.               *)

PlaceOf(t) ==
  LET l == IF pc[t] = "signal" THEN after[t] ELSE pc[t] IN
  CASE l \in {"out", "done"} -> l
    [] l = "complete" -> "taken"
    [] l \in {"handler", "posting"} -> "calling"
    [] l = "stopping" -> IF after[t] = "handler" THEN "calling" ELSE "ending"
    [] OTHER -> "in"

Context == INSTANCE IoContext WITH
    place <- [t \in Threads |-> PlaceOf(t)],
    taken <- [t \in Threads |->
                IF PlaceOf(t) \in {"taken", "calling"} THEN current[t] ELSE Nobody],
    stopped <- stopped_

\* The scheduler does what io_context.hpp promises of run(), post() and stop():
\* whatever is counted late and by whichever thread, run() ends only with
\* nothing left to do or when it is stopped, and then no thread takes any more.
ImplementsIoContext == Context!ContextSpec

=============================================================================
