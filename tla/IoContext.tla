----------------------------- MODULE IoContext -----------------------------
(***************************************************************************)
(* What an io_context promises to those who run it and to the operations   *)
(* that are started with it (io_context.hpp): the handler of an operation  *)
(* is called once, by a thread in run(), of an operation that was started; *)
(* run() decides that it has nothing left to do only at a moment when      *)
(* there is nothing left; and once it is stopped, by that or by a handler, *)
(* no thread takes another operation: it finishes with the one it has.     *)
(***************************************************************************)
CONSTANTS
  Threads,    \* threads that call run()
  Others,     \* threads that only start operations
  Ops,        \* operations, each started once
  Nobody

VARIABLES
  stage,      \* of an operation: "new", "waits" (for an event), "posted",
              \* "running" (its handler), or "done"
  place,      \* of a thread: "out" of run(), "in" it, with an operation
              \* "taken", in its handler ("calling"), "ending", or "done"
  taken,      \* the operation of a thread that has one
  stopped

contextVars == <<stage, place, taken, stopped>>

NothingLeft == \A o \in Ops : stage[o] \in {"new", "done"}

ContextInit ==
  /\ stage \in [Ops -> {"new", "waits"}]
  /\ place = [t \in Threads |-> "out"]
  /\ taken = [t \in Threads |-> Nobody]
  /\ stopped = FALSE

Move(t, from, to) == place[t] = from /\ place' = [place EXCEPT ![t] = to]

\* post(), or an operation on a socket.
Start(o) ==
  /\ Others # {} \/ \E t \in Threads : place[t] = "calling"
  /\ stage[o] = "new"
  /\ \E how \in {"waits", "posted"} : stage' = [stage EXCEPT ![o] = how]
  /\ UNCHANGED <<place, taken, stopped>>

\* run() begins, and may see at once that there is nothing to do.
Enter(t) ==
  /\ Move(t, "out", "in") \/ (Move(t, "out", "ending") /\ NothingLeft)
  /\ UNCHANGED <<stage, taken, stopped>>

\* Nothing is left when a handler has returned.
Exhaust(t) ==
  /\ Move(t, "in", "ending") /\ NothingLeft
  /\ UNCHANGED <<stage, taken, stopped>>

\* What was posted is taken by one thread.
Take(t, o) ==
  /\ Move(t, "in", "taken") /\ ~stopped
  /\ stage[o] = "posted" => \A u \in Threads : taken[u] # o
  /\ taken' = [taken EXCEPT ![t] = o]
  /\ UNCHANGED <<stage, stopped>>

\* The handler of what was taken is called, ...
Call(t) ==
  /\ Move(t, "taken", "calling")
  /\ stage[taken[t]] \in {"waits", "posted"}
  /\ stage' = [stage EXCEPT ![taken[t]] = "running"]
  /\ UNCHANGED <<taken, stopped>>

\* ... or its event was for nothing.
Pass(t) ==
  /\ Move(t, "taken", "in")
  /\ stage[taken[t]] # "posted"
  /\ taken' = [taken EXCEPT ![t] = Nobody]
  /\ UNCHANGED <<stage, stopped>>

Return(t) ==
  /\ Move(t, "calling", "in")
  /\ stage' = [stage EXCEPT ![taken[t]] = "done"]
  /\ taken' = [taken EXCEPT ![t] = Nobody]
  /\ UNCHANGED stopped

\* A thread that found nothing left stops the others, and leaves or goes back
\* to see that it is stopped; a handler stops all but itself.
Stop(t) ==
  /\ stopped' = TRUE
  /\ \/ Move(t, "ending", "in") \/ Move(t, "ending", "done")
     \/ place[t] = "calling" /\ UNCHANGED place
  /\ UNCHANGED <<stage, taken>>

\* run() returns.
Leave(t) ==
  /\ Move(t, "in", "done") /\ stopped
  /\ UNCHANGED <<stage, taken, stopped>>

ContextNext ==
  \/ \E o \in Ops : Start(o)
  \/ \E t \in Threads :
       \/ Enter(t) \/ Exhaust(t) \/ Call(t) \/ Pass(t) \/ Return(t)
       \/ Stop(t) \/ Leave(t)
       \/ \E o \in Ops : Take(t, o)

ContextSpec == ContextInit /\ [][ContextNext]_contextVars

=============================================================================
