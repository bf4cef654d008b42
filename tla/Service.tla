------------------------------ MODULE Service ------------------------------
(***************************************************************************)
(* What the whole service promises to its clients: on each connection the  *)
(* requests are served one after the other, and each has its whole effect  *)
(* on one store, or none, at one moment between its sending and its        *)
(* answer.  What was answered is never taken back, not by the end of the   *)
(* process either, with which connections, requests and answers are lost.  *)
(***************************************************************************)
EXTENDS Integers, Sequences

CONSTANTS
  Conns, Requests,
  Writes, Reads, Place, Store0,     \* as in KvStore
  NotFound, Nothing

VARIABLES
  store,    \* store[path][family][key]
  asked,    \* the requests of each connection that have not been served
  owed,     \* the answer that each connection has still to be given
  gone      \* connections that closed, while requests of theirs were not served

serviceVars == <<store, asked, owed, gone>>

ServiceInit ==
  /\ store = Store0
  /\ asked = [c \in Conns |-> << >>]
  /\ owed  = [c \in Conns |-> Nothing]
  /\ gone  = {}

Plain(e) == [error |-> e, value |-> Nothing]

\* The store after request r is done.
Written(r) ==
  [store EXCEPT ![Place[r][1]][Place[r][2]] =
     [k \in DOMAIN @ |-> IF k \in DOMAIN Writes[r] THEN Writes[r][k] ELSE @[k]]]

\* What r finds.
Found(r) ==
  LET v == store[Place[r][1]][Place[r][2]][r.key] IN
  IF v = NotFound THEN Plain(-2) ELSE [error |-> 0, value |-> v]

Refusals(r) ==
  {Plain(e) : e \in {1, 3, 4, 6, 7} \cup (IF r \in DOMAIN Writes THEN {-2} ELSE {})}

Ask(c) ==
  /\ \E r \in Requests : asked' = [asked EXCEPT ![c] = Append(@, r)]
  /\ UNCHANGED <<store, owed, gone>>

\* One that is gone may be served as well, but has no answer to get.
Serve(c) ==
  LET r == Head(asked[c])
      Answer(a) == owed' = [owed EXCEPT ![c] = IF c \in gone THEN Nothing ELSE a] IN
  /\ asked[c] # << >> /\ owed[c] = Nothing
  /\ \/ r \in DOMAIN Writes /\ store' = Written(r) /\ Answer(Plain(0))
     \/ r \in Reads /\ Answer(Found(r)) /\ UNCHANGED store
     \/ \E a \in Refusals(r) : Answer(a) /\ UNCHANGED store
  /\ \/ asked' = [asked EXCEPT ![c] = Tail(@)]
     \/ c \in gone /\ asked' = [asked EXCEPT ![c] = << >>]
  /\ gone' = IF asked'[c] = << >> THEN gone \ {c} ELSE gone

Answered(c) ==
  /\ owed[c] # Nothing
  /\ owed' = [owed EXCEPT ![c] = Nothing]
  /\ UNCHANGED <<store, asked, gone>>

\* Some of what it asked may still be served.
Close(c) ==
  /\ owed' = [owed EXCEPT ![c] = Nothing]
  /\ \E n \in 0..Len(asked[c]) :
       /\ asked' = [asked EXCEPT ![c] = SubSeq(@, 1, n)]
       /\ gone' = IF n = 0 THEN gone ELSE gone \cup {c}
  /\ UNCHANGED store

End ==
  /\ asked' = [c \in Conns |-> << >>]
  /\ owed' = [c \in Conns |-> Nothing]
  /\ gone' = {}
  /\ UNCHANGED store

ServiceNext ==
  \/ \E c \in Conns : Ask(c) \/ Serve(c) \/ Answered(c) \/ Close(c)
  \/ End

ServiceSpec == ServiceInit /\ [][ServiceNext]_serviceVars

=============================================================================
