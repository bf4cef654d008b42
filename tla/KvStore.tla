------------------------------ MODULE KvStore ------------------------------
(***************************************************************************)
(* What exec_json promises: a store of values under a database, a column   *)
(* family and a key, which serves one request at a time.  A write is done  *)
(* as a whole and answered with 0, or not done at all; a read is answered  *)
(* with the value last written; a request may be refused, or lost with the *)
(* process, and has had no effect then.                                    *)
(***************************************************************************)
EXTENDS Integers

CONSTANTS
  Requests,   \* the requests
  Writes,     \* Writes[r][k]: the value that r writes under k
  Reads,      \* the requests that read
  Place,      \* Place[r] = <<path, family>>, what such a request is about
  Store0,     \* the empty store
  NotFound, Nothing

VARIABLES
  store,    \* store[path][family][key]
  asked,    \* the request being served
  answer    \* the answer to the last request

kvVars == <<store, asked, answer>>

Writers == DOMAIN Writes
Refusals == {1, 3, 4, 6, 7}
Plain(e) == [error |-> e, value |-> Nothing]

KvInit == store = Store0 /\ asked = Nothing /\ answer = Nothing

Ask ==
  /\ asked = Nothing
  /\ asked' \in Requests
  /\ answer' = Nothing
  /\ UNCHANGED store

Write ==
  /\ asked \in Writers
  /\ store' = [store EXCEPT ![Place[asked][1]][Place[asked][2]] =
                 [k \in DOMAIN @ |-> IF k \in DOMAIN Writes[asked]
                                     THEN Writes[asked][k] ELSE @[k]]]
  /\ answer' = Plain(0)
  /\ asked' = Nothing

Read ==
  /\ asked \in Reads
  /\ LET v == store[Place[asked][1]][Place[asked][2]][asked.key] IN
       answer' = IF v = NotFound THEN Plain(-2)
                 ELSE [error |-> 0, value |-> v]
  /\ asked' = Nothing
  /\ UNCHANGED store

\* Only a write may fail for a reason of its own.
Refuse ==
  /\ asked \in Requests
  /\ \E e \in Refusals \cup (IF asked \in Writers THEN {-2} ELSE {}) :
        answer' = Plain(e)
  /\ asked' = Nothing
  /\ UNCHANGED store

Lose ==
  /\ asked' = Nothing
  /\ answer' = Nothing
  /\ UNCHANGED store

KvNext == Ask \/ Write \/ Read \/ Refuse \/ Lose

KvSpec == KvInit /\ [][KvNext]_kvVars

=============================================================================
