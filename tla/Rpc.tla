-------------------------------- MODULE Rpc --------------------------------
(***************************************************************************)
(* What the network layer promises to the rest of the service and to its   *)
(* clients: on each connection the requests are executed in the order in   *)
(* which they were sent, each at most once and exactly as sent, and every  *)
(* execution is answered before the next one starts.  A connection may be  *)
(* dropped at any time; nothing is executed or answered on it after that.  *)
(***************************************************************************)
EXTENDS Naturals, Sequences

CONSTANTS Conns, Payloads

VARIABLES
  requests,  \* what the client of each connection sent
  executed,  \* what was executed for it
  answered,  \* what it was sent answers for
  dropped    \* the connections that were dropped

rpcVars == <<requests, executed, answered, dropped>>

RpcInit ==
  /\ requests = [c \in Conns |-> << >>]
  /\ executed = [c \in Conns |-> << >>]
  /\ answered = [c \in Conns |-> << >>]
  /\ dropped  = {}

Send(c) ==
  /\ \E p \in Payloads :
        requests' = [requests EXCEPT ![c] = Append(@, p)]
  /\ UNCHANGED <<executed, answered, dropped>>

Execute(c) ==
  LET k == Len(executed[c]) + 1 IN
  /\ c \notin dropped
  /\ Len(answered[c]) = Len(executed[c])
  /\ k <= Len(requests[c])
  /\ executed' = [executed EXCEPT ![c] = Append(@, requests[c][k])]
  /\ UNCHANGED <<requests, answered, dropped>>

Answer(c) ==
  LET k == Len(answered[c]) + 1 IN
  /\ c \notin dropped
  /\ k <= Len(executed[c])
  /\ answered' = [answered EXCEPT ![c] = Append(@, executed[c][k])]
  /\ UNCHANGED <<requests, executed, dropped>>

Drop ==
  /\ \E D \in SUBSET Conns : dropped' = dropped \cup D
  /\ UNCHANGED <<requests, executed, answered>>

RpcNext ==
  \/ \E c \in Conns : Send(c) \/ Execute(c) \/ Answer(c)
  \/ Drop

RpcSpec == RpcInit /\ [][RpcNext]_rpcVars

=============================================================================
