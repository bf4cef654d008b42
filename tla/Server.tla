------------------------------- MODULE Server -------------------------------
(***************************************************************************)
(* The service as a whole: connections, of which Rpc says what the network *)
(* layer does with them (Session implements it), in front of exec_json and *)
(* its databases (Database).  One thread serves all of them: a session     *)
(* calls exec_json for its request, hands the reply to async_write, and    *)
(* reads its next request when that is done, while other sessions have     *)
(* theirs executed.  Connections end by themselves or with the process.    *)
(***************************************************************************)
EXTENDS Database

CONSTANTS
  Conns,       \* connections; an ended one is used again for another
  RequestsOf   \* RequestsOf[c]: the requests made on c

ASSUME ServerAssumption ==
  /\ Nothing \notin Conns
  /\ RequestsOf \in [Conns -> SUBSET Requests]

VARIABLES
  conn,     \* "closed" or "open", as its client sees it
  inbox,    \* the request that arrived on it and is not read, or Nothing
  outbox,   \* the reply that async_write is sending, or Nothing
  serving   \* the connection whose request exec_json works on, or Nothing

connVars == <<conn, inbox, outbox, serving>>
serverVars == <<vars, connVars>>

NoMail == [c \in Conns |-> Nothing]

ServerInit ==
  /\ Init
  /\ conn = [c \in Conns |-> "closed"]
  /\ inbox = NoMail /\ outbox = NoMail
  /\ serving = Nothing

\* The session before it has ended.
Connect(c) ==
  /\ Running /\ conn[c] = "closed" /\ serving # c /\ inbox[c] = Nothing
  /\ conn' = [conn EXCEPT ![c] = "open"]
  /\ UNCHANGED <<vars, inbox, outbox, serving>>

\* Clients need not wait for an answer before they send again.
Send(c) ==
  /\ conn[c] = "open" /\ inbox[c] = Nothing
  /\ \E r \in RequestsOf[c] : inbox' = [inbox EXCEPT ![c] = r]
  /\ UNCHANGED <<vars, conn, outbox, serving>>

\* Seeded fault: do_read follows do_write, not its handler.
ExecuteAhead(c) ==
  /\ inbox[c] # Nothing
  /\ Receive(inbox[c])
  /\ serving' = c
  /\ inbox' = [inbox EXCEPT ![c] = Nothing]
  /\ UNCHANGED <<conn, outbox>>

\* A session that has no reply to send reads the next request, even of a client
\* that has closed since, and calls exec_json.
Execute(c) ==
  /\ inbox[c] # Nothing /\ outbox[c] = Nothing
  /\ Receive(inbox[c])
  /\ serving' = c
  /\ inbox' = [inbox EXCEPT ![c] = Nothing]
  /\ UNCHANGED <<conn, outbox>>

\* All connections end with the process.
Disconnected ==
  /\ conn' = [c \in Conns |-> "closed"]
  /\ inbox' = NoMail /\ outbox' = NoMail
  /\ serving' = Nothing

\* do_write gets the reply.  Where the client has closed, async_write fails and
\* the session ends, or it is none the wiser.
Reply(c) ==
  /\ serving' = Nothing
  /\ UNCHANGED conn
  /\ \/ conn[c] = "open" /\ outbox' = [outbox EXCEPT ![c] = reply'] /\ UNCHANGED inbox
     \/ conn[c] = "closed" /\ inbox' \in {inbox, [inbox EXCEPT ![c] = Nothing]}
        /\ UNCHANGED outbox

\* A step inside exec_json, which may be its last, and that of the process.
Work ==
  /\ \/ Find \/ open \/ Bootstrap \/ CreateFamily \/ CloseBootstrap
     \/ OpenAll \/ exec_op
  /\ \/ proc' = "crashed" /\ Disconnected
     \/ proc' # "crashed" /\ req' # Nothing /\ UNCHANGED connVars
     \/ proc' # "crashed" /\ req' = Nothing /\ Reply(serving)

\* async_write needs the thread as well.
Answer(c) ==
  /\ Running /\ pc = "idle" /\ outbox[c] # Nothing
  /\ outbox' = [outbox EXCEPT ![c] = Nothing]
  /\ UNCHANGED <<vars, conn, inbox, serving>>

\* The client closes or resets, at any moment: what it sent is read, or lost.
Drop(c) ==
  /\ conn[c] = "open"
  /\ conn' = [conn EXCEPT ![c] = "closed"]
  /\ inbox' \in {inbox, [inbox EXCEPT ![c] = Nothing]}
  /\ outbox' = [outbox EXCEPT ![c] = Nothing]
  /\ UNCHANGED <<vars, serving>>

EndOfProcess == (SignalHandler \/ Crash) /\ Disconnected

StartAgain == Restart /\ UNCHANGED connVars

ServerNext ==
  \/ \E c \in Conns : Connect(c) \/ Send(c) \/ Execute(c) \/ Answer(c) \/ Drop(c)
  \/ Work \/ EndOfProcess \/ StartAgain

ServerSpec == ServerInit /\ [][ServerNext]_serverVars

-----------------------------------------------------------------------------
(* Properties.                                                             *)

\* The requests of c that have not been served.
Unserved(c) ==
  (IF serving = c THEN <<req>> ELSE << >>) \o
  (IF inbox[c] = Nothing THEN << >> ELSE <<inbox[c]>>)

Whole == INSTANCE Service WITH
  Place <- KvPlace, Writes <- KvWrites, Reads <- KvReads, Store0 <- Empties,
  store <- data, asked <- [c \in Conns |-> Unserved(c)], owed <- outbox,
  gone <- {c \in Conns : conn[c] = "closed" /\ Unserved(c) # << >>}

\* Connections whose requests are executed in turns and answered later, in any
\* order, that end in the middle of anything, and a process that does: each
\* client sees one store, each reply is the answer to the request it follows on
\* its connection, and an answered write stays (networkinterface.cc:49-69,
\* server.cc:306-366).
ImplementsService == Whole!ServiceSpec

=============================================================================
