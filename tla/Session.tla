------------------------------ MODULE Session ------------------------------
(***************************************************************************)
(* The network layer of the service (networkinterface.cc, and the signal   *)
(* handling of main in server.cc): class server accepts connections, class *)
(* session reads length-prefixed requests and writes length-prefixed       *)
(* replies, all on the one thread that runs io_context.                    *)
(*                                                                         *)
(* That thread runs one completion handler at a time.  A handler runs to   *)
(* its end in one step of this specification, with one exception:          *)
(* session::do_read reads the length prefix with the BLOCKING asio::read,  *)
(* so a handler that calls it (the accept handler through start(), and the *)
(* write handler) stays on the thread until the prefix arrives.  Phase     *)
(* "header" is that situation, and ThreadFree guards all other handlers.   *)
(*                                                                         *)
(* Bytes are abstracted to units.  Request k of a connection travels as    *)
(* one prefix unit <<k, 0, n>> followed by n payload units <<k, i, n>>;    *)
(* a unit tells which request it belongs to, so that a misframed buffer is *)
(* visible, but the server never looks at that: it only uses the length    *)
(* in a unit it has read as a prefix, and offsets into its buffer.         *)
(***************************************************************************)
EXTENDS Naturals, Sequences

CONSTANTS
  Conns,        \* connections; each is used once
  Patient,      \* connections whose client behaves as query() in catchtest.cc
  Lengths,      \* lengths of the requests that clients send
  MaxReqs,      \* bound: requests that a client sends on one connection
  MaxLength,    \* the limit 1024*1024 of do_read
  ReplyLens,    \* lengths of the replies that exec_json produces
  ExecMayThrow, \* whether exec_json may throw on some of the requests
  MaxSignals    \* bound: signals delivered to the process

ASSUME SessionAssumption ==
  /\ Patient \subseteq Conns
  /\ Lengths \subseteq Nat
  /\ ReplyLens \subseteq Nat
  /\ MaxReqs \in Nat
  /\ MaxLength \in Nat
  /\ MaxSignals \in Nat
  /\ ExecMayThrow \in BOOLEAN

VARIABLES
  client,    \* the client's end: "idle", "up" or "closed"
  sent,      \* requests written by the client: length and place in the stream
  stream,    \* all units the client wrote on the connection
  arrived,   \* how many of them are in the server's kernel buffer, or were
  consumed,  \* how many of them the server has read
  phase,     \* the session: what its one outstanding operation is
  length,    \* session::length
  pos,       \* offset of the read pointer in inp_data_
  rem,       \* bytes asked for by the outstanding async_read_some
  buf,       \* contents of inp_data_
  inp,       \* allocation state of inp_data_
  outb,      \* allocation state of out_data_
  execLog,   \* the strings passed to exec_json, in order
  replies,   \* replies handed to the kernel: the string each one answers
  armed,     \* an async_accept is outstanding
  sig,       \* a signal sits in asio's signal pipe
  signals,   \* signals delivered so far
  overrun,   \* out_data_ was written past its end
  proc       \* "running", "stopped" (run() returned) or "crashed"

netVars  == <<client, sent, stream, arrived>>
readVars == <<consumed, length, pos, rem, buf>>
heapVars == <<inp, outb, overrun>>
logVars  == <<execLog, replies>>
procVars == <<armed, sig, signals, proc>>
vars     == <<netVars, readVars, heapVars, logVars, procVars, phase>>

size32 == 4   \* sizeof(uint32_t), room for the prefix in out_data_

Phases == {"none", "backlog", "header", "first", "rest", "write", "wrote",
           "done"}

Units         == Nat \X Nat \X Nat
SentRequest   == [len : Lengths, at : Nat]
Unit(k, i, n) == <<k, i, n>>
NoUnit        == <<0, 0, 0>>   \* a byte of inp_data_ not yet written

\* What the client of request k, of length n, meant to be executed.
Payload(k, n) == [i \in 1..n |-> Unit(k, i, n)]

Running       == proc = "running"
ThreadFree    == \A c \in Conns : phase[c] # "header"
Readable(c)   == arrived[c] - consumed[c]
EndOfFile(c)  == client[c] = "closed" /\ consumed[c] = Len(stream[c])

Init ==
  /\ client   = [c \in Conns |-> "idle"]
  /\ sent     = [c \in Conns |-> << >>]
  /\ stream   = [c \in Conns |-> << >>]
  /\ arrived  = [c \in Conns |-> 0]
  /\ consumed = [c \in Conns |-> 0]
  /\ phase    = [c \in Conns |-> "none"]
  /\ length   = [c \in Conns |-> 0]
  /\ pos      = [c \in Conns |-> 0]
  /\ rem      = [c \in Conns |-> 0]
  /\ buf      = [c \in Conns |-> << >>]
  /\ inp      = [c \in Conns |-> "null"]
  /\ outb     = [c \in Conns |-> "null"]
  /\ execLog  = [c \in Conns |-> << >>]
  /\ replies  = [c \in Conns |-> << >>]
  /\ armed    = TRUE
  /\ sig      = FALSE
  /\ signals  = 0
  /\ overrun  = FALSE
  /\ proc     = "running"

-----------------------------------------------------------------------------
(* The clients and the network.                                            *)

Connect(c) ==
  /\ client[c] = "idle"
  /\ Running
  /\ client' = [client EXCEPT ![c] = "up"]
  /\ phase' = [phase EXCEPT ![c] = "backlog"]
  /\ UNCHANGED <<sent, stream, arrived, readVars, heapVars, logVars, procVars>>

\* The client writes prefix and payload with one asio::write; a patient
\* client sends one request, any other one may pipeline.
ClientSend(c, n) ==
  LET k == Len(sent[c]) + 1 IN
  /\ client[c] = "up"
  /\ k <= IF c \in Patient THEN 1 ELSE MaxReqs
  /\ sent' = [sent EXCEPT ![c] = Append(@, [len |-> n,
                                            at  |-> Len(stream[c]) + 1])]
  /\ stream' = [stream EXCEPT ![c] =
                  @ \o [i \in 1..(n + 1) |-> Unit(k, i - 1, n)]]
  /\ UNCHANGED <<client, arrived, phase, readVars, heapVars, logVars,
                 procVars>>

\* TCP hands over what was written in order, in pieces of its own choosing.
Deliver(c) ==
  /\ arrived[c] < Len(stream[c])
  /\ arrived' = [arrived EXCEPT ![c] = @ + 1]
  /\ UNCHANGED <<client, sent, stream, phase, readVars, heapVars, logVars,
                 procVars>>

\* A patient client closes once it has its answer, or once the server has
\* closed the connection; any other client closes when it likes.  A close that
\* is a reset loses units that have not arrived.
ClientClose(c) ==
  /\ client[c] = "up"
  /\ c \in Patient => \/ Len(sent[c]) = 1 /\ Len(replies[c]) = 1
                      \/ phase[c] = "done"
                      \/ ~Running
  /\ client' = [client EXCEPT ![c] = "closed"]
  /\ \E m \in arrived[c]..Len(stream[c]) :
        stream' = [stream EXCEPT ![c] = SubSeq(@, 1, m)]
  /\ UNCHANGED <<sent, arrived, phase, readVars, heapVars, logVars, procVars>>

-----------------------------------------------------------------------------
(* The handlers of the server.                                             *)

\* do_read up to its blocking asio::read.
StartRead(c) == phase' = [phase EXCEPT ![c] = "header"]

\* The accept handler: make_shared<session>(...)->start().  The call to
\* do_accept that ends the handler is reached when do_read returns.
AcceptHandler(c) ==
  /\ Running /\ ThreadFree /\ armed
  /\ phase[c] = "backlog"
  /\ armed' = FALSE
  /\ StartRead(c)
  /\ UNCHANGED <<netVars, readVars, heapVars, logVars, sig, signals, proc>>

\* asio::read returns with a prefix: the rest of do_read, and of the handler
\* that called it.
ReadPrefix(c) ==
  LET n == stream[c][consumed[c] + 1][3] IN
  /\ Running
  /\ phase[c] = "header"
  /\ Readable(c) >= 1
  /\ consumed' = [consumed EXCEPT ![c] = @ + 1]
  /\ length' = [length EXCEPT ![c] = n]
  /\ \/ /\ n > MaxLength
        /\ phase' = [phase EXCEPT ![c] = "done"]
        /\ UNCHANGED <<pos, rem, buf, inp>>
     \/ /\ n <= MaxLength
        /\ phase' = [phase EXCEPT ![c] = "first"]
        /\ inp' = [inp EXCEPT ![c] = "live"]
        /\ buf' = [buf EXCEPT ![c] = [i \in 1..n |-> NoUnit]]
        /\ pos' = [pos EXCEPT ![c] = 0]
        /\ rem' = [rem EXCEPT ![c] = n]
  /\ armed' = TRUE
  /\ UNCHANGED <<netVars, outb, overrun, logVars, sig, signals, proc>>

\* Seeded fault: the exception is caught around a loop that reads again.
PrefixErrorRetried(c) ==
  Running /\ phase[c] = "header" /\ EndOfFile(c) /\ UNCHANGED vars

\* asio::read throws (end of file or reset): do_read returns and nothing
\* refers to the session any more.
PrefixError(c) ==
  /\ Running
  /\ phase[c] = "header"
  /\ EndOfFile(c)
  /\ phase' = [phase EXCEPT ![c] = "done"]
  /\ armed' = TRUE
  /\ UNCHANGED <<netVars, readVars, heapVars, logVars, sig, signals, proc>>

\* do_write(len): allocate the reply buffer by the length of the REQUEST,
\* execute, copy the reply behind the prefix, start async_write.
DoWrite(c, data, len) ==
  /\ outb' = [outb EXCEPT ![c] = "live"]
  /\ \/ \E out_len \in ReplyLens :
          /\ execLog' = [execLog EXCEPT ![c] = Append(@, SubSeq(data, 1, len))]
          /\ overrun' = (overrun \/ size32 + out_len > len + size32)
          /\ phase' = [phase EXCEPT ![c] = "write"]
          /\ UNCHANGED proc
     \/ /\ ExecMayThrow            \* leaves io_context::run(), and main
        /\ proc' = "crashed"
        /\ UNCHANGED <<execLog, overrun, phase>>

\* inp_data_ after n units were stored at the read pointer.
Filled(c, n) ==
  [i \in 1..length[c] |-> IF i \in (pos[c] + 1)..(pos[c] + n)
                          THEN stream[c][consumed[c] + (i - pos[c])]
                          ELSE buf[c][i]]

\* An async_read_some of rem units completes with n of them; one of no units
\* completes at once.
Received(c, n) ==
  /\ IF rem[c] = 0 THEN n = 0 ELSE n \in 1..rem[c] /\ n <= Readable(c)
  /\ consumed' = [consumed EXCEPT ![c] = @ + n]
  /\ buf' = [buf EXCEPT ![c] = Filled(c, n)]

\* Seeded faults: read_rest(buffer + len, len - length), read_rest(buffer,
\* length - len) and read_rest(buffer + len, length).
ReadRestSwapped(c, n) ==
  /\ phase' = [phase EXCEPT ![c] = "rest"]
  /\ pos' = [pos EXCEPT ![c] = @ + n]
  /\ rem' = [rem EXCEPT ![c] = n - @]
  /\ UNCHANGED <<outb, overrun, execLog, proc>>

ReadRestSamePlace(c, n) ==
  /\ phase' = [phase EXCEPT ![c] = "rest"]
  /\ rem' = [rem EXCEPT ![c] = @ - n]
  /\ UNCHANGED <<pos, outb, overrun, execLog, proc>>

ReadRestAll(c, n) ==
  /\ phase' = [phase EXCEPT ![c] = "rest"]
  /\ pos' = [pos EXCEPT ![c] = @ + n]
  /\ UNCHANGED <<rem, outb, overrun, execLog, proc>>

\* read_rest(buffer + len, length - len)
ReadRest(c, n) ==
  /\ phase' = [phase EXCEPT ![c] = "rest"]
  /\ pos' = [pos EXCEPT ![c] = @ + n]
  /\ rem' = [rem EXCEPT ![c] = @ - n]
  /\ UNCHANGED <<outb, overrun, execLog, proc>>

\* The completion of the async_read_some started by do_read.
FirstReadHandler(c, n) ==
  /\ Running /\ ThreadFree
  /\ phase[c] = "first"
  /\ Received(c, n)
  /\ \/ n < length[c] /\ ReadRest(c, n)
     \/ /\ n >= length[c]
        /\ DoWrite(c, Filled(c, n), length[c])
        /\ UNCHANGED <<pos, rem>>
  /\ UNCHANGED <<netVars, length, inp, replies, armed, sig, signals>>

\* ... with an error: the handler does nothing, inp_data_ included.
FirstReadError(c) ==
  /\ Running /\ ThreadFree
  /\ phase[c] = "first" /\ rem[c] > 0
  /\ EndOfFile(c)
  /\ phase' = [phase EXCEPT ![c] = "done"]
  /\ UNCHANGED <<netVars, readVars, heapVars, logVars, procVars>>

\* Seeded fault: do_write(length) in read_rest, where the parameter length (the
\* bytes that were still to come) hides session::length.
RestReadHandlerShadowed(c, n) ==
  /\ Running /\ ThreadFree
  /\ phase[c] = "rest"
  /\ Received(c, n)
  /\ \/ n < rem[c] /\ ReadRest(c, n)
     \/ /\ n >= rem[c]
        /\ DoWrite(c, Filled(c, n), rem[c])
        /\ UNCHANGED <<pos, rem>>
  /\ UNCHANGED <<netVars, length, inp, replies, armed, sig, signals>>

\* The completion of an async_read_some started by read_rest.
RestReadHandler(c, n) ==
  /\ Running /\ ThreadFree
  /\ phase[c] = "rest"
  /\ Received(c, n)
  /\ \/ n < rem[c] /\ ReadRest(c, n)
     \/ /\ n >= rem[c]
        /\ DoWrite(c, Filled(c, n), length[c])
        /\ UNCHANGED <<pos, rem>>
  /\ UNCHANGED <<netVars, length, inp, replies, armed, sig, signals>>

\* ... with an error: inp_data_ is deleted.
RestReadError(c) ==
  /\ Running /\ ThreadFree
  /\ phase[c] = "rest"
  /\ EndOfFile(c)
  /\ phase' = [phase EXCEPT ![c] = "done"]
  /\ inp' = [inp EXCEPT ![c] = "freed"]
  /\ UNCHANGED <<netVars, readVars, outb, overrun, logVars, procVars>>

\* async_write has handed the whole reply to the kernel; the client can have
\* it before the completion handler runs.
WriteAll(c) ==
  /\ Running /\ ThreadFree
  /\ phase[c] = "write"
  /\ phase' = [phase EXCEPT ![c] = "wrote"]
  /\ replies' = [replies EXCEPT ![c] = Append(@, execLog[c][Len(execLog[c])])]
  /\ UNCHANGED <<netVars, readVars, heapVars, execLog, procVars>>

\* Seeded fault: inp_data_ is deleted only if there was an error.
WriteHandlerKeepsInput(c) ==
  /\ Running /\ ThreadFree
  /\ \/ phase[c] = "wrote" /\ StartRead(c) /\ UNCHANGED inp
     \/ /\ phase[c] = "write" /\ client[c] = "closed"
        /\ phase' = [phase EXCEPT ![c] = "done"]
        /\ inp' = [inp EXCEPT ![c] = "freed"]
  /\ outb' = [outb EXCEPT ![c] = "freed"]
  /\ UNCHANGED <<netVars, readVars, overrun, logVars, procVars>>

\* The completion handler of async_write: both buffers are deleted, and
\* without an error the next request is waited for, on the thread.
WriteHandler(c) ==
  /\ Running /\ ThreadFree
  /\ \/ phase[c] = "wrote" /\ StartRead(c)
     \/ /\ phase[c] = "write" /\ client[c] = "closed"
        /\ phase' = [phase EXCEPT ![c] = "done"]
  /\ inp' = [inp EXCEPT ![c] = "freed"]
  /\ outb' = [outb EXCEPT ![c] = "freed"]
  /\ UNCHANGED <<netVars, readVars, overrun, logVars, procVars>>

-----------------------------------------------------------------------------
(* Signals and the end of the process.                                     *)

\* SIGINT or SIGTERM: asio's handler writes to a pipe.  A thread asleep in
\* asio::read is woken with EINTR, which asio::read throws; one that is about
\* to fall asleep there is not.
Signal ==
  /\ Running
  /\ signals < MaxSignals
  /\ signals' = signals + 1
  /\ sig' = TRUE
  /\ \/ UNCHANGED <<phase, armed>>
     \/ \E c \in Conns :
          /\ phase[c] = "header"
          /\ phase' = [phase EXCEPT ![c] = "done"]
          /\ armed' = TRUE
  /\ UNCHANGED <<netVars, readVars, heapVars, logVars, proc>>

\* The handler given to signals.async_wait, up to io_context.stop(); what it
\* does to the databases is in module Database.
SignalHandler ==
  /\ Running /\ ThreadFree
  /\ sig
  /\ sig' = FALSE
  /\ proc' = "stopped"
  /\ UNCHANGED <<netVars, readVars, heapVars, logVars, armed, signals, phase>>

\* An overrun heap block may be noticed by the allocator at any time.
HeapAbort ==
  /\ Running
  /\ overrun
  /\ proc' = "crashed"
  /\ UNCHANGED <<netVars, readVars, heapVars, logVars, armed, sig, signals,
                 phase>>

-----------------------------------------------------------------------------
Handlers(c) ==
  \/ AcceptHandler(c)
  \/ ReadPrefix(c)
  \/ PrefixError(c)
  \/ \E n \in 0..MaxLength : FirstReadHandler(c, n)
  \/ FirstReadError(c)
  \/ \E n \in 0..MaxLength : RestReadHandler(c, n)
  \/ RestReadError(c)
  \/ WriteHandler(c)

ClientStep(c) ==
  \/ Connect(c)
  \/ \E n \in Lengths : ClientSend(c, n)
  \/ ClientClose(c)

Next ==
  \/ \E c \in Conns : ClientStep(c) \/ Deliver(c) \/ WriteAll(c) \/ Handlers(c)
  \/ Signal
  \/ SignalHandler
  \/ HeapAbort

Spec == Init /\ [][Next]_vars

\* The scheduler of io_context takes handlers from a FIFO queue and polls the
\* reactor once per round (scheduler::do_run_one), so a handler that is ready
\* again and again is run: strong fairness, of every handler on its own.
\* Nothing is assumed about clients that are not patient, not even that they
\* read their replies.  A patient one is query() in catchtest.cc: it connects,
\* sends, reads the answer and closes.
Fairness ==
  /\ \A c \in Conns : SF_vars(Handlers(c)) /\ WF_vars(Deliver(c))
  /\ SF_vars(SignalHandler)
  /\ \A c \in Patient : WF_vars(ClientStep(c)) /\ SF_vars(WriteAll(c))

FairSpec == Spec /\ Fairness

-----------------------------------------------------------------------------
(* Properties.                                                             *)

\* Every variable has its type: the read pointer, and the count that read_rest
\* passes on (networkinterface.cc:13), never become negative.
TypeOK ==
  /\ client   \in [Conns -> {"idle", "up", "closed"}]
  /\ sent     \in [Conns -> Seq(SentRequest)]
  /\ stream   \in [Conns -> Seq(Units)]
  /\ arrived  \in [Conns -> Nat]
  /\ consumed \in [Conns -> Nat]
  /\ phase    \in [Conns -> Phases]
  /\ length   \in [Conns -> Nat]
  /\ pos      \in [Conns -> Nat]
  /\ rem      \in [Conns -> Nat]
  /\ buf      \in [Conns -> Seq(Units)]
  /\ inp      \in [Conns -> {"null", "live", "freed"}]
  /\ outb     \in [Conns -> {"null", "live", "freed"}]
  /\ execLog  \in [Conns -> Seq(Seq(Units))]
  /\ replies  \in [Conns -> Seq(Seq(Units))]
  /\ armed    \in BOOLEAN
  /\ sig      \in BOOLEAN
  /\ signals  \in 0..MaxSignals
  /\ overrun  \in BOOLEAN
  /\ proc     \in {"running", "stopped", "crashed"}

\* The buffers of a session are there while an operation on them is
\* outstanding (networkinterface.cc:9,36,60), they are given back before the
\* session waits for its next request (lines 63-64), and a session that is
\* gone has left at most one behind: inp_data_, when not one unit of the
\* request it was allocated for could be read (the handler at line 37 has no
\* else branch, unlike the one at line 10).
BuffersOf(c) ==
  /\ phase[c] \in {"first", "rest", "write", "wrote"} => inp[c] = "live"
  /\ phase[c] \in {"write", "wrote"} => outb[c] = "live"
  /\ phase[c] \in {"none", "backlog", "header"} => inp[c] # "live"
  /\ phase[c] \notin {"write", "wrote"} /\ Running => outb[c] # "live"
  /\ phase[c] = "done" /\ inp[c] = "live" => pos[c] = 0 /\ length[c] > 0

BufferDiscipline == \A c \in Conns : BuffersOf(c)

\* do_write sizes out_data_ by the request (networkinterface.cc:52) and copies
\* the reply into it (line 57): the reply to get is the value that was found
\* ("get (get a value given a key)", README.md), and is to reach the client
\* whatever its length.
ReplyAlwaysFits == ~overrun

\* Where the k-th of the requests reqs ends in the stream.
End(reqs, k) == IF k = 0 THEN 0 ELSE reqs[k].at + reqs[k].len

\* The requests reqs, one after the other; a reset cuts the end off bytes.
Layout(reqs, bytes) ==
  \A k \in 1..Len(reqs) :
    /\ reqs[k].at = End(reqs, k - 1) + 1
    /\ End(reqs, k) <= End(reqs, Len(reqs))
    /\ \A j \in 0..reqs[k].len :
         reqs[k].at + j <= Len(bytes) =>
           bytes[reqs[k].at + j] = Unit(k, j, reqs[k].len)

StreamLayout(c) ==
  /\ Layout(sent[c], stream[c])
  /\ Len(stream[c]) <= End(sent[c], Len(sent[c]))
  /\ client[c] # "closed" => Len(stream[c]) = End(sent[c], Len(sent[c]))
  /\ consumed[c] <= arrived[c] /\ arrived[c] <= Len(stream[c])

\* The requests that were executed, and the replies, are those of a prefix of
\* the requests sent.
LogsAgree(c) ==
  /\ Len(execLog[c]) <= Len(sent[c])
  /\ \A k \in 1..Len(execLog[c]) : execLog[c][k] = Payload(k, sent[c][k].len)
  /\ Len(replies[c]) <= Len(execLog[c])
  /\ \A k \in 1..Len(replies[c]) : replies[c][k] = execLog[c][k]
  /\ phase[c] = "write" => Len(replies[c]) + 1 = Len(execLog[c])
  /\ phase[c] \notin {"write", "done"} => Len(replies[c]) = Len(execLog[c])

\* Between requests the session stands at the end of the last one executed;
\* within a request, at its offset in the buffer, with length, the read
\* pointer, the bytes still to come and the bytes stored all in agreement.
AtPosition(c) ==
  LET K == Len(execLog[c]) IN
  /\ client[c] = "idle" => phase[c] = "none"
  /\ phase[c] \in {"none", "backlog"} => consumed[c] = 0 /\ K = 0
  /\ phase[c] \in {"header", "write", "wrote"} => consumed[c] = End(sent[c], K)
  /\ phase[c] \in {"first", "rest"} =>
       /\ K + 1 <= Len(sent[c])
       /\ consumed[c] = sent[c][K + 1].at + pos[c]
       /\ length[c] = sent[c][K + 1].len /\ length[c] <= MaxLength
       /\ pos[c] + rem[c] = length[c]
       /\ phase[c] = "first" => pos[c] = 0
       /\ phase[c] = "rest" => rem[c] > 0
       /\ Len(buf[c]) = length[c]
       /\ \A i \in 1..pos[c] : buf[c][i] = Unit(K + 1, i, length[c])

\* However the requests are cut into pieces on their way (the reads at
\* networkinterface.cc:24, 36 and 9 take what is there), the session never
\* loses its place in the stream, and exec_json (line 55) has been called
\* with what the client sent and nothing else.
Framing ==
  \A c \in Conns :
    StreamLayout(c) /\ LogsAgree(c) /\ (Running => AtPosition(c))

\* The network layer implements Rpc: exec_json is called with exactly the
\* payloads of the requests, in order and once each, whatever the pieces in
\* which they arrive, and each call is answered before the next.
Meant(reqs)  == [k \in 1..Len(reqs) |-> Payload(k, reqs[k].len)]
AllPayloads  == {Payload(k, n) : k \in 1..(MaxReqs + 1), n \in Lengths}
RequestsOf   == [c \in Conns |-> Meant(sent[c])]
DroppedConns == {c \in Conns : proc # "running" \/ phase[c] = "done"}

Abstract == INSTANCE Rpc WITH
  Payloads <- AllPayloads,
  requests <- RequestsOf,
  executed <- execLog,
  answered <- replies,
  dropped  <- DroppedConns

ImplementsRpc == Abstract!RpcSpec

\* A query that was sent is answered, unless it is refused for its length or
\* the process ends (networkinterface.cc:21-70, catchtest.cc:7-31).  Each
\* query holds the thread while the server waits for its prefix, and the
\* server waits for one prefix more than the client sends.
QueryAnswered ==
  \A c \in Patient :
    client[c] = "up" ~> \/ Len(replies[c]) = 1
                        \/ phase[c] = "done" /\ length[c] > MaxLength
                        \/ ~Running

\* A connection that a client has opened is served (or the process ends):
\* do_accept is called again after every accept (networkinterface.cc:80-92).
BacklogServed ==
  \A c \in Conns : phase[c] = "backlog" ~> phase[c] # "backlog" \/ ~Running

\* "Register signal handlers so that the daemon may be shut down"
\* (server.cc:261): a signal ends the process, when the clients are those of
\* catchtest.cc.  One that connects and stays silent holds the thread in the
\* blocking read (networkinterface.cc:24), and the handler is never run.
ShutDownBySignal == sig ~> ~Running

=============================================================================
