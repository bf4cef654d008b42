# A specification of the RocksDB service

TLA+ modules, TLC configurations and TLAPS proofs about the service in `src/`: a
server that keeps RocksDB databases and serves JSON requests over TCP.

## The system

One process, one thread. `main` (`server.cc`) reads a configuration file, makes a
`struct config` for every database in it, and runs an asio `io_context`. An
acceptor makes a `session` of every connection; a session reads a length and a
JSON text of that length, calls `exec_json`, and writes back a length and the
reply. `exec_json` finds the config that the request names, opens its database
on the first request, and calls one of its five operations.

| component | state | operations | interacts with |
|---|---|---|---|
| `server`, `session` (`networkinterface.cc/.hpp`) | the socket, `length`, `inp_data_`, `out_data_`, the one outstanding operation | accept, `do_read` (blocking read of the length, then asynchronous), `read_rest`, `do_write` and its handler | clients over TCP; calls `exec_json`; shares the thread with everything else |
| `struct config` (`server.cc`) | `is_open`, `db`, `handles`, `cf_names`, `path`, `options` | `open`, `put`, `get`, `put_cf`, `get_cf`, `write_batch`, `get_handle` | RocksDB, and through it the disk, which outlives the process |
| `exec_json` (`server.cc`) | none | parse, find the config, open, dispatch, format the reply | the configs |
| `read_config`, `options_from_json` | none after start | the members of the file, in the order of their keys, to an `Options` object | jsoncpp's conversions; `config::open` |
| signal handler of `main` | none | delete every `db`, stop | the configs, the `io_context` |
| jsoncpp (`json_value.cc`, `json_reader.cc`, `json_writer.cc`) | a `Value` | conversions, text to value, value to text | every request, every reply, the configuration file |
| asio scheduler (`scheduler.ipp`, `posix_event.hpp`) | `op_queue_`, `outstanding_work_`, `stopped_`, the event, what each thread in `run()` keeps | `run`, `stop`, posting, the reactor's place in the queue | the reactor, which is an element of the queue |
| asio reactor (`epoll_reactor.ipp`) | a `descriptor_state` per socket: queues, `try_speculative_`, registered events | register, start, dispatch, perform, cancel, deregister | epoll (edge-triggered), the scheduler |
| asio signal sets (`signal_set_service.ipp`) | a pipe, the handlers, the registrations and the waiting operations of each set | add, remove, clear, cancel, wait, deliver | the kernel's signals, the reactor of every `io_context` |
| Lua binding (`cf.cc`, `db_open.cc`, `iter.cc`, `writebatch*.cc`) | userdata that hold databases, iterators, batches | an older front end that the Makefile does not build | RocksDB |
| RocksDB | directories, families, contents | | not in the repository |

What is hard in it:

* **the network layer**: the blocking read of a prefix on the only thread;
  requests that arrive in pieces, read by a chain of callbacks that pass a
  pointer and a count along; two heap buffers that are allocated in one callback
  and freed in another; pipelining, resets and closes at any point; signals;
  exceptions; a reply buffer sized by the request.
* **the databases**: opening one with column families takes several writes to
  disk, and the process may end between any two of them; the families that exist
  on disk, the ones in the file (which may be edited), and the positions of the
  handles must agree; failed opens are retried; two configs may name one
  directory; a batch must be all or nothing when a value cannot be converted.
* **the two together**: a request is executed at one moment and answered at
  another, with the requests of other connections between them, and the
  connection or the process may end in between.
* **JSON**: widths of integers, doubles at their limits, bytes to code points to
  surrogate pairs and back, a recursive reader.
* **asio**: wakeups given after the mutex is released; one thread in epoll for
  all; work that is counted per thread and settled later; an edge that epoll
  reports once; descriptor states that are used again while an event of the
  socket before is on its way; one pipe read by several reactors.

`PROJECT.json` lists each of these hazards at its line.

## Modules

| module | what it is |
|---|---|
| `Rpc` | what the network layer promises: requests of a connection are executed in order, once, as sent, and each is answered before the next is executed |
| `Session` | the network layer, handler by handler, with clients, network and signals |
| `SessionProofs` | the inductive invariant of `Session`, its consequences, and the proof that it implements `Rpc` |
| `KvStore` | what `exec_json` promises: a store that serves one request at a time |
| `Database` | configs, `exec_json`, the signal handler, RocksDB's directories, kill and restart |
| `Service` | what the whole service promises its clients: many connections, one store |
| `Server` | connections as `Rpc` has them, in front of `Database` |
| `JsonValue` | jsoncpp's values: types, conversions, the order of keys |
| `JsonChars` | the characters of a string: UTF-8, escapes, surrogate pairs |
| `JsonText` | jsoncpp's reader and writer, between values and tokens |
| `Options` | `options_from_json`, `read_config`, and which options an open uses |
| `LuaBinding` | lifetimes of the objects that a Lua program holds |
| `IoContext` | what an `io_context` promises: each handler is called once, `run()` ends when nothing is left or it is stopped |
| `Scheduler` | asio's scheduler and its event |
| `Reactor` | asio's epoll reactor |
| `SignalSet` | asio's signal sets |
| `DatabaseProofs` | the inductive invariant of `Database`, its consequences, and the proof that it implements `KvStore` |
| `ServerProofs` | that `Server` keeps what `DatabaseProofs` shows, and implements `Service` |
| `SchedulerProofs` | the inductive invariant of `Scheduler`, its consequences, and the proof that it implements `IoContext` |
| `ReactorProofs`, `SignalSetProofs`, `LuaProofs` | the inductive invariants of these modules, and their consequences |
| `OptionsProofs` | the same of `Options`, with the conversions of `JsonValue`, the order of keys, and `JsonChars` |
| `MC*` | the instances of each for TLC |

How they fit together: `Server` EXTENDS `Database` and puts connections in front of
it; that the connections behave so is what `Session` is proved to implement.
`Options` EXTENDS `JsonValue`, as `options_json.cc` calls jsoncpp; `JsonText` EXTENDS
it too, and holds all that recurses. `Scheduler`,
`Reactor` and `SignalSet` stand side by side: the scheduler knows the reactor as
one element of its queue, the reactor knows the scheduler as a set of
descriptors and a count of work, and the signal sets know the reactor as
something that watches a pipe. They justify what `Session` assumes: a handler that
is ready is run, each once, which is `IoContext`'s promise.

### Session

A connection's variables: the client's side (`client`, `sent`, `stream`), the
kernel's (`arrived`: how much of the stream the server can read), and the
session's (`consumed`, `length`, the contents `buf` of `inp_data_`, the read
pointer `pos`, the outstanding count `rem`, the states `inp` and `outb` of the two
allocations). `phase` is the session's one outstanding operation. `execLog` and
`replies` record the calls of `exec_json` and the replies handed over.

| action | code (`networkinterface.cc`) |
|---|---|
| `AcceptHandler` | 82-92, up to the blocking read |
| `ReadPrefix`, `PrefixError` | 24-47, what follows the blocking read, and the `do_accept` after it |
| `FirstReadHandler`, `FirstReadError` | 36-46 |
| `RestReadHandler`, `RestReadError` | 7-20 |
| `DoWrite` (part of the two handlers) | 49-60, with the call of `exec_json` |
| `WriteAll`, `WriteHandler` | 60-69 |
| `Signal`, `SignalHandler` | the pipe of asio's `signal_set`; `server.cc` 289-299 |
| `HeapAbort` | the allocator notices that `out_data_` was overrun |
| `Connect`, `ClientSend`, `ClientClose`, `Deliver` | `query()` of `catchtest.cc`, any other client, TCP |

A handler is one step, because nothing else runs on the thread meanwhile. The
exception is the blocking read: phase `"header"` is a handler that sits in it, and
`ThreadFree` guards every other handler until it comes back. A byte is a *unit*
that says which request it belongs to, so that misframing is visible; the server
uses only the length in what it reads as a prefix. A prefix is one unit: the
blocking read returns it whole or not at all. (A close in the middle of a
prefix is a close before it.)

### Database

`pc` is the place in `exec_json`; a request takes one step for each change to
what is on disk, so that `Crash` can fall between them. RocksDB is not in the
repository and is modelled from how the service uses it: a path may exist,
holds a set of column families, is locked by whoever opened it; an open of all
families succeeds if they are the ones that exist; a failed open sets `db` to null
and clears `handles`; a `Put` or a batch is done or fails as a whole; a read does
not fail, nor does the creation of a new database (the assertion of line 74).
`db = "uninit"` is the pointer that `config`'s constructor leaves alone.
A request is what is left of a JSON text after `parseFromStream`; `Bad` is a value
that `asString` throws on, or a text that the reader throws on, which ends the
process.

| action | code (`server.cc`) |
|---|---|
| `Receive`, `Find` | 305-332 |
| `open`, `OpenPlain` | 54-67, 99-107 |
| `Bootstrap`, `CreateFamily`, `CloseBootstrap`, `OpenAll` | 69-74, 75-83, 84, 86-107 |
| `exec_op` (`Serve`, `Write`, `Get`, `get_handle`) | 109-226, 337-359 |
| `SignalHandler` | 289-299 |
| `Crash`, `Restart` | the process is killed; `main` |

### Server

`conn`, `inbox` and `outbox` are what a connection has at either end: the request that
arrived and is not read, the reply that `async_write` is sending. `serving` is the
connection whose request `exec_json` works on. `Execute` is the session's call of
`exec_json` (only when its last reply is out: the next `do_read` is in the handler
of the write, `networkinterface.cc:63-66`), `Work` a step of `Database` inside it,
`Reply` what `do_write` does with its result, `Answer` the end of `async_write`. `Drop` is
a client that closes or resets; `EndOfProcess` the signal handler or a kill, with
which every connection ends; a request that throws ends it as well.

`Service` is the promise: requests of a connection are served in their order, each
has its whole effect on the one store, or none, at one moment between its sending
and its answer, and an answer is not taken back. `Whole` maps the contents of the
directories to its store, the request that is read or being worked on to its
`asked`, and `outbox` to its `owed`. A client that closes may have its last request
served or not, and is never told: `gone`.

### JsonValue, JsonChars and JsonText

Values are records with a `type`. A real number is twice its value, so that there
are fractions, and the four integer widths are constants: `Double` rounds the
largest integer of 64 bits up, as a double does, while those of 32 bits are exact.
`asInt`, `asBool` and the others give `Throws` where the code throws and `Wild` where its
conversion is undefined. (`NoValueAssumption`: these two are no values.) `InOrder` puts
the keys of an object in the order of `CZString::operator<` (`CZStringLess`), in which
the writer and `options_from_json` go through them.

A text is a sequence of tokens; a string token is a sequence of characters, each
raw, an escape of one letter, or one of sixteen bits. `utf8ToCodepoint` is the
writer's decoder, `codePointToUTF8` the reader's encoder, `Characters` what the writer
makes of a code point, `PairValue` what the reader makes of a pair. `Tokens` is `FastWriter` with
`Escaped` (`valueToQuotedStringN`), `parse` is `OurReader` with `readValue`, `readObject`,
`readArray`, `decodeNumber` and `decodeString`, comments and trailing commas included.
`Exceeds` is the exception at `stackLimit`. After a comment `readObject` takes the next
token for the comma, whatever it is: `Taken` in `MCOptions` says what text the reader
believes to have, `NoComment` where no comment may be, and `GrammarIsKept` holds the
reader to JSON's grammar and to these two.

### Options

One step per member of the file (`ReadMember`, `options_json.cc:8-217`), one for the
end of `read_config` (`ReadConfig`, `server.cc:248-258`), and one for `open()`. An
option holds a number and the name of what set it. `options_from_json` iterates in
the order of keys, so a file may name options that replace one another:
`members` are the keys still to come, and `Least` the next of them. `OptionsAssumption`
is that every key has a place in `KeyOrder`, that files hold values of JSON, and that
`int` reaches 9, the largest label of an enum. Which options a RocksDB function such as
`OptimizeLevelStyleCompaction` sets is a constant, from RocksDB's documentation.
`Absent` is a database without the member: only then does `read_config` not make its
two calls (they follow an explicit `null`, too). `opened` holds what each `DB::Open`
of `open()` is given: one, or two when a database with families is created.

`AsListed` is the form in which the README lists each option (`README.md:18-80`): any
`int`, any `uint64`, the numbers of a label, a `bool`; a key that is not listed is
ignored, in any form. `Described` is what such a value means, a set of labels for the
hint 4, which the README allows and gives no label.

### LuaBinding

`db`, `iter` and `batch` are the C++ objects behind userdata, `of` the database that made
an iterator or a batch, `freed` how often each was deleted. A call succeeds, raises
a Lua error, or is undefined, after which the model stops. A call checks what the
code checks: `get_iter` looks for null, `get_writebatch` for nothing, `close` of a
plain database sets its pointer to null and that of one with families does not.
A family that the database does not have (`UnknownFamily`) gives `get_handle`'s null,
which `put`, `get`, `remove` and `iterator` go through; in a batch it is the default
family.

### Scheduler

`pc` is where a thread is in `run()`; a critical section of `mutex_` is one step, and
`holder` keeps the mutex where it spans several. `waits` and `signalled` are
`posix_event`, `interrupted` and `task_interrupted_` the reactor's. The queue holds
operations and `Task`, the reactor.

| action | code (`scheduler.ipp`) |
|---|---|
| `Run`, `Leave`, `TakeTask`, `TakeOperation`, `Sleep`, `Awake` | 193-213, 448-506; `posix_event.hpp` 101-121 |
| `RunTask`, `TaskCleanup` | `epoll_reactor.ipp` 485-604; 56-79 |
| `Perform`, `HandlerReturns`, `WorkCleanup`, `PushPrivate` | 488-496, 81-104 |
| `Post`, `Push`, `PostContinuation`, `InitTask`, `StartOp` | 182-191, 345-366; `epoll_reactor.ipp` 327-328 |
| `Wake`, `Signal`, `StopAll`, `Stop`, `StopInHandler` | 309-313, 634-659; `posix_event.hpp` 86-99 |
| `SpuriousWakeup`, `Ready` | the condition variable; epoll |

`IoContext` knows no queues, counts, events or reactor: an operation is new, waits,
is posted, is taken by one thread, runs and is done; a thread is out of `run()`, in
it, has an operation or is in its handler, found that nothing is left (`Exhaust`,
which needs that nothing is), and is done. `PlaceOf` maps `pc` to that. What
the scheduler decides by `outstanding_work_ == 0` the promise decides by looking at
every operation.

### Reactor

`avail`, `eof`, `mask` and `listed` are the kernel's; `op_queue_`, `try_speculative_`,
`registered_events_`, `mutex_` and `task_result_` those of a `descriptor_state`. `StartOp` is
`start_op` up to a speculative attempt (239-277), `Enqueue` the rest after the call of
`epoll_ctl` (279-329); `EpollWait`, `Dispatch`, `Dequeue`, `Lock`, `Perform` and `Leave` are the way
of an event from epoll to `perform_io` (485-587, 726-817). `CancelOps`,
`DeregisterDescriptor` and `CleanupDescriptorData` are 331-353, 384-436 and 475-483.
There are fewer states than sockets, so that a `descriptor_state` serves two.

### SignalSet

`Raise` is the kernel with `asio_signal_handler`, `EpollEvent` and `ReadPipe` the
`pipe_read_op` of one reactor, `Deliver` is `deliver_signal`; `Add`, `Remove`, `Clear`,
`Cancel` and `StartWait` are the calls of a set. `AddService` and `WatchPipe` are the two
halves of `add_service`, `UnwatchPipe` and `RemoveService` those of `remove_service`,
which give up the lock in between. A service goes when its `io_context` shuts down
(`signal_set_service.ipp:207-224`), and its sets may still be registered then:
`RemoveService` ends with the operations that `shutdown` abandons (`Abandon`), whose
handlers are not called. A set may be destroyed before or after that (`MayGo`), which
clears and cancels it. `sigaction` and `pipe` do not fail (a failing `pipe` throws,
764-769), and every `io_context` is safe for threads (a second one that is not makes
`add_service` throw, 655-669).

## The runs

| run | question | answer |
|---|---|---|
| `session_safety` | With one arbitrary client that pipelines, cuts, closes and resets as it likes, a signal, exceptions and overruns: are both buffers live when used and freed once, does the session keep its place, does it implement `Rpc`? | yes, with one leak that `BufferDiscipline` describes: the first read's handler does not free `inp_data_` on an error |
| `session_liveness` | Are two clients like `query()` both answered, is every connection accepted, does a signal end the process? | yes |
| `session_reply_fits` | Does every reply fit its buffer? | no: `out_data_` is sized by the request |
| `database_store` | Is the service the store of `KvStore`, and is a database that is open usable, with shared directories, edited families, odd requests and a kill? | yes |
| `server` | Do clients of two connections see one store, whose answers are not taken back, whatever ends in between; does an open never fail unless the process was killed, and the assertion of line 80 hold? | yes |
| `database_killed` | Does an open succeed after a kill? | no: a database whose families were not all created cannot be opened again |
| `database_signal` | Does the signal handler end the process in order? | no: it deletes pointers that were never set |
| `options_read` | Is each option what its last setter in the order of keys made it, is that what a database without families is opened with, and does a file as the README lists it never keep the service from starting? Do conversions agree with the questions about types, is what is written read back, does the reader keep to the grammar, are digits exact? | yes, with the exceptions that the properties name |
| `lua_lifetimes` | Is a plain database or an iterator deleted once at most? | yes |
| `scheduler` | Is each operation in one place, is work counted, is no wakeup lost, is it an `IoContext`; is what was posted run, does `run()` return, does `stop()` end it? | yes |
| `reactor` | Is no queued operation forgotten, does data go to operations in order, is work balanced, does an event of an old socket do no harm? | yes |
| `signal_sets` | Are handlers installed exactly for registered signals, is each number that is read given or counted and never both or neither, does no operation wait while its set has a signal, is a pipe that holds something watched; does a signal in the pipe arrive, although two reactors read it? | yes |

Every property of a passing run has a seeded fault in the model, one that the code
could have had: the definitions marked so. Each property fails when its fault
takes the place of the definition that `PROJECT.json` names.

### Bounds

* **Session.** One connection in `session_safety`: sessions share nothing but the
  thread, and the invariants are proved for every number of connections below.
  Lengths 0, 1, 3 and 4 against a limit of 3 give the empty request, one that
  comes in one piece and one in up to three, and one above the limit; three
  requests give allocation after free and pipelining behind each of these.
  `session_liveness` needs two connections, one to hold the thread and one to wait.
  `MaxSignals` of 1 is what the handler, installed once, can take.
* **Database.** One plain config, one with families and one that shares a directory
  with the plain one, two keys, two values and two starts are the fewest for which
  each hazard has two parties; `MaxCrashes = 1` places the kill at any step.
* **Server.** Two connections, one request each on its way and one being answered;
  one writes to both databases or ends the process, the other writes and reads
  the same places, so that every order of two writers and a reader occurs.
* **Options.** Each of the 42 keys alone with values of every type, and every
  subset of eight that meet one another. The widths of integers are small numbers
  with the relations of the real ones (`MaxUInt = 2 MaxInt + 1`), and values lie at
  each edge and one past it. A `StackLimit` of 4 is reached by some values and
  exceeded by the deepest one. Every text is tried that is one token away from a
  written one, and each of these with a comment at every place.
* **Lua.** A database of each kind, two iterators and two batches: one of each that
  outlives its database, and one of the other database.
* **Scheduler.** Two threads and one that only posts, two operations: one thread
  can be in epoll, the other asleep, and something can be posted from outside.
* **Reactor.** Two sockets on one state, two threads, two operations, one unit of
  room: an operation that overtakes needs two, and a stale event two sockets. The
  kind `except` is in the module and not in the instance: it goes through the
  same steps as a read, without speculation.
* **SignalSet.** `signal_sets` has two `io_context`s with a set each, two signals, a pipe
  with room for two while three occur, so that one finds it full, one wait for each
  set and two pipes in a row. The first set is given both signals and the second one
  of them (`Wanted`), so that one is shared and one is not, and either reactor may take
  what the set of the other waits for. That several operations wait in one set does
  not occur here; the theorems cover any number.

Deadlock is not checked, because all these systems may stop: clients are done, the
process has ended, `run()` has returned, or there is nothing to wait for.

### Fairness

* `session_liveness`: the scheduler of `io_context` takes handlers from a FIFO queue
  and polls the reactor each round, so a handler that is ready again and again is
  run: strong fairness for the handlers. What the kernel was given arrives. A
  patient client (`query()`) does its steps and reads its reply; of other clients
  nothing is assumed, not that they send, read or close.
* `scheduler`: a thread that can go on again and again does, also if it needs the
  mutex for it (strong fairness of `Proceed`: the kernel does not withhold a mutex for
  ever); a thread that may enter `run()` does, and handlers return (weak). Nobody
  has to post anything, and nothing has to become ready.
* `signal_sets`: the `io_context`s run and
  `add_service` and `shutdown` are finished, which run on a thread of their own
  between two locks (weak fairness of `Work`, per service: at most one of the three can
  go on at a time). Signals need not occur and nobody need wait.

The other runs assume no fairness.

## What disagrees with its documentation

Three disagreements have a run that shows them (`findings` in `PROJECT.json`):
`session_reply_fits`, `database_killed` and `database_signal`.

Others were met while translating, and are described here without a run of their own:

* *Keys that are not listed.* "Invalid option keys are ignored" (`README.md:18`), but
  `compaction_style`, which is not listed and whose value is dropped, is read with
  `asInt` (`options_json.cc:128-130`); a string, an array, an object or a number that
  is no `int` throws, and the service does not start. `ListedOptionsStart` and
  `ListedTheorem` name this one exception: without it they do not hold.
* *Options of a database with families.* "The options used in the creation of the
  database are described in config.json" (`README.md:13`), but one with column
  families is created and opened without them (`server.cc:69`, `99`). The last part of
  `LastSetterWins` says so.
* *Shutdown.* `server.cc:261` says that a signal shuts the daemon down. It does among
  the clients of `catchtest.cc` (`ShutDownBySignal`); a client that connects and
  sends nothing holds the only thread in the blocking read
  (`networkinterface.cc:24`), and the handler is never run.
* *A family named twice* in `column_family` fails the assertion of `server.cc:80` when
  the second is created. (`Edited` in `MCDatabase` has such a list; `AssertionHolds`
  is checked for lists without.)
* *Options.* `read_config` calls `IncreaseParallelism` and `OptimizeLevelStyleCompaction`
  after the options of the file (`server.cc:251-252`), which replaces what the file
  said of those they set; `README.md:13-17` does not say so. `LastSetterWins` states
  what happens. A hint of 4 is allowed (`README.md:40`) and is taken for `NORMAL`.
* *Lua.* `close` of a database with families does not reset its pointer
  (`cf.cc:135-136`): a second `close` deletes it again, and `destroy` of a batch runs
  its destructor as often as it is called (`writebatch.cc:49`). `DeletedOnce` is
  about plain databases and iterators, which set their pointer to null; of the
  others the model says that a second call is undefined, and nothing in the code
  could be held against that. A family that does not exist is a null handle
  (`cf.cc:43-54`).
* *64 bits.* `asInt64` and `asUInt64` accept the double just past the largest integer
  (`json_value.cc:708`, `729`), whose conversion is undefined; the comment at 1328-1330
  explains the case for `isUInt64`, which excludes it. `ConversionsAgree` names the two
  values.
* *Signal sets.* `basic_signal_set.hpp:83` says that one handler is called for each
  set; all operations that wait in a set are completed
  (`signal_set_service.ipp:627`). 69-70 say that notifications are queued; one that
  finds the pipe full is lost (`ipp:81`). 76-78 say that removing a signal
  discards its notifications; one that is in the pipe then is delivered if the
  signal is added again before it is read (`ipp:493`).
* *Read after the end.* A reactor read that follows one which reported the end of
  its stream is queued and not tried again: `try_speculative_` is off and epoll has
  nothing more to report. `NoOpForgotten` excludes it; the service closes instead.
* *Comments in JSON.* After a comment the reader takes any token for the comma
  between members (`json_reader.cc:1500`), and an array with nothing but a comment
  in it is refused. Bytes that are not UTF-8 come back as replacement characters.
  A request nested deeper than `stackLimit` throws out of `exec_json` and ends the
  process.

## The proofs

A theorem holds for every value of the constants that satisfies the assumption
named in the module: any number of connections, databases, threads, sockets,
operations, and so on, where a run has two. TLC evaluates each assumption in a
run. The invariants were checked by TLC before they were proved, and each proof
has one step per action.

| theorems | establish | with |
|---|---|---|
| `SessionProofs`: `TypeCorrect`, `FramingHolds`, `BuffersHold` | `TypeOK`, `Framing`, `BufferDiscipline` | `IInv` |
| `SessionImplementsRpc` | `Session` implements `Rpc` | `IInv` |
| `DatabaseProofs`: `TypeCorrect`, `OpenIsSafe` | `TypeOK`, `OpenIsUsable` | `IInv` |
| `NeverAsserts` | `AssertionHolds` | `IInv`, `NamedOnce` |
| `OpensTheorem` | `OpensUnlessKilled` | `IInv`, `MadeAsWanted`, `KeptConfig` |
| `StoreImplemented` | `Database` implements `KvStore` | `IInv` |
| `ServerProofs`: `WholeOpens` | `OpensUnlessKilled` and `AssertionHolds` with connections | `SInv`, `KeptConfig` |
| `ServiceImplemented` | `Server` implements `Service` | `SInv` |
| `SchedulerProofs`: `TypesTheorem`, `PlacesTheorem`, `WorkTheorem`, `WatchedTheorem` | `TypeOK`, `OnePlaceEach`, `WorkIsCounted`, `QueueIsWatched` | `SchedulerInv` |
| `ContextImplemented` | `Scheduler` implements `IoContext` | `SchedulerInv`, `NothingIsLeft` |
| `ReactorProofs`: `TypesTheorem`, `OwnTheorem`, `WorkTheorem`, `OrderTheorem`, `ForgottenTheorem` | `TypeOK`, `OwnOperations`, `WorkBalanced`, `DataInOrder`, `NoOpForgotten` | `ReactorInv` |
| `SignalSetProofs`: `TypeCorrect`, `HandlersMatch`, `WaitersServed`, `PipesMatch`, `PipeTheorem`, `NotificationTheorem` | `TypeOK`, `DispositionMatches`, `NoWaiterWhileQueued`, `WatchesOpenPipe`, `PipeIsWatched`, `NotificationsKept` | `IInv`, `EachWatches` |
| `LuaProofs`: `PlainDeletedOnce` | `DeletedOnce` | `Lifetimes` |
| `OptionsProofs`: `LastSetterTheorem`, `ListedTheorem`, `ConversionsTheorem` | `LastSetterWins`, `ListedOptionsStart`, `ConversionsAgree` | `OptionsInv` |
| `KeysAreOrdered` | `CZStringLess` is a strict total order of the strings of bytes | |
| `CodePointsComeBack`, `CharactersComeBack`, `AnyStringIsReadable` | what is written for a string is what is read, and can be read | |

**Session.** `IInv` is `TypeOK` and, for each connection, `StreamLayout`,
`LogsAgree`, `AtPosition` and `BuffersOf`. `TypeOK` is not inductive by itself.
That a length read from the stream is the length of a request needs that the
session stands at the beginning of one (`AtPosition`), which needs how requests
lie in the stream (`StreamLayout`, also after a reset cut its end off), and that
what `exec_json` is given is a full buffer needs that pointer, count and length
agree. `Untouched` takes care of the other connections, `LayoutAppend` and
`LayoutCut` of a send and of a reset, `FilledBuffer` and `FullBuffer` of a read.
In the refinement a send, a call of `exec_json` and a handed-over reply are the
steps of `Rpc` with the same names, an end of the session or process is a
`Drop`, and everything else leaves `Rpc`'s variables alone.

**Database.** Between two steps of `open()` the disk is in a state that no
request sees. `IInv` says what it is: `OpenSteps` (which path is locked and
which families it has at each `pc`: while they are created, exactly
`Created(n)`), `LocksAreHeld` (a locked path has an owner that is open, or being
created) and `OpenHasAll` (a database that is open has its lock, and its handles
are the families of its path, in the order of the names). `get_handle` finds
handles by their position among the names, so the lemmas about `Others`
(`OthersKept`, `OthersNames`, `OthersBehindDefault`, `SameFamilies`) carry much
of the proof: what is left of a list without the default name has the same
names, each once if it had, and the two places that filter agree.

That `open()` succeeds is not true of every file. `KeptConfig` names what it
takes: each database has a path of its own, a plain one has `create_if_missing`,
no list names a family twice but for the default one (`NamedOnce`), and a file
that is edited between two runs keeps the families of a database, in whatever
order. The instance of the run `server` satisfies it, which TLC evaluates
(`InstanceKeepsConfig`); that of `database_store` does not, and what is checked
there does not need it. `MadeAsWanted` is then an invariant as long as nothing
was killed: each path has the families that `open()` asks for, or none. A signal
or a request that throws can end the process over and over: both are between two
requests, never within `open()`.

In the refinement of `KvStore`, the end of `exec_op` is the step that reads or
writes the store, and every other step leaves it alone, those of the creation of
a database included: what a kill leaves half-created has no contents yet.
`WellFormed` names the requests that must be answered from the store; it asks
for a key, a value or items only of the operations that read these members.

**Server.** `DatabaseStep` and `WholeIsDatabase` show that a step of the whole
is a step of `Database` or leaves it alone, so its theorems carry over.
`ServingTies` adds that `exec_json` works for at most one connection, which has
no reply on its way. For `Service`, what a connection has asked is what is in
`inbox` and what is served, at most two in a row (`OneOrTwo`); a request leaves
that sequence when `exec_json` returns (`ServedLeaves`), and not before.

**Scheduler.** The invariant says where each operation and the reactor are.
`TaskOnce` and `RunsOnce` are the two exclusions; `PostedOnce`, `QueuesDistinct`
and `Stages` place each operation; `Ordered` is needed because an operation may
wait in the reactor although it is already in a queue, and says that what came
from there lies before the reactor's own place; `PrivateUse` ties the private
count of a thread to its private queue until `work_cleanup`. `WorkIsCounted`
sums over the threads. The library folds over sets with an operator as
parameter, which the provers cannot instantiate, so `Sum` is defined here by the
function that it is, and shown to exist for every finite set.

`Waking` is why no wakeup is lost, and is four facts about who is about to look
at the queue when it is not empty: while the event is not signalled someone has
the mutex; while a thread sleeps, another is in the loop, is about to signal, or
is woken already; while the reactor blocks, one is in the loop or sleeps, and so
is covered by the second; and a reactor that was interrupted is on its way back.
`posix_event` is signalled after the mutex is released, so each of the
four leans on the others.

For `IoContext`, the steps of a thread are those of the promise, and what it does
to queues and events stutters. The one that needs an argument is the end of
`run()`: it looks at `outstanding_work_`, which lags behind what the threads count
privately, and the promise is about all operations. `NothingIsLeft` says why zero
is the truth: whoever counts privately has an operation that no thread counts
privately, the one whose handler it is in or that it still accounts for, and
`CountOfOthers` says that such an operation is in the common count. With zero there,
nobody counts privately, and `WorkIsCounted` leaves no operation.

**Reactor.** An edge is reported once, so what a socket has must be minded by
somebody at every moment. `EdgesKept` says so: for each socket and kind that
epoll was asked for and that is ready, epoll will still report it, its event is
with a thread that will perform it, a thread has the mutex and will look again,
the end of the stream was reported before, or `try_speculative_` is on, so that
`start_op` will try the next operation (`Minded`). The last case is the reason
for most of the rest: it holds only while nobody has already tried and is about
to enqueue (`StartsDirect`), which needs that whoever is within `start_op` has
the mutex (`Locked`), that the queue of a descriptor_state has operations of its
present socket (`Queues`, `Owned`), and that no event is handled twice
(`Dispatching`). `NoOpForgotten` follows: a queue that is not empty leaves only
the first four, and `NoOpForgotten` excludes the fourth. `DataInOrder` needs
`Started` (a new operation goes behind what is queued, and is tried only when
nothing is), `Popped` and `Ranks`. `Step` is `Next` with each outcome of an
action on its own, and the proof follows it.

**SignalSet.** The strengthening for the handlers is `CountsHolders`:
`registration_count_` of a signal is the number of sets that have it, and asio's
handler is installed while that is not zero. Without it neither the type of the
counter (it is decremented) nor `DispositionMatches` (the last one restores the
default) is inductive. `PipeIsWatched` says that some service will read what is
in the pipe. That is not inductive: the one that would may be destroyed.
`EachWatches` is: as long as the pipe is not empty, every service that watches
it has an event to come or is reading, because a write gives all of them an
event and a read does not end before the pipe is empty.

`NotificationsKept` is about steps: it counts how often a number is in the pipe and
with its readers, how often the handlers of a set got it, and how often it is counted
for the next operation. `AppendPlaces`, `TailPlaces`, `NumberPlaces` and `CompletionPlaces` say
what a step does to each count: a read moves a number from the pipe to the reader
(`ReadKept`), a delivery takes it out and gives it to each operation that waits or
counts it once (`DeliverKept`), and an operation that starts takes one that was
counted (`StartWaitKept`). A pipe that is opened or closed with numbers in it loses
them, and then the set's service is not in the list (`ServiceKept`).

**Lua.** The pointer of a plain database or an iterator is null exactly after
its object was deleted.

**Options and JSON values.** `OptionsInv` says that the keys that were read come
before those that were not (`LeastIs`: the next key is the least, and `KeysOrdered`
makes that unique), that each option is as the last of the keys that were read left
it, and that a failure has a value that does not convert. `OneMore` is the step: the
new key is the greatest of those read, so it is the last setter of what it sets
and of nothing else; `OpenedRight` carries the result to each `DB::Open`. `ListedForms` and
`ListedConverts` say of each kind of option that a value as the README lists it
converts, over the whole range of its width, and to what: that is `ListedTheorem`,
and the part of `LastSetterTheorem` about values. `ConversionsTheorem` goes through the
kinds of values (`RealsAgree`, `IntegersAgree`, `OthersAgree`) with `Cut` for the
fractions and `Limits` for the two integers that a double rounds up; a member may
be an array or an object of any depth, because no conversion looks into one.

`options_from_json` relies on `std::map` to go through the keys in one order, and
that on `CZString::operator<`: bytes, then length. `LessIsParted` gives the place where
two strings part, `KeysAreTotal` finds it for any two that differ (the least place
where they do), and `KeysAreOrdered` is the strict total order. `Options` takes
that order of its keys as a constant.

**Characters.** A string of the store goes out by `utf8ToCodepoint` and
`Characters`, and in by `PairValue` and `codePointToUTF8`. `Encodings` and `Decodings`
say what each does by length, `Parts` that the pieces of 6 bits make up a number,
`Within` that the bytes are where they were put, whatever is before and behind.
`CodePointsComeBack`: a code point that was encoded is decoded as itself.
`CharactersComeBack`: the characters for a code point stand for it, as a byte, as an
escape that is no half of a pair, or as a pair. `AnyStringIsReadable` is about bytes
that are not UTF-8: what is written for them still has four digits to an escape and
two halves to a pair (an encoded surrogate would not, and is replaced), and the
decoder does not look past the end. It covers code points up to 21 bits, which
four bytes can hold though Unicode does not.

What stays with TLC, and why:

* Liveness is beyond the prover: `QueryAnswered`, `BacklogServed`,
  `ShutDownBySignal`, `PostedIsRun`, `RunReturns`, `StopEndsRun`,
  `SignalArrives`. (That no wakeup, no edge and no byte in the pipe is lost are
  the safety halves of the last four, and are proved.)
* `WrittenIsRead`, `GrammarIsKept` and `DigitsAreExact` are about operators that
  recurse over values and texts: what they compute for every input needs induction
  over data. The theorems about characters are the part of the first that does
  not recurse, and `KeysAreOrdered` is about the order in which members are written.

## Not modelled, and why

* Of jsoncpp: how characters make tokens, real numbers as text, error messages,
  layout, the order of values (`Value::operator<`, which nothing here calls), and the
  settings of its builders that the service leaves alone.
* Of asio: timers (the service sets none), failures of `epoll_ctl`, `pipe` and
  `sigaction`, resets by a peer in the reactor, flags of signals, fork, moving
  a socket, `one_thread_` and the scheduler's own thread, `poll` and `run_one`; the
  composed operations, the resolver, TLS, serial ports, coroutines, executors and
  the other platforms, which the service does not use. These are most of the
  lines in the repository; the files that the service's behaviour passes through are
  modelled.
* RocksDB, which is not in the repository, beyond how it is used. Durability
  when the machine goes down: `WriteOptions()` does not sync (`server.cc:194`).
* Byte order and the encoding of the length; a client that sends a prefix byte
  by byte differs only in how long the thread is held.
* Errors of `async_accept` (line 85 ignores them and accepts again).
* The contents of Lua values, and what the calls of the binding store.
* Logging to standard output, the build files and the container image.

## Plan

Every module above has its runs, and every safety property of `Session`,
`Database`, `Server`, `Scheduler`, `Reactor`, `SignalSet`, `LuaBinding` and `Options` is
proved, with the four refinements (`Rpc`, `KvStore`, `Service`, `IoContext`).

What would come next:

1. The scheduler and the reactor are proved side by side. A module that composes
   them would show that what the reactor posts is what the scheduler counts
   (`work` against `outstanding_work_`).
2. `Session` has one thread and lets any handler that is ready run. With
   `IoContext` in place of that, the two could be composed as `Server` composes `Rpc`
   and `Database`.
3. Failures of `epoll_ctl` and the settings of signal flags, which the service
   does not use.
