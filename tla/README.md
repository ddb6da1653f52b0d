# Specifications of munx

munx (`munchkinglang`) is a language with a bytecode compiler, a virtual machine
with a JIT, native back ends, and *pipes*: named queues, subscriptions and
two-peer channels that connect separate processes through a small broker, the
**pipe hub**. This directory holds TLA+ models of the parts of the program whose
correctness depends on the order of events, the TLC runs that check them, and
proofs for TLAPS. Paths are relative to the repository's parent, as in
`src/include/pipe_hub_daemon.hpp`; `PROJECT.json` maps every definition to the
lines it stands for.

## 1. Inventory

| Component | State | Operations | Hard part | Correct when |
|---|---|---|---|---|
| **Pipe hub daemon** `pipe_hub_daemon.hpp` | clients with their attachments and unread input; per pipe the lists of readers, writers and peers, the backlog, the parked offer, the RecvReady mark | accept, hang-up, one handler per frame, delivery, backlog flush, exit | handlers write to several sockets, each write may stall or kill the process, and they close clients while they walk over lists of clients | nothing names a client that is gone; a queue message is taken once; backlog only for want of readers; per-publisher order; one reply per request; two peers |
| **Pipe hub client** `pipe_hub_client.hpp` | the connection, the reader thread, framing state, flags of the request being waited for, delivery queues | connect, attach, detach, publish, send, receive, disconnect, reader loop | a reader thread and callers share a socket, two mutexes and eight flags; reconnection | each frame is decoded once, whole; each caller gets its own reply; no waiter sleeps for ever |
| **Transport and life cycle** `pipe_hub_transport.hpp`, `run_daemon`, `connect_locked` | lock file, pid file, socket path, listening back-log | spawn, connect, clean-up | races of several starting clients with a daemon that is leaving | at most one daemon; lock, pid file and socket agree on it; a hub leaves after its clients |
| **Pipe objects** `vm_pipe.hpp` | handle, mode, FIFO descriptors | open, insert, extract, close | errors are recorded, not thrown, and the code goes on | – |
| **Wire protocol** `pipe_hub_protocol.hpp` | – | encode, decode, framing | partial frames | decode is the inverse of encode |
| **VM** `vm.hpp`, `vm_value.hpp` | frames, operand stacks, globals, pending fault, monitors, threads, locks | ~100 opcodes, traps, thread spawn and join | faults travel through calls and monitors; threads | a fault reaches the innermost handler with the right stack depth; joins miss no thread |
| **JIT** `jit/` | warm-up counters, profile, code cache | interpret, profile, compile, rewrite | code is rewritten while frames run it, and moves under its jumps | optimised code behaves as the interpreter |
| **Bytecode compiler, decoder, vectoriser** | code buffers, patches | translation | jumps, breaks and operands through every nesting | the code does what the text means |
| **Front end** `lexer.hpp`, `parser.hpp`, `type_checker.hpp`, `generic_reflexpr.hpp` | scopes, tables | recursive descent, tree walks | size, not order | – |
| **Native back ends, runtime** `native/` | MIR functions; a second hub client in C: one mutex, a reader thread, flags | build, optimise, emit | a re-implementation of the client protocol | the same as the VM |
| **Analysis host** `analyze*` | open documents, versions, snapshots | open, change, query | stale snapshots | answers belong to the last version |

The VM reaches the hub only through `pipe_object` (calls), `pipe_object` through
the one `client` of the process (calls under `connection_mutex_`), the client
through one stream socket (messages). Processes share nothing but the hub, and
the three files of the pipe directory with which they start it.

`PROJECT.json` lists every component with its status, and under `hazards` what
in this code is hard to test, at the line where it bites, with the property that
covers it or the reason why none does.

## 2. Plan

The hub comes first: it is the one part of the program in which several
processes interact, and its tests start two or three processes and look at what
they print.

1. `HubDaemon` with its properties and proofs, and `HubBroker`, what it promises of
   its pipes: section 3.
2. `HubLifecycle`: the lock, pid file, socket path, listening back-log, spawn,
   `run_daemon`, `connect_locked`, `connect_hub`, with its proofs: section 4.
3. `HubClient`: the threads of one process, its reader thread, the flags and
   mutexes, framing state, reconnection: section 5.
4. The language of one thread: `MunxCompiler`, `JitOptimizer`, `MunxMachine`,
   against the meaning of the program text, `MunxMeaning`, with the proofs of
   call depth and fault collection: section 6.
5. The native compiler from syntax tree to object file, against the same
   meaning, with the proofs about stack frames, and `NativePipe`, the hub's client
   in a compiled program: section 7.
6. The parser against a writer of texts: section 8.

Left, in this order:

7. VM threads: spawn and join, lock objects, the code cache shared by threads;
   the hand-over at the end of a warm-up as a run of its own.
8. More of the language in `MunxCompiler` and `MunxMachine`: arrays and maps,
   objects, destructuring; the scopes of the type checker; the lexer.
9. The analysis host.

An abstract dialogue of two peers, beside the lines of `HubBroker`, would be stated
for handles of channels only.

## 3. The model of the daemon

`HubDaemon.tla` models `run_daemon_posix` and the handlers of `daemon_state`
together with the processes that are connected to them.

The daemon is a single thread, but its handlers are not atomic: each write to a
socket may wait up to 500 ms for room, and may end the process with SIGPIPE when
the peer has closed. Meanwhile clients read, close and die. So a handler is
split at its writes. `Serve*` takes a frame off the input and does what the
handler does before its first write; what remains is left in `todo`, and the
`*Step` actions perform one write, or one turn of a loop, each:

| Code | Model |
|---|---|
| `run_daemon_posix`: accept, POLLHUP, exit | `Connect`, `HangUp`, `Exit` |
| `handle_message`: Attach, Detach, Bye, Publish, ChannelOffer, ChannelRecvReady | `ServeAttach`, `ServeDetach`, `ServeBye`, `ServePublish`, `ServeOffer`, `ServeRecvReady` |
| `send_ack`, `send_error` | `AnswerStep` |
| Accept and Busy written by `handle_channel_*` | `NotifyStep` |
| `flush_pending` | `FlushStep` |
| `deliver_to_readers`: its loop; the queue reader | `CopyStep`; `QueueStep` |
| draining the backlog onto a peer | `DrainStep`, `AnnounceStep` |
| `publish_message` to the other peer; to the backlog; on to the ready peer | `PeerStep`; `ParkStep`; `PushStep` |
| return to `process_client_input` with its reference to the client | `ResumeStep` |
| SIGPIPE in `write_all` | `SigPipe` |
| `client_state::attachments`, the four lists, `pending`, `offer_from`, `recv_ready` | `att`, `chan[k].list`, `.pending`, `.offer_from`, `.recv_ready` |
| the client library under `connection_mutex_` | `Send*`, `RetryOffer`, `ReadFrame`, `ReadEof`, `CloseEnd`, `Die`; `req[c]` is the request being waited for |

`close_client` inside the loop over `broadcast_readers` erases an element of the
vector being iterated. What then happens in practice is that the vector shifts:
for each entry of the closed client (it has one per handle) the next reader may be
skipped and a stale last element visited again. `Shifted` holds every such outcome,
and, as the lists are bags, some that the order of the vector would exclude. Where a reference into an erased map entry is
used (`maybe_erase_channel` under `deliver_to_readers`; the client erased by a
failed Ack under `process_client_input`), the process may go on or crash:
`Dangling`.

A client is a slot of the descriptor table, since `assign_id` uses the
descriptor: a slot freed by `close` is taken by the next `accept`.

Abstractions:

- A frame is written whole or not at all, and reads are of whole frames.
- A list of clients is a bag. The queue reader the cursor selects is any one.
  The order of the list has no other effect.
- `Connect` is `connect` and `accept` in one step; a connection that still
  waits in the back-log of the listening socket belongs to `HubLifecycle`.
- Hello and ChannelDataAck set fields nothing reads, and are left out.
- A handle whose attach is refused is dropped at once, and its destructor
  detaches: `ReadFrame`.
- Other threads of a client do not slip between the Accept and the Publish of
  one `channel_send`, nor into its back-off; in `HubClient` they do.
- After an Accept that could not be written, frames already buffered of that
  client wait for its next input. That client holds its connection mutex, so
  there are none to come.
- An absent channel and an empty one are the same state.
- The build for Windows (a second event loop with the same handlers) is not
  modelled.
- Payloads are numbers with their publisher. `dlv` (what each process was written,
  with the pipe and the kind of handle) and `acked` are history variables: no action
  reads them.

`HubDaemonProps.tla` states the properties. Those with a meaning beyond one
handler are `NoGhosts` (descriptors are reused: an id left behind would hand one
client's messages to another), `TwoPeers` (proved; no run checks it), `BacklogOnlyWithoutReaders`,
`ConsumedOnce`, `PublisherOrder`, `AckedIsKept`, `EverySubscriberServed`,
`OneReplyPerRequest`, `AnnouncesPeer`, and the liveness properties
`RequestsAnswered` and `ParkedOfferDecided`.

`HubBroker.tla` is what the daemon promises of its queues and topics, without
connections, frames or handlers. A pipe `k` is a line, `line[k]`. A message that has
not reached the hub (`fresh`) joins one line, at its end, once (`Accept`). From the
head it is given to one of the queue readers (`Give`); while it is at the head,
subscribers are given copies (`Copy`), and it is done with if there is no queue
reader (`Spend`). It is lost only if there is no room for it and nobody to read it
(`Refuse`), with a reader that does not take it (`Lose`), or with the hub (`Stop`).
`PipesAreLines` says that the daemon implements this, under the mapping:

| `HubBroker` | `HubDaemon` |
|---|---|
| `up` | `status` is "running" |
| `fresh` | `NotReceived`: numbers not used yet, or in an offer or a Publish frame the daemon has not read |
| `readers[k]` | `QueueReaders(k)`: the list of queue readers |
| `line[k]` | `Waiting(k)`: the message the handler is about to spread, the backlog, a message about to be parked |
| `got` | `dlv` |

The hard part is the flush. `flush_pending` takes a message off the backlog and then
writes it, with several writes in between, some of which close readers; the message
is in the hand of the handler meanwhile, still the head of its line. Who is sent a
copy, and how often, is left to `EverySubscriberServed` and `ConsumedOnce`.

## 4. The model of the hub's start and end

`HubLifecycle.tla` models the processes before they talk through the hub and
when they leave it: `run_daemon` on one side, `ensure_connected`,
`connect_locked` and `disconnect` on the other. What they share is `hub.lock`
(`lock`, the holder of its flock), `hub.pid` (`pidfile`) and `hub.sock` (`sock`).

| Code | Model |
|---|---|
| `run_daemon`: the two looks at the pid file | `CheckAlive` in `"start"` and `"check"` |
| `hub_lock::try_acquire`, `release` | `TakeLock` of a daemon, `TryLock`, `Unlock` of a client; `End` at the end of a process |
| writing the pid file; `hub_listener::open` | `WritePid`; `OpenListener`, in two and three steps |
| the poll loop, as far as clients come and go | `Accept`, `HangUp`, `StopServing` |
| `listener.close()`, the two `remove`, the return | `CleanUp`, `Finish` |
| the loops of `connect_locked` | `phase[c]`: 1 and 2 before the lock, 3 when it is taken, 4 and 5 under it, 6 after the spawn, 7 when a hub was seen alive |
| one attempt: `hub_endpoint_ready`, `connect`, `hub_process_alive`, `remove` | `Exists`, `Connect`, `Refused`, `Unlink` |
| the test that ends a loop; the last one before the spawn | `Poll`; `CheckHub` |
| `spawn_hub_daemon` | `Spawn` |
| a second connection while `reader_` is joinable | `Leave` of a client that is `joinable` |
| a kill, SIGPIPE | `Crash`, `Killed` |

What the code does, and a reader may not expect:

- `throw_error` only records a fault when the virtual machine is dispatching, so
  `connect_locked` goes on behind it: from loop 3 into the part that needs the
  lock, without the lock, and from loop 7 back into loop 6.
- `kill(pid, 0)` succeeds for a daemon that has ended and that its parent has not
  waited for. Nothing waits, so a daemon that was killed looks alive until the
  client that spawned it ends (`"zombie"`, `parent`).
- The descriptor of `hub.lock` is inherited by the daemon. If the client dies
  before it unlocks, the daemon holds the lock through it, and cannot take it.
- A client whose connection has ended keeps a joinable `reader_`. It reconnects
  and then terminates, because the new thread is assigned to it.

Abstractions: `hub_process_alive` is one step; a process id is not reused; the
directory, the lock file and the socket can be created; `posix_spawn` fails only
when no process is left; the listening back-log has room for all clients. A loop
of 400 attempts is a loop that may give up at any attempt; with `Patient` it
does so only when no other process is about to change the files, which is what
10 seconds are for.

`OneHub`, `HubSeenAlive` and `EndpointOfHolder` say that the lock, the pid file
and the socket path agree on who the hub is, whatever races and kills happen;
`HubExits` that a hub does not outlive the clients it has had. A connection in
the back-log when the daemon leaves is lost: the client sees the end of its
stream (`Eof`). The daemon that nobody ever connects to is not covered by
`HubExits`: it serves for ever, since `served_clients` stays false.

## 5. The model of the client

`HubClient.tla` models class `client` inside one VM process. Threads of the
program call it through handles (`pipe_object`) and share its one connection. A
thread that waits for a reply reads the socket itself, under
`connection_mutex_`, and the reader thread reads it otherwise. The hub and the
processes behind it are the environment (`HubAnswers`, `HubDecidesOffer`,
`HubDelivers`, `HubDies`): requests are answered in the order of their arrival,
an offer when the other peer likes, messages come while the process is attached.

| Code | Model |
|---|---|
| `pipe_object::open`, `insert` and `channel_insert`, `extract` and `channel_extract`, `close` | `Open`, `Insert`, `Extract`, `Close`, with the handle's two mutexes in `InUse` |
| `ensure_connected` | `AlreadyConnected`, `Connect`, and `StartReader` after the mutex is released |
| `attach` | `Reserve`, the request, then `Refused`, `Abandon` or `Done` |
| `wait_for_hub_reply`, `wait_for_channel_opcode`: up to the write | `Request` (`ForAck`, `ForChannel`, `NotConnected`) |
| their pumps, `read_frame_locked`, `read_exact_locked` | `PumpReads`, `PumpEnds`, `PumpLost` |
| `wait_for_hub_reply` after the release of the mutex, and its callers | `LookForAck`, `LookForHub`, `Refused`, `Done` |
| `wait_for_channel_opcode` after the release of the mutex, and `channel_send` | `StopOffering`, `Refused` or `OfferStands`, `LookForReply`, `Accepted` or `Collided` |
| `throw_error` inside the dispatch of the VM; the end of a call | `GoesOn`; `Completes`, `Returns` |
| `~pipe_object` of a handle whose `open` failed | `Drops`, then `Detach` and `Forget` as of any handle |
| `receive_bytes` | `Find`, `Receive`, `ReceiveNothing` |
| `channel_recv` | `Announce`, `DrainQueue`, `DrainNothing`, `Acknowledge`, and a turn of its own under the mutex: `OwnReads`, `OwnTurn`, `OwnNothing` |
| `detach`; `disconnect` | `Detach`, `Forget`; `Disconnect`, `HangUp`, `CloseAndJoin` |
| `reader_loop` | `ReaderPolls`, `ReaderYields`, `ReaderReads`, `ReaderHandles`, `ReaderStops`, `ReaderCloses`, `ReaderEnds` |
| `handle_message`, `close_all_queues` | operators of those names |
| `queues_` and the `shared_ptr`s to its queues | `client.queues` (a name to an index) and `client.store`: a queue whose name was erased is still there for a thread that holds it |

Where a step ends: wherever the code releases `connection_mutex_`, sleeps or
waits, and before each access to a member that another thread writes without a
mutex. `waiting_for_ack_`, `ack_error_`, `channel_reply_received_` and
`channel_reply_` are such members: they are read, and the waiting flags reset,
after the mutex has been released (lines 456-480, 517-533), each in a step of its
own, so another thread's request may lie between any two of them. `running_`, `shutdown_`, `connected_` and
`reader_paused_` are atomics.

`throw_error` only records a fault while the VM is dispatching
(`vm_value.hpp:335-344`), and the call goes on past it. `task.fault` is the fault on
record, and a later one replaces it. So a request and a `RecvReady` are written even
where the connection is gone (`NotConnected` is recorded by `Request` and
`Announce`); an offer that was refused, not answered or answered with something else
is followed by the publication, since only `ChannelBusy` is not (`Accepted`: its
reply is `Ack` then); an attach that was refused erases the queue (`Refused`),
and one that failed in any way drops its handle, whose destructor sends a `Detach` of
an attachment the hub may not have and erases the queue again (`Detach`, `Forget`).
The call returns what it recorded last (`Completes`).

A frame is two pieces on the socket, `head` and `body`. The reader thread's read
may end between them, and then `have_header` keeps the place. `WholeFrames` would
forbid that. `wait_for_hub_reply` clears `input_` and `have_header_` before it
pumps, and the pump expects a length: if the reader had read a head already, the
body is taken for a length. The process is then `garbled`, and the model stops
there. A write to a hub that has hung up is a SIGPIPE, which kills the process
(`Writes`), since nothing ignores the signal.

Properties (`HubClientProps`):

- `NothingLost`: three parties take messages off the socket (the reader, a pump,
  `channel_recv`), with the reader holding decoded messages outside the mutex.
  Every message sent is in exactly one place, at every moment. The code destroys a
  queue, with what is in it, when its name is erased and no thread holds it; the
  model keeps it in `store`, so the property says which queue a message is in: the
  one its side has, unless the program closed a handle of that side or failed to
  open one (`GivenUp`). Only then are messages dropped.
- `AnswerIsOwn`: a call returns what the hub answered to *that* call (`hub.said`,
  forgotten when a thread asks, set when the hub acknowledges or refuses). It does
  not hold for calls that `overlapped`: another thread asked while this one had an
  answer it had not yet looked at. The property says that this is the only way while
  the hub lives and sends no answer that nobody waits for (`hub.stray`): to an offer
  whose pump gave up (`GivesUp` with another thread's acknowledgement in), or the
  `Error` for a `RecvReady` on a channel that is not attached. For an offer it speaks
  of the reply on which `channel_send` backs off or publishes.
- `NobodyWaitsForTheDead`: after `reader_loop` has closed the queues nobody waits
  in `receive_bytes` on an open one. The exception written into it is real: a
  queue that a refused attach or a sibling handle's `detach` erased (lines 201,
  223) is not in `queues_` any more, nobody closes it, and a thread that waits on
  it waits for ever. A thread that has connected again and is about to start a
  second reader (`start`) is left out: its next step ends the process (`OneReader`).
- `OneReader`: after the hub hung up, `ensure_connected` assigns to a `reader_`
  that is still joinable, and the process terminates. It happens in no other case.
- `NullMeansOver`: `null` from an `in` pipe, on which programs end their loops,
  comes only when the hub is gone.

Not claimed: an order. The reader handles its messages after it has released the
mutex, and a pump may handle a later one before that (line 746), so two messages
of one queue may change places inside the process.

Abstractions: one pipe of each kind, with names of their own, so the fall-back of
`handle_message` to another queue of the same name is never taken; connecting
succeeds (section 4 has the ways it does not); a write that fails after 500 ms is
left out, and so is the `Hello` frame; a message is `<<side, number>>`.
`Disconnect` is the destructor of `session` in the thread that ran the program,
after the others have been joined.

## 6. The language: compiler, JIT, machine

Five modules are translated from the code, each from one stage a program goes
through, and one from the description of the language:

| Module | Stands for |
|---|---|
| `MunxSyntax` | syntax trees, which the native compiler starts from as well (`ast.hpp`) |
| `MunxBytecode` | values and their conversions (`vm_value.hpp`), opcodes and their sizes |
| `MunxCompiler` | `code_emitter`: syntax tree to code |
| `JitOptimizer` | `execution_profile`, `apply_profile_optimization`, `optimize_bytecode`: code to code |
| `MunxMachine` | `virtual_machine`, its interpreter and its JIT tier |
| `MunxMeaning` | the reference: the statements evaluated on the tree, with no code, stack, monitor or tier |

`MunxMachineProps` states what can be said of the machine whatever it runs,
`MCMunx` compares it with `MunxMeaning`, and builds the programs.

**Code.** A blob is a sequence with a slot for every byte of the real encoding,
so pcs are those of the program, and a jump into the middle of an instruction is
a state of the model. The compiler's helpers keep jumps relative until a blob is
complete; the code patches absolute offsets, with the same result. `PatchBreaks`
is `loop_breaks_`: a break belongs to whichever enclosing loop ends next.
`EmitTrips` is `try_emit_unrolled_loop`, with its table of constant counters.

**Machine.** One action per opcode, or group of opcodes the code treats alike:

| Code | Model |
|---|---|
| `run`: package initializer; its end, `report_error` | `Run`; `EndRun` |
| `execute`: choice of a tier; fall-through at the end of the warm-up | `Enter`; `TierUp` |
| `get_jit_unit`, `recompile_with_runtime_profile` | `get_jit_unit` |
| `execute_interpret`, the JIT handlers: dispatch | `At(ops)` and the actions named after opcodes |
| `runtime_fault_pending` behind every opcode, `dispatch_runtime_trap` | `Finish`: go on, trap, or leave the frame |
| `call_value`, `call_function`, the limit of 512 calls | `CallValue`, `WithinDepth`, `ReturnToCaller` |
| `load_name`, `store_name` | `Load`, `Store` |
| `checked_int_*`, `binary_arithmetic`, `compare` | `Arithmetic`, `Compare`, `DivideUndefined` |
| a pc without a handler; the end of the code | `MissingHandler`; `FallOff` |

A fault is a flag of the thread (`fault`), not an exception of C++: the
instruction that raises it finishes (it pushes a value, it changes the pc), and
only then does the dispatch loop look. `Finish` takes the frame as the
instruction left it together with the fault it raised. At an integer division
without a result the hardware divides although the check has just recorded the
fault; the outcome is undefined, and `DivideUndefined` takes either: the process
dies, or goes on with the fault.

**Abstractions.**

- Integers are those of `int64_t` scaled to `MaxInt`; they wrap as they do.
- The values are integers, bools, null, enum members, functions, the builtin
  `fail` and exceptions. Strings, floats, arrays, maps and objects are left out, so are MOD, the
  bitwise opcodes, NE, GT, GE and NEG, which differ from a modelled opcode in
  the operator only.
- `<` and `<=` convert to `double` in the code and are exact here: `MaxInt` is
  far below 2^53.
- One package, one thread. The branch predictor and the pipeline state
  influence no result.
- The JIT's table of handlers, one per instruction of the unit, is the unit's
  code; the handlers' bodies do what the interpreter's cases do, but where the
  model says otherwise (profiles, `MissingHandler`, the pc behind RET).

**What is trusted.** Some of what these stages do is wrong; the cases met are
listed below. So that the rest can be checked, `SafeInit` keeps the JIT to blobs that
are safe to fold (`FoldsSafely`: every jump leads to an instruction the folder
recorded), and the properties that compare results speak of runs that are
`Trusted`: without a specialised unit and without the hand-over of a warm-up.
The interpreter is never restricted, and `NoStrayFault`, `RecursionBounded` and
the type invariant hold in specialised units too.

Properties. `RunsAsMeant` is the theorem of compiler correctness on the programs
of a run: the machine ends as the text means and leaves the same globals.
`TrapsFollowText` says that at every step, in every active frame, the monitors on
the frame's stack and the text agree on who would get a fault: a `break` or
`return` leaves monitors behind, and only the test of the pc keeps them away.
`OperandsSuffice`: no path underflows the operand stack. `NoStrayFault`: no
instruction runs under a pending fault. `RecursionBounded`: calls are counted
through both tiers and every way out. `RunEnds`: what the text ends, ends.

Departures from what the text means, which the properties leave out:

- The run of a function that completes its warm-up falls through into the JIT
  with the frame it has just finished (`vm.hpp:2679-2689`): it continues behind
  its RET, or with its fault still pending. `TierUp` models it; the properties
  do not speak of these runs (`resumed` in `MCMunx` is a program that returns 2
  for 5).
- A jump to a literal that was folded goes to the instruction before it
  (`bytecode_optimizer.hpp:35`), so the JIT and the interpreter differ, where
  `tests/compile_run_test.cpp:113` expects equal output: `FoldsSafely` keeps such
  code away from the JIT.
- The counter of an unrolled loop is not bound as a variable at all
  (`bytecode_compiler.hpp:1424`), where `README.md:244-245` says that functions
  write globals and that a new name is local; and a `break` in the unrolled body
  leaves the loop around it. The programs of the run do not look at the counter
  afterwards and do not break out of counted loops.
- A branch that was biased while the profile was taken is removed without a
  guard, and jumps keep their targets although the code moved
  (`pgo_optimizer.hpp:45`): `Specialized`.
- A division by zero records the fault and then divides (`vm.hpp:2352`), so the
  process may die where `README.md:252` calls the error trappable:
  `DivideUndefined` takes either outcome, and `Ran` the runs that survive it.
- A `break` in a `match` leaves the scrutinee on the operand stack. It is never
  popped, and never in the way.
- The folder wraps sums and products that the interpreter reports as overflow,
  folds a bool away in front of an integer, and drops two pending literals for
  one POP.

Two details of the tiers are left out. The registry of profiles is keyed by the
bytes of the code (`execution_profile.hpp:113-133`), so functions with equal bodies
share a profile, and with it their warm-up; the model keeps one per function
(`WarmingUp`), and no two functions of a program of the runs are equal. A
conditional jump that faults in the JIT has already set `jit_next_handler`
(`jit_compiler_impl.hpp:271-303`), which the trap then does not clear (`802-807`);
such a jump faults only on an empty operand stack, which `OperandsSuffice`
excludes, or out of the code, which the compiler does not emit.

## 7. The native compiler

`munx --native` lowers the same syntax trees to MIR, optimises that, and hands it
to one of three back ends. The models follow a program all the way:

| Module | Stands for |
|---|---|
| `MirBuilder` | `mir_builder`: syntax trees to MIR, with its refusals (`failed`) |
| `MirOptimizer` | `optimize_mir`: folding, threading of branches, dead code |
| `NativeRuntime` | `munx_value.c` and the string helpers: what each runtime function returns, aborts on, or traps on |
| `NativeMachine` | `c_emitter`: what the C translation of the MIR does, an abstract machine with frames of locals and results |
| `AsmLayout`, `AsmBackend` | `fn_layout`, `codegen.hpp`, `x64.hpp`: MIR to x86-64 code with a slot per byte, symbols and relocations |
| `ObjectFile` | `elf64.hpp`, `macho64.hpp`, `coff.hpp`: what a linker reads back from the file |
| `AsmMachine` | the linked text on a machine with registers and a stack |
| `LlvmEmitter` | `llvm_emitter.hpp`: the flow of the text written for LLVM |

State: `AsmMachine` has one record `cpu` (text position, registers, the stack by
8-byte cells, the trace of calls into the runtime, the outcome). A step runs from
one mark to the next, a mark being the start of a MIR instruction. The runtime's
functions leave junk in every register they may change and below the stack
pointer, so code that keeps a value there fails.

`MirSteps` is the refinement: under the mapping that reads the stack as frames of
locals and results (`Mir == INSTANCE NativeMachine WITH ...`), every step of the
machine code is a step of the C translation or a stutter. So slots, register
pairs for 16-byte values, pushed arguments, patched branches and relocations lose
nothing, and two back ends agree. `NativeAsMeant` compares what is printed, and
the way the process ends, with `MunxMeaning`, for the programs whose meaning that
module covers (`Comparable`). `StackAligned` is the System V rule for calls.
`ObjectReadsBack` says that the tables of each format lead from every relocation
to the symbol it was emitted for, that the parts of the file do not overlap and
that symbol groups are those announced. `LlvmFollowsMir` checks what LLVM asks of
a text: values numbered in order, used in their block, one terminator to a block,
branches to blocks that exist, and the flow of the MIR.

The programs (`MCNative`): all nestings of two constructs around a break, return,
failure, call or division, and single programs for operators, constants,
texts, arguments, recursion, three-deep calls, packages with initialisers, pipes
and channels; each with and without optimisation, for ELF and, the single ones, for
the other formats. Programs are named, and nothing in a module depends on the name.

What the native compiler does differently from the VM, found while translating
and left out of the comparison or stated in the meaning used:

- A function that reads a global of its package compiles and gets null:
  `local_slot` gives every name a slot of its function (`mir_builder.hpp:104`),
  where `README.md:244` says "functions read and write package globals directly".
- `print(a, b)` prints `a` before it evaluates `b`.
- Dead code removal drops an unused `1 / z`, which would have aborted.
- Integers wrap where the VM reports an overflow; a char becomes an integer.
- Two packages with a function of one name define one symbol twice.
- Mach-O: symbol values in the text do not add the section's address, names have
  no `_`, and a relocation of `lea` is typed as a branch; so only programs without
  texts are taken through that format.
- ELF: section names are lost, since the string table starts with the NUL of a
  literal, and a reader that goes by name does not find them.

Abstractions: doubles are whole numbers; integers are scaled to `MaxInt`; texts
are model strings interned as the code interns them; pipes are the trace of their
calls. The aarch64 stub, and the external compilers and linkers, are not modelled.

### The pipes of a compiled program

`NativePipe.tla` models `munx_pipe.c`: what the calls whose trace `Native` compares
do with the hub. It is a second client of the same hub, written in another way than
`pipe_hub_client.hpp`: one mutex `g_mu` around every write, and a reader thread that
takes every frame. `NativePipeProps.tla` has the properties, `NativePipeProofs.tla` a proof.

| Code | Model |
|---|---|
| the program's thread, and where it is in which call | `main`; a call begins with `Open`, `Insert`, `Extract` or `Close` |
| `munx_pipe_session_begin` | `SessionBegin` |
| taking `g_mu`, `ensure_queue`, arming the flags | `Lock` (`Armed`, `ArmedForChannel`) |
| `send_frame`, which blocks while the socket is full | `Write`, with `g_mu` held |
| `wait_hub_ack`, `wait_channel_reply` and the loop of `munx_channel_insert` | `AwaitAck`, `AwaitChannel` |
| the queue of `munx_pipe_extract`, `munx_channel_extract` | `Find`, `Take`, `TakeNothing` |
| `pipe_atexit`, `munx_pipe_session_end` | `Exit`, `Write` of `bye`, `HangUp`, `Join` |
| `reader_main`, `handle_body` | `ReaderReads`, `ReaderTells`, `ReaderDelivers`, `ReaderStops`, `ReaderCloses`, `ReaderReports` |
| the hub | `HubReads`, `HubDecides`, `HubDelivers`, `HubWrites`, `HubGivesUp`, `HubDies` |

What is done under `g_ack_mu` or a queue's mutex blocks on nothing else, and is part
of one step; `g_mu` is a lock of the model, since it is held in writes that block. The
hub serves one frame at a time and does not read while it writes, as the daemon does.

- `OrderKept`: what the program extracted and what lies in the queue are, in order, the
  first messages the hub sent to that queue; the frame in the reader's hands, the
  socket and the frame the hub is writing hold all the others, in order.
- `AnswersAreOwn`: a call returns or ends the program for the answer to its own
  request. The flags are armed before the write and looked at after `g_mu` is
  released, and the end of the reader may fall in between.
- `CallsEnd`: a request comes to an end, or the process does. The program may block
  in a write while the hub blocks in one to it and the reader waits for `g_mu`: a
  circle that nothing in `munx_pipe.c` opens. The hub does, after 500 ms.

What the code does here that one may not expect: an acknowledged call still aborts
the program if the hub dies before the thread has looked (`g_ack_ok` is reset at
line 444); `g_connected` outlives the hub, so the next write, the BYE of the exit
included, is a SIGPIPE; a refused attach ends the program, where the VM has an
error to handle; and the detach of one handle detaches its siblings on that pipe,
whose requests the hub then refuses. The model has one handle of a pipe at a time.
It also takes it that connecting succeeds (`HubLifecycle` has the ways it does not)
and that pipes are not switched off (`MUNX_PIPE_HUB=0`).

## 8. The parser

`MunxParser.tla` has an operator for every production of `parser_impl`. Each
takes the state of the parser and returns it: the position, whether an error was
recorded, whether parsing is *lost*, and the tree. A token is the string that
spells it; the lexer is not modelled. `error()` records and returns, so a
production goes on with a missing subtree; what reads through the missing node
(`left->loc`) makes the state `"crashed"`, and a loop that consumes nothing makes it
`"stuck"`. The actions are those of `parse_program`: `ParseHeader`, then
`ParseStatement` for each turn of its loop with `synchronize` where recovery is
asked for, then `Finish`.

`MunxText.tla` is the reference: how the grammar writes a tree down, with its
precedences and parentheses. Nothing of it is taken from the parser.

- `ReadsBack`: a text written from a tree is parsed to this tree. The parser
  guesses from tokens ahead in five places (`looks_like_*`,
  `parse_assign_or_expr`, `parse_array_or_typed_array`), which makes this more than
  a table of precedences.
- `NothingSkipped`: an accepted text, whatever it is, has all its words in the tree.
- `LostOnlyAfterAnError`: a crash or an endless loop comes only after an error.
- `EveryTurnMoves`: with recovery every turn of `parse_program`'s loop that returns
  has moved on (`synchronize` stops in front of a brace without consuming it). Not
  every turn returns: the loops over the statements of a block (`parser.hpp:933-941`,
  `1078-1086`) have no recovery, so at `func f() : void { ) }` the analyzer turns
  for ever, although `recover_` is its "Analyze-mode error recovery"
  (`parser.hpp:23`). The model hangs there too, and the property says where it may:
  in front of a word that `synchronize` would have skipped. The compiled parser hangs
  on this text as well.

Texts: every pair of binary operators on either side; every form of expression in
every place of every other; every statement around every expression and block;
and for a part of them every text with one token dropped, or one of 15 tokens put
in anywhere, with and without recovery. Two levels suffice for a guess that goes
wrong, because each looks at the tokens up to the end of one form.

Fidelity: on 5,520 texts sampled from these families the model and the compiled
parser agree on acceptance, crash and endless loop.

`README.md:523` calls `sample/invalid` "one-file-per-error compile-fail tests". Of the
141 files there, 24 crash the parser or never return: on a stray `}`
(`block_02_stray_rbrace.mx`) nothing is consumed, and on two operators in a row
(`expr_03_consecutive_operators.mx`) a missing node is read. That is why the property
says only that an error was recorded before. Other departures: `a < b && c > (d)`
is taken for a call with type arguments (`parser.hpp:1489`), and is not among the
texts; errors recorded by `parse_targets` stay after its rewind.

## 9. Runs

`CHECK_DEADLOCK FALSE` in the runs of the hub, of its clients and of the parser: clients are free
to stop, the daemon exits after its last client, and a text comes to its end. In the runs of `MCHubDaemon` clients are
interchangeable and symmetric in the safety runs; the runs of liveness properties use
no symmetry.

| Run | Instance | Shows |
|---|---|---|
| `HubQueue` | 2 processes, backlog of 2, 2 messages, sockets of one frame | the queue keeps, orders and hands out each message once, even when readers are closed in a delivery; queues and topics are the lines of `HubBroker` |
| `HubPeers` | 2 processes, sockets never full; 1 message to subscribers, or 2 between peers with a backlog of 2 and 2 requests unserved (`kind` is chosen at the start) | every subscriber served; order, nothing acknowledged lost, one reply per request |
| `HubStallChannel` | 2 processes with 2 handles each, sockets of one frame | no marks left by sibling handles or by closed peers |
| `HubLive` | fair, 2 processes, no room in the backlog, 2 messages | attaches and publications are answered; a parked offer is decided once the other peer is there and receives |
| `HubLifecycle` | fair, 2 clients, 2 daemons, impatient, 1 kill | one daemon past the lock; pid file and socket agree with it; a hub without clients leaves |
| `MunxRuns` | 495 programs, four configurations of the tiers; fair to the interpreter | compiled programs run as they mean; faults reach their traps; operands suffice; the depth of calls; the end of every run |
| `HubClient` | 2 threads, a writer, a reader, a channel and a second handle of it; 2 calls, 2 messages, 2 attempts; from nothing, with each two kinds open, or with a second handle of the channel to open | nothing lost, own answers, no waiting for a dead hub, one reader, null only at the end |
| `Native` | 194 targets: programs with and without optimisation, for three object formats | machine code refines the C translation and does what the text means; object files and LLVM texts hold together |
| `NativePipe` | a writer, a reader, a channel opened twice; 3 calls, 2 messages, 2 attempts, sockets of one frame; fair to the threads and the hub's reads and writes; from nothing, or with handles open | order kept and nothing lost, own answers, every call and the exit end |
| `Parser` | some 35,000 texts | texts of the grammar are read as they were written, others are refused or read whole, recovery moves on between the statements of a file |

Bounds. `SockBuf` is the number of frames a socket takes before a write blocks:
9 is more than these instances ever have in flight, so it means "never full"; 1
makes every second unread frame a stall. `MaxPending` stands for 4096; with 1 or
2 the backlog is empty, full, and (with 2) ordered, and 0 makes `HubLive` answer
with errors. `InBuf` bounds the frames of a client that the daemon has not
served, `MaxHandles` its handles of one kind, `MaxPublish` the messages. Two
processes meet in every handler that involves a second client, and with two
handles each they also compete for a third place of a channel. Subscribers that are
closed inside the loop over them need full sockets and more processes; what that does
to the tables is proved (`NothingLeftBehind`), not run. In
`HubLifecycle` two clients race for the lock and each can spawn a daemon; the
second daemon finds the first one starting, serving, leaving, killed, or its
spawner still holding the lock. `MaxCrashes` is the number of kills.

Fairness. `Step` is weakly fair because no handler blocks for more than 500 ms.
`Serve(c)` and `HangUp(c)` are enabled only between two handlers; `poll` reports
every readable or closed connection and the loop visits all of them before it
polls again, which is strong fairness. A client reads what arrives
(`ReadFrame`, `ReadEof`): either its reader thread or the thread that waits for
the reply does. Nothing forces a client to send, close or retry.

In `HubLifecycle` only the steps of daemons are weakly fair: each is a system call
that returns, or a turn of the poll loop, which comes round every 500 ms.

What the runs do not promise: `AckedIsKept`, `EverySubscriberServed`,
`OneReplyPerRequest` and the order on a channel hold as long as no socket stays
full for 500 ms, and are checked with sockets that have room. With `SockBuf = 1`
TLC refutes each of them: the daemon drops the payload of a reader it closes,
passes over a subscriber, loses an Accept, or lets a later
payload overtake one that was parked behind a full socket. With two handles on
one channel a process can also receive a reply it does not wait for.

The programs of `MunxRuns` are all nestings, up to three deep, of loop, counted
loop, `if`, `match` and `monitor` around a statement that breaks, returns or
fails, up to two deep also around one that calls, divides or just goes on, each
inside a function that is called under a monitor and fails after the nest; and
some programs about recursion, arity, scope, overflow, stray breaks and
folding. Three levels are what is needed for a handler left behind by one construct, found by a fault raised
in the second and caught by the third. The JIT runs those of depth two that are
safe to fold. `CallDepthLimit` is 3 for 512, so that the limit
is met, passed and trapped at; `MaxInt` is above any result but the one that overflows on purpose; the thresholds of profiles are the
code's. Deadlock is checked: a machine that has ended stutters
(`Ended`), and any other state without a step would be an error. The one thread keeps
running, which is weak fairness of its steps; it is stated for the interpreter only, and so is
`RunEnds`.

In `HubClient` two calls are enough for one thread's request to fall between
another's answer and its look at it, and two messages for one to be in the hands
of the reader while a pump takes the next; both are also enough to reconnect after
the hub has died. The start with open handles (each two of the three kinds,
or the channel with a second handle still to open) saves the calls that open them, and is
a state the program reaches. Threads are interchangeable, hence the symmetry.

In `NativePipe` sockets of one frame make a write block as soon as the other side is
behind; three calls are a request, its answer, and one that could be taken in by it, or
the close, the second opening and a use of the channel. Fairness: threads run (`Work`,
`Reader`), and the hub reads what is there and finishes or gives up what it writes
(`HubServes`). Its answer to an offer is not fair, since an offer waits for the peer,
nor are its deliveries, so `CallsEnd` does not promise that an offer or an extract
ends while the hub is there.

`Native` checks deadlock too: a process that has ended stutters.

### Statements of the documents that the code does not keep

`HubStarts` and `ReceiveBlocks` hold statements of documents; TLC finds a behaviour of the program against each.

| Run | Statement | What happens |
|---|---|---|
| `HubClaimStarts` | "The hub starts automatically on the first client that uses pipes" | the daemon cannot take the lock its spawner still holds, and ends; the client gives up. Checked with `Patient`, without kills, and with a process left to spawn |
| `HubClientClaimBlocks` | "`<=:` announces ready and blocks for a payload" | while another thread has its acknowledgement but has not yet reset `waiting_for_ack_` (line 532), `read_exact_locked` gives up in whichever thread reads (line 834), and a receive on a channel gives null at once |

The model of the parser has the hang of the analyzer in section 8 ("Skip tokens until a
likely statement boundary (analyze recovery).", `parser.hpp:168`, of a "persistent
JSON-RPC analyze daemon", `README.md:40`), without a run.

The model of the daemon also has these, each a few steps from `Init`, without a
run: simultaneous offers are both accepted once both peers are attached, where
the README says `Busy`; SIGPIPE ends the daemon, which is to run "until every attached client
disconnects"; a subscriber is passed over when one before it is closed inside
the loop (`pipe_hub_daemon.hpp:222`); a reader is refused for want of a
publisher that is there, but has closed another handle of the pipe.

## 10. Proofs

`HubDaemonProofs.tla` proves `TypeCorrect`: `TypeOK` is an invariant for every
set of clients and channels and every bound. `TypeOK` says more than types: the
frame being served and what is left of its handler belong together, and a client
waiting for an Attach holds its handle; both are needed to make it inductive.

`HubDaemonSafety.tla` proves `NothingLeftBehind` (`NoGhosts`), `AnnouncedIsPeer`
(`AnnouncesPeer`) and `AtMostTwoPeers` (`TwoPeers`), of which the runs check the first,
and `DeliveredOnce` (`ConsumedOnce`). `NoGhosts` is not inductive alone: the RecvReady handler sets
`recv_ready` after it has drained the backlog, with other steps in between, and
only `AnnouncesPeer` says that the client is still a peer then. The inductive
invariant is `SafetyInvariant`, the three together. Its heart is `close_client`:
it cleans only the channels in the client's attachments, which is enough because
`NoGhosts` says the client is in no list elsewhere. `TwoPeers` follows from
`TypeOK` alone, since only `ServeAttach` adds to a list and its guard counts.

For `DeliveredOnce` the inductive invariant is `OnePlace`. The number of a message is
in one place, in an offer, in a Publish frame, in the hands of the handler that serves
it, in a backlog, or delivered, and no place holds it twice; only the copies for
subscribers may be made while it is still being spread. The places are written as
lanes, a sequence of numbers for each client or channel, and each action moves one
number from one lane to another.

`HubDaemonDelivery.tla` proves what else becomes of a message, for any number of
clients, channels, handles and messages.

- `AckedWhenRoomy` (`AckedIsKept`) and `SubscribersWhenRoomy`
  (`EverySubscriberServed`) hold as long as every write of the daemon finds room
  (`[]Roomy`). Without that they are false: a reader whose socket stays full is
  closed in the middle of a delivery, with the message that was being written to it
  and the rest of the handler. Otherwise every handler runs to its end, so
  what it has promised is still in its items (`Handler`), each subscriber of a
  message is served or still in the loop's list (`Served`), and an acknowledged
  number is in a backlog, delivered, or being spread to a reader that is there
  (`Kept`). The run for the two, `HubPeers`, has room in its sockets
  for the same reason.
- `PipeBacklog` (`BacklogOnlyWithoutReaders`) is about queues and topics: its
  assumption is that no handle is a channel's (`"ChannelPeer" \notin Modes`), as in
  the run `HubQueue`; sockets may stall, and readers be closed in a delivery. A
  backlog and a reader meet only while the handler of an Attach still has its flush
  ahead, and only the client that is attaching is a reader then (`Flushing`); so a
  handler that is cut short, because that client was closed, leaves no reader behind.
- `OneReplyWhenRoomy` (`OneReplyPerRequest`): the inductive invariant is `Dialogues`.
  A connected client is in one of five situations: it waits for nothing (`Quiet`), its
  request is the last frame the daemon has not read (`Asked`), the rest of a handler
  holds the one reply (`Deciding`), its offer is parked on one channel (`Offering`),
  or the reply is on its socket and one it is waiting for (`Answered`). The property
  says only that the things on the way are one or none. That a reply fits the request
  needs more: a peer whose channel handle was granted is on the daemon's list, and
  still will be when the daemon reads its RecvReady (`Attends`, `Announces`);
  otherwise that RecvReady is answered with an Error, which the client's next
  request would take for its own. `Departed` says in which state the next client
  finds a descriptor that was closed. There are two side conditions. `[]Roomy`,
  because the handlers of Offer and RecvReady do not look at the result of writing
  Accept and Busy: with a full socket the reply is lost and the client waits for good.
  `[]OneHandle`, a channel handle is the only handle of its client on that pipe: the
  Detach of one takes the client off every list of the pipe, the other handle's too.
  `HubPeers` checks the property under both (`MaxHandles = 1`, room in the sockets).
- `PipeOrder` and `ChannelOrder` (`PublisherOrder`): the inductive invariant is `Lines`.
  What one client publishes into one pipe is, at any time, in a line: written to a
  reader (`Told`), being spread (`InHand`), in the backlog (`Stored`), being served
  (`Brought`), in frames the daemon has not read, offered (`Yet`); each stage holds
  earlier messages than the next, and the backlog and the frames are in order
  (`Line`, `Own`, `Earlier`). Every handler moves messages up that line, with one
  exception: `publish_message` hands a message on at once, past the backlog, if
  somebody is there to take it. `NoneOvertaken` says that the backlog then holds none
  of the same publisher; the two theorems differ in how they show it. Without channel
  handles, whatever sockets stall, the backlog is empty then (`Flushing`). With
  channel handles only it may not be, but it holds no message of a peer that has
  another peer to talk to (`OwnBacklog`), as long as writes find room (`[]Roomy`).
  Both conditions are needed. A message that is parked because the other peer's
  socket is full is overtaken by the next one; and if one pipe has channel
  handles and plain readers, what a peer parked may still be there when a
  plain reader is served first. `HubPeers` therefore checks the two kinds apart.

- `PipesRefine` (`PipesAreLines`): the daemon implements `HubBroker`, whatever sockets
  stall and whichever readers are closed, if no handle is a channel's, as in
  the run `HubQueue`. Each step of the daemon is one step of a line or of none:
  `ServePublish` is `Accept`; `ParkStep` with a full backlog is `Refuse`; a
  `CopyStep` that writes is `Copy`; `QueueStep` is `Give`, `Spend` or, when the reader's
  socket is full and the daemon closes it, `Lose`; `SigPipe`, a crash and `Exit` are
  `Stop`. All others leave the lines alone (`ComeAndGo`), `FlushStep` too: what it
  moves to the hand of the handler was the head of the line and is so still. The
  invariants it uses are those of the theorems above. `Flushing` gives that a message
  that meets readers meets no backlog (`IdleReaders`), so the message that is
  spread at once is at the head of its line and not past others. `OnePlace`
  gives that a number which is served was in no other place, so the step takes it out of
  `fresh` (`FreshTaken`). `Handler` gives that the queue reader is served right after the
  copies of the same message. One invariant is new, `NoDrain`: without channel handles
  no handler drains a backlog onto a peer.

`HubLifecycleProofs.tla` proves `LifecycleTypes` (`TypeOK`, left to the proof), `AtMostOneHub`
(`OneHub`), `ServingHubIsNamed` (`HubSeenAlive`) and `EndpointIsOwned`
(`EndpointOfHolder`) for any number of clients, daemons and kills. The inductive
invariant is `TypeOK /\ HubOwned`: a daemon past the lock holds it (`LockHeld`),
hub.pid names it from its write to its removal (`PidOwned`), and hub.sock is its
own or absent from its `bind` on (`SockBound`, `SockOwned`). `OneHub` is not
inductive because it does not say that the lock is held. Daemons share one
lemma, `OwnedByHolder`, for a step under the lock; clients another: they never
write hub.pid, can only remove the socket, and move the lock only when no daemon
holds it. Its assumptions: clients, daemons, `None` and `Empty` are different.

The assumptions of the proofs about the daemon are those of `HubDaemon`: the modes used are modes, the bounds
are natural numbers, and `None` is neither a client nor a mode. Each proof has
one lemma per action, and lemmas for `WithoutClient`, `CloseClient` and `Goto`
which the actions share.

`MunxMachineProofs.tla` proves `CallDepthIsBounded` (`RecursionBounded`) and
`FaultsAreCollected` (`NoStrayFault`) for every set of programs, every image
(whatever code its blobs hold, so also code no compiler made), every mode and every limit.
The inductive `Invariant` adds to the two that frames and units are sequences, that
nothing is on the frames before the run, and that without a warm-up every frame
of a machine with a JIT is compiled (`FrameOk`): otherwise a frame could be handed to
the JIT after it was left, with its fault, which is what warm-up does. Its lemmas are about sequences
of frames, about `Finish` (after it either no fault is pending or the frame is
left) and `Enter`; the actions that work on the innermost frame share `Continuing`.

`AsmLayoutProofs.tla` proves, for functions with any number of locals and results,
that a frame is a multiple of 16 bytes (`FrameKeepsAlignment`), that every slot
lies in it (`SlotsInFrame`), and that two different locals, two different results, or a local and a result
have slots that share no byte (`SlotsApart`). `Native`
checks `StackAligned` and `MirSteps` on small functions, and these facts are what
they rest on; the argument is that rounding up a multiple of 16 changes nothing
(`FrameIsItsSlots`), and linear arithmetic on the displacements.

`HubClientProofs.tla` proves `ReaderIsOne` (`OneReader`) and `NullIsTheEnd`
(`NullMeansOver`) for any number of threads, handles, calls and messages, and for
frames that come whole or in parts. The inductive invariant is `Lasting`: as long
as the hub lives and the program has not hung up (`~Gone`), the reader is not at
its end, a reader that was started finds `running_` set and its connection valid,
no queue is closed, a joinable reader means a connection, and one thread at most
is between `Connect` and `StartReader` (`StillThere`); after `Disconnect` no call
is under way (`Placed`). Neither property says any of this: that a second reader
is not started needs that the connection was not lost, which needs that the
reader did not end, which needs that nobody but the hub hung up. Most steps touch
none of it: `KeptLasting` says what they must leave alone, and each action has
only that to show.

It also proves `WaitingEnds` (`NobodyWaitsForTheDead`), if every inbound pipe is
opened by one handle (`OneInbound`). With two, the `detach` of one erases the queue
that the other waits on. The invariant is `Seated`: a thread in `receive` has an
open handle whose queue exists, two threads that open a handle open
different ones, and when the reader has ended and the process has not begun to
connect again, that queue is closed.

`AnswersReturned` (`AnswerIsOwn`) holds for any number of threads and handles. Its
invariant `Talk` is about who may be waiting: the thread in `pump` is the one that
has `connection_mutex_` (`Shapes`), and as long as it is calm (`Calm`: the hub lives
and has sent no answer that nobody waits for), while no thread pumps there is no
request on the way to the hub, no offer parked there and no answer on the way back;
while one does, there is its request, or its one answer of the kind that `hub.said`
tells, and not both (`Lines`). The flags of a thread that nobody has overlapped are
those its answer has set (`Flags`), from the pump through each of the separate reads to
the end of the call. Faults do not stop a call, so `Flags` also says which faults a
calm, unoverlapped call can have on record: none, a refused offer, or the unexpected reply `Ack` that
follows from it on the way to the publication (`Faultless`); and a thread that drops a
handle after its attach does so because the hub refused it. `hub.said` is reset by the request and
set by the hub. `None` is assumed to be no thread, no result and no answer.

`NoneLostOrTwice` (`NothingLost`) says where the messages are, whoever reads them and
in whatever portions `read_some` returns them. The messages of each place (socket,
reader, each queue, program) are a function from positions to numbers, and a step
takes some from one place (`Gives`) and adds them to another (`Gets`); `Moved` shows
that the places stay apart. The property alone is not inductive. `Carried` adds: heads
and bodies alternate on the socket, so what the reader cuts off ends in the middle of
a frame at worst and the rest is still told apart (`Alternates`); the reader has
messages in hand only while it handles them, so the next read overwrites none, and
each has a side with a queue to go to (`Sound`); and as long as the hub lives and the
program has not hung up, the hub writes only to a process that is connected, and an
unconnected one has nothing on its socket, so `Connect` drops nothing (`Ties`). It
rests on `Lasting` and `Talk`, and on no assumption beyond theirs. That a message is
in the queue its side has, or the side was given up, is `Named`: messages are put
into the queue that has the name (`Bearing`), and names are erased only by a
thread that closes a handle or by one whose attach was refused, whose handle is its own, dropped
in the same step, so that the side is given up from then on (`Held`: a thread that
attaches has a handle that is still new, no two the same one).

`NativePipeProofs.tla` proves `OwnAnswers` (`AnswersAreOwn`) and `InOrderOfSending`
(`OrderKept`) for any number of handles, calls, messages and attempts and any room in the sockets. The inductive
`Invariant` follows a conversation: while the program does not wait, no request is
on the way to the hub, no offer is parked there and no answer is on the way back;
while it waits, there is one request, or one answer in one place of three, written,
in the socket or in the reader's hand (`Conversation`), and the flags hold an answer
only when it has left all of them (`Flags`). That is what re-arming the flags relies on: `ack_ok` can
only be set again by the answer to the request that follows. `Ending` adds that the
reader leaves, and queues close, only after a hang-up. For the order of the messages
two facts are added: the reader has a frame in hand only while it handles it (`Order`),
and whoever has a reader is connected until the program ends (`Session`), so that no
second session begins on top of the first and empties its socket. The assumptions: `None` is no
word of the protocol, and a handle's side is one of three.

Not proved: what the side conditions above leave out (a full socket for
`AckedIsKept`, `EverySubscriberServed` and `OneReplyPerRequest`, and for the order of a
channel; channels for `BacklogOnlyWithoutReaders` and `PipesAreLines`; channel handles and plain readers
on one pipe for `PublisherOrder`; two handles of one inbound pipe for
`NobodyWaitsForTheDead`). Only model-checked:
`CallsEnd` of `NativePipe`; everything temporal; and of the machine
`TypeOK`, whose proof would need the types of what the optimizer's recursive
functions return, and `RunsAsMeant`, `OperandsSuffice` and `TrapsFollowText`, which
follow from the way code is emitted, by induction over the syntax tree. The modules
of the native compiler and of the parser use RECURSIVE operators, so what is said of
whole programs and texts stays with TLC. Liveness under fairness, ENABLED, and facts
that need induction over data are outside what the prover can do and stay with TLC.

## 11. Not modelled

- Lexer, type checker, semantic index, compile-time reflection: sequential passes
  over a text or tree. The first two are in the plan.
- Bytecode encoding, decoding and decompilation: formats that the repository's
  round-trip tests cover.
- The vectoriser and the SIMD operations: intrinsics.
- VM threads and locks; values other than those named in section 6.
- How `munx_pipe.c` looks for the hub and spawns it, two handles of one pipe at a
  time, and its encoding of values.
- The analysis host, which serves one request after another; the command line
  driver; logging, JSON and platform support.
- The builds for Windows, and direct FIFO mode.

## 12. Running the checks

    tlc -workers 2 -config HubQueue.cfg MCHubDaemon
    tlc -workers 2 -config HubLifecycle.cfg MCHubLifecycle
    tlc -workers 2 -config HubClient.cfg MCHubClient
    tlc -workers 2 -config MunxRuns.cfg MCMunx
    tlc -workers 2 -config Native.cfg MCNative
    tlc -workers 2 -config NativePipe.cfg MCNativePipe
    tlc -workers 2 -config Parser.cfg MCParser
    tlapm HubDaemonSafety.tla
    tlapm HubDaemonDelivery.tla
    tlapm HubClientProofs.tla

The largest runs have some 1,500,000 states and take two minutes.
