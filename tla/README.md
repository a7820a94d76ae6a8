# Verification of the Martial_arts server core

The repository holds a game server and its client (`src/Smjy/`), an earlier SDL client
(`src/fjqz/`), a boot sector (`src/Smos/`) and study material
(`src/AlgorithmExercise/`, `src/DesignPatterns/`, diagrams). This directory specifies
the concurrent core of the server in TLA+: the MySQL layer with its pools and
callbacks, the reactor network library, and the sockets of the game server between
them. TLC checks the modules on small instances; TLAPS proves type correctness, every
invariant and action property that holds and both refinements for every value of the
constants. Liveness is left to TLC.

Paths below are relative to `src/Smjy/src/` unless they begin with `src/`. `DB` stands
for `server/database/database`, `NET` for `client/old/net`, `TH` for
`common/threading`.

To repeat the checks, in this directory: `tlc -config X.cfg MCM.tla` for a run of
section 3, `tlapm M.tla` for a proof module.

## 1. Inventory

1047 files. About 102 000 of the 150 000 lines under `src/Smjy/` are vendored
libraries (`externals/`). The product's own code:

### 1.1 Database layer (`server/database`, 4 900 lines)

| part | state | operations | hard behaviour, and what makes it correct |
|---|---|---|---|
| `producer_consumer_queue` (TH) | deque, mutex, condition variable, `shutdown_` | `push`, `wait_and_pop`, `pop`, `cancel` | several producers and consumers, spurious wakeups, cancellation while others wait. First in first out across all threads; no lost wakeup; consumers end after `cancel` |
| `database_worker` (DB) | thread, queue, connection, `cancelation_token_` | `worker_thread`, destructor | the thread starts in a member initialiser, before the members it reads. Never uses a closed connection; ends when told |
| `database_worker_pool<T>` (DB) | connections of both kinds, the shared queue | `open`, `close`, `execute`, `async_query`, `enqueue`, `direct_commit_transaction`, `keepalive`, ... | an open that fails half way destroys its siblings, which share one queue; `database_loader` opens again. Every operation has one owner, every future is answered |
| `mysql_connection` (DB) | `mysql_`, `mutex_`, prepared statements | `open`, `execute`, `query`, `execute_transaction`, `handle_mysql_errno` | reconnection in the middle of anything. One user at a time; a session is never left in a transaction |
| `transaction_base`, `transaction_task` (DB) | statements, `cleaned_up_`, static `dead_lock_lock_` | `append`, `execute`, `cleanup` | deadlocks and retries. All or nothing, at most once, retries exclude each other and end |
| `query_callback`, its processor (DB) | a future, a queue of callbacks; a vector of chains | `with_callback`, `set_next_query`, `invoke_if_ready`, `process_ready_queries` | callbacks that add queries, futures that throw. Each callback runs once, in the order of its chain |
| `query_holder`, `prepared_statement`, `query_result` | buffers | conversions | none of its own |
| loader, updater (`update/`) | files, hashes | `add_database`, `load`, `create`, `update` | single-threaded at start |

The loader opens pools; game code calls the pool from any thread; an operation is a raw
pointer that travels caller → queue → worker, and its result travels back through a
`std::promise`. Asynchronous connections each own one worker; synchronous ones are
borrowed with `lock_if_ready` and given back with `unlock`.

### 1.2 Reactor (`client/old/net`, 3 400 lines)

| part | state | operations | hard behaviour, and what makes it correct |
|---|---|---|---|
| `Event_loop` | `quit_`, `pending_functors_`, `calling_pending_functors_`, `wakeup_fd_` | `loop`, `quit`, `run_in_loop`, `queue_in_loop`, `wakeup` | handing work to a thread that is about to sleep. A serial executor; never sleeps on work; ends when asked |
| `Event_loop_thread`, `_threadpool` | `loop_`, mutex, condition | `start_loop`, destructor, `get_next_loop` | publication of a loop on another thread's stack |
| `Timer_queue`, `Timer` | two ordered sets, timerfd, `canceling_timers_` | `add_timer`, `cancel`, `handleRead`, `reset` | cancellation from inside callbacks, reuse of addresses, two clocks |
| `Channel`, `Poller` | `events_`, `index_`, `tied_`; epoll set | `enable_*`, `disable_*`, `handle_event`, `update_channel`, `remove_channel` | registration outlives interest |
| `Tcp_connection` | `state_`, `reading_`, `output_buffer_` | `send`, `shutdown`, `force_close`, `start_read`, `stop_read`, four handlers | calls from any thread, functors bound to `this` or to a `shared_ptr`. Bytes in order; up and down once; destroyed after the last use |
| `Tcp_server`, `Acceptor`, `Tcp_client`, `Connector` | `connections_`, listening socket | `new_connection`, `remove_connection`, destructor, retry | two loops own parts of one connection |
| `Buffer` | two indices into a vector | `append`, `retrieve`, `prepend`, `shrink` | `make_space` moves the contents |

`server/shared/networking` is a later rewrite of the same library with parts missing
(`network_thread`, `socket_mgr`, `tcp_socket.cpp` and, in the game server,
`world_socket.cpp` do not compile); the complete version in NET is the one modelled, and
of the rewrite what a world socket relies on.

### 1.3 World sockets (`server/game/server`, `server/shared/networking`, TH)

| part | state | operations | hard behaviour, and what makes it correct |
|---|---|---|---|
| `mpsc_queue` (TH) | a linked list, `head_` exchanged by anybody, `tail_` the consumer's | `enqueue`, `dequeue`, destructor | a producer may stop between the exchange and the link. A FIFO queue; no node is used after its deletion; an empty answer is true |
| `world_socket` | packet queue, query processor, buffers | `send_packet`, `update`, handlers | any thread sends while the network thread batches; callbacks and, on another thread, handlers send, ask and close. What was sent is written in order, what was answered is called |
| `tcp_socket`, `network_thread` | `closed_`, `closing_`, `write_queue_` | `queue_packet`, `close_socket`, `delayed_close_socket`, `update` | removal of a socket that others still hold |

A query callback runs inside `world_socket::update()`, on the network thread, which is a
`std::thread` of `network_thread` (`network_thread.h:44`); the future it waits for is
answered by a worker of the database pool. The socket's handlers run elsewhere, in the
thread of the event loop that its channel belongs to (`tcp_socket.cpp:97`, `154`,
`socket_mgr.h:31`), so that what they do (send, add queries, close) falls anywhere into
`update()`.

### 1.4 The rest

| part | why it matters less here |
|---|---|
| `locked_queue` (TH) | a mutex around a deque; its operations that leave the mutex held (`peek`) are called by nobody |
| `server/game`: session, worker pool, packet log, world | unfinished (`worker_thread.cpp` does not compile), configuration and stubs |
| `server/shared/packets`, `realm`; `server/proto` | serialisation, tables |
| `server/process`, `worldserver` | wrappers of fork and exec; `main` |
| `common/`: logging, configuration, cmdline, cryptography, ... (4 200) | parsing, formatting, wrappers of a crypto library |
| `client/old` (gui, font, sdl), `client/sdl`, `src/fjqz` | rendering and widgets on one thread |
| `src/AlgorithmExercise`, `src/DesignPatterns`, `src/Smos` | exercises, examples, a boot sector |
| `externals/`, `cmake/` | third party |

`PROJECT.json` lists every component with its status, and under `hazards` each place
where the code is hard to test, with the properties aimed at it.

## 2. Modules

| module | models | with |
|---|---|---|
| `DbWorkerPool` | asynchronous connections of the pool, their workers and the shared queue | `MCDbWorkerPool`, `DbWorkerPoolProofs` |
| `DbTransaction` | `execute_transaction` and both of its drivers, with reconnection | `MCDbTransaction`, `DbTransactionProofs` |
| `SyncConnections` | synchronous connections of the pool: borrowing, reconnection, `keepalive`, `escape_string` | `MCSyncConnections`, `SyncConnectionsProofs` |
| `Executor` | what `Event_loop` promises: a serial executor | |
| `EventLoop` | `Event_loop` and its callers; implements `Executor` | `EventLoopProofs` |
| `EventLoopThread` | `EventLoop` with the `Event_loop_thread` that owns it | `MCEventLoop`, `EventLoopProofs` |
| `TimerQueue` | `Timer_queue` with its timerfd and both clocks | `MCTimerQueue`, `TimerQueueProofs` |
| `TcpConnection` | one `Tcp_connection` with its channel, its registration in the poller and its server | `MCTcpConnection`, `TcpConnectionProofs` |
| `Fifo` | what a queue with many writers and one reader promises | |
| `MpscQueue` | `mpsc_queue`; implements `Fifo` | `MpscQueueProofs` |
| `QueryCallbacks` | `query_callback` and its processor | |
| `WorldSocket` | a world socket: `MpscQueue` and `QueryCallbacks` composed by `update()` | `MCWorldSocket`, `WorldSocketProofs` |

Each module's definitions marked `Defect for ...` are faulty variants of the definition
that follows them. They take no part in any specification; with one of them put in the
place of the original, some property fails. They document what the properties notice.

### 2.1 DbWorkerPool

An action is one critical section of the queue's mutex or one stretch of a thread that
touches nothing shared.

| code | model |
|---|---|
| `producer_consumer_queue`: `queue_`, `shutdown_`; push, the body of `wait_and_pop`, `cancel` | `queue`, `shutdown`; `Enqueue` with `NotifyOne`, `Wait`, `Pop`, `SpuriousWakeup`, `CancelQueue` |
| `database_worker::worker_thread()` | per worker `wpc`, `wop`: `ReadQueueMember`, `Pop`, `ReadToken`, `Execute`, `DeleteOperation` |
| `database_worker.cpp:9`, `std::thread(&database_worker::worker_thread_, this)` | `EvaluateMember` |
| `~database_worker`, `mysql_connection::close` | `SetToken`, `CancelShared`, `JoinAndClose` |
| `open_connections`, the loader's second `open`, `close`, `~database_worker_pool` | `phase` and `cur`: `StartConnection`, `FinishConstructor`, `ConnectOk`, `ConnectError`, `OldServer`, `Reopen`, `Close`, `DestroyPool`, `TornDown` |
| an `sql_operation*` and its promise | `opst`, `future`: `NewOperation`, `GetFuture`, `Enqueue` |

*The thread entry.* Line 9 of `database_worker.cpp` passes the data member
`worker_thread_` where the function `worker_thread()` was meant. The standard gives that
a meaning (it evaluates the member), so it compiles, each worker's thread ends at once
and no operation is executed: run `db_pool_served`. `ThreadEntry` names what a thread may
be given. `{"worker_thread_"}` is the source; with `"worker_thread()"` in the set the
threads enter the intended function, so that the run `db_pool` and the proofs also say
something of the code of `worker_thread()` and of the transactions it drives, which is
reached as soon as the line is repaired. Repaired alone, it uncovers another error:
`wait_and_pop` waits while `shutdown_` is set, so that `cancel()` cannot release a
worker and the `join` of `close()` never returns.

*Undefined behaviour.* The thread starts before `queue_` is initialised (it is declared
after `worker_thread_`). `ReadQueueMember` chooses between the outcomes: null, which
ends the thread, or garbage (`"wild"`).

*Other things the model shows.* An operation popped just before its worker sees the
token is neither executed nor deleted (`"leaked"`) and its future stays pending. After a
failed `open`, the second one works on a queue that stays shut.

### 2.2 DbTransaction

One transaction per connection, driven by `transaction_task::execute` on connections of
`Async` and by `direct_commit_transaction` on the others. `pc` and `pos` are where
`execute_transaction` is, `tries` the index of the retry loop, `code` the last result,
`lock` the holder of `dead_lock_lock_`. The server is external: `inTxn` and `work` are a
session's open transaction, `durable` counts how often each statement became permanent.
`met` remembers the faults of a connection, of six kinds:

| fault | model | what the code makes of it |
|---|---|---|
| `"deadlock"`, `"failed"` | `StatementDeadlock` (the server rolls back), `StatementFailed` | `rollback_transaction()` and an error |
| `"begin"` | `BeginRefused`: START TRANSACTION fails | nobody looks at the result (`mysql_connection.cpp:288`), and the statements run in autocommit |
| `"rollback"` | `RollbackRefused` | nor at this one (line 304): the transaction stays open on the connection |
| `"commit"` | `CommitRefused`: the server rolls back, or leaves it open | nor at this one (line 329): 0 is returned |
| `"lost"` | `ConnectionLost`, during any of the requests, which may have reached the server | `handle_mysql_errno` opens a new session, in autocommit, on which `execute` repeats the one request; or it gives up, and `NoHandle` says what becomes of requests without a handle: the error read is `mysql_errno(NULL)`, which is 0 |

`NextTransaction` is what a session that was left inside a transaction leads to: the
`START TRANSACTION` of its next user commits what was open. `Undisturbed` connections
were not lost and had neither START TRANSACTION nor ROLLBACK refused: atomicity and the
truth of a direct commit are claimed for them, refused COMMITs included, and section 5
says how each of the excluded faults breaks the first.

### 2.3 EventLoop and Executor

`lpc` is where the loop thread is; `UserCode` (before `loop()`, in a channel's callback,
in a functor) may queue, run and quit. Other threads act in the steps in which the code
lets go of something shared: `Push` (under `mutex_`) and `PushWakeup`; `Quit` and
`QuitWakeup`. `functors` is what is left of the vector that `do_pending_functors` has
swapped out. One further channel stands for every other descriptor.

`Executor` has the state `inbox`, `done`. The refinement mapping is
`inbox <- functors \o pending`: the functors of the running round are ahead of those of
the next. The swap is invisible, `StartFunctor` takes the head, a push appends.

*EventLoopThread* adds the life of a loop: `owner` is where the thread is that called
`start_loop()` or the destructor, `loop_` whether the pointer of that name is set. Each
step of the loop is one of `EventLoop`, guarded by the phase of its thread. A loop that
a program runs in its own main thread is the case `owner = "main"`, in which every
thread may also call `quit()`; an `Event_loop_thread` is asked to quit only by its
destructor. The end of the thread has two steps: `Unpublish` (`loop_ = NULL`, line 60)
and `ThreadEnds` (`thread_func` returns, which destroys the loop; `over`). The destructor
reads `loop_` without the mutex: if it finds NULL it neither quits nor joins (`owner =
"skipped"`), while the thread may still be destroying its loop; if `loop_` is cleared
behind its test it calls `quit()` through a null pointer, or of a loop that is being
destroyed (`CallsDestroyedLoop`, `owner = "crashed"`, or no harm is done). The
destructor's `quit()` can also come before `loop()`, which erases it (section 5).

### 2.4 TimerQueue

`heap` and `active` are `timers_` and `active_timers_`; a timer object lives at an
address of `Addr`, which a later one may reuse. `pc`, `batch`, `pos` are `handleRead` in
its callbacks, during which user code adds and cancels. Foreign calls go through `inbox`.
`armed` is the time at which the timerfd, on the monotonic clock `mono`, becomes
readable; expirations are in wall-clock time `mono + skew`, and `SetWallClock` changes
`skew`. `Destroy` is the destructor.

`add_timer` hands a new `Timer` to the loop and only then reads its sequence number for
the `Timer_id` that it returns (`timer_queue.cpp:108-110`). Elsewhere than on the loop
these are two steps, `AddElsewhere` and `ReadSequence`: between them the timer may have
run and been deleted, and its memory may hold the next one, or anything. `id` is the
number that the caller got, `Timer_id(s)` what it cancels with, and a timer is `Named`
when that of any caller who cancels is its own. `OneHolder` says who deletes an object;
that `add_timer` may read a deleted one is `ReadSequence`, not excluded by it.

Four remarks. `Deadline` leaves out the floor of 100 microseconds, which is below the
model's unit of time, and `HandleRead` the read that finds nothing because the timerfd
was armed again after the poll, which is only logged. The model lets a caller's
`Timer_id` live until the loop has read it; `Timer_queue::cancel` binds a reference to it,
and `Event_loop::cancel` hands on a reference to its own parameter, which dangles in a
foreign call. A cancellation made on
the loop may overtake an addition queued from elsewhere, so `CancelledNeverWaits` is
about timers known to the queue. A timer cancelled while its batch runs may run once
more.

### 2.5 TcpConnection

Three kinds of threads: the connection's loop (`ioq`: `Run...`, `HandleRead`,
`HandleHangup`, `HandleWrite`, and user code in callbacks, `Loop...`), the server's loop
(`baseq`: `Remove`, `DestroyServer`), others (`cpc`: `StartSend`/`QueueSend`,
`StartShutdown`/`SetDisconnecting`/`QueueClose`, ...). `events` and `index` are the
channel's; `SetEvents` is `Channel::update` with `Poller::update_channel`. A message has
`Parts` units, of which `write(2)` takes as many as it likes (`Takes`): none if the socket
has no `room`, which is also when epoll does not report it writable, and less than all
only by filling it. `PeerReads` makes room again, and nothing obliges the peer to.
`Owning` names the functors that
hold a `shared_ptr`, the others hold a raw `this`; the destructor runs (`dead`) when no
reference is `Alive`. A failed assertion is put into `failed`, and the model goes on as a
build with `NDEBUG` does. The parameters say who calls what (`LoopCalls`, `OtherCalls`),
whether the loop may act in the middle of a foreign call (`Races`), whether server and
connection share a loop, and whether the server may be destroyed.

### 2.6 SyncConnections

| code | model |
|---|---|
| `mutex_` of each connection, `mysql_` | `mutex` (its holder), `mysql` (a handle or `Null`); `freed` has the handles that were closed |
| `get_free_connection()`, an index of eight bits | `Pick`, one turn of the loop; `Width` values of `next` |
| `query`, `direct_execute`, `direct_commit_transaction` up to `unlock()` | `Begin`, which chooses the `kind` of the call; the outcomes of a request (`StatementOk`, `StatementFails`, `CommitRefused`, `StatementIsFatal`, `ConnectionLost`, `NoHandle`); `repeats`, the loop of `direct_commit_transaction` after a deadlock; `Unlock` |
| `handle_mysql_errno()` | `CloseHandle`, `ClearHandle`, `ReconnectOk`, `ReconnectAgain` (counted in `attempts`), `ReprepareFails`, `GiveUp` |
| `keepalive()` | `BeginRound`, `KeeperTries`, `Ping`, `KeeperUnlocks` |
| `escape_string()`, which takes no lock | `ReadHandle`, `Escape` |
| `prepare_statements()`, `close()` | `PrepareOk`, `PrepareFails`, `Close` |

`misused` collects what a handle was used for that did not exist. `applied` and `losses`
belong to the call that runs: how often the server executed its statement, and how often
the connection was lost under it. A statement that finds no handle fails. A commit that
finds none, or loses it when `handle_mysql_errno` gives up, returns `mysql_errno(NULL)`,
which is 0, and `direct_commit_transaction` takes that for a success (`Unanswered`), as it
does a COMMIT that the server refused; `blind` marks the calls that succeed without an
answer. The process may end in `handle_mysql_errno`
(`aborted`), after which nothing happens. `try_lock` does not fail spuriously here: a
failure only makes a caller go round once more.

### 2.7 MpscQueue and Fifo

A node is named by the packet it carries. `enqueue` has the three steps that other
threads can tell apart (`Allocate`, `Exchange` of `head_`, `Link`); `dequeue` is one
step of the one consumer, because producers read and write nothing of what it changes
but the link that it tests. `order` and `taken` are histories. The refinement mapping
to `Fifo` is `put <- order, got <- taken`: a packet enters when `head_` is exchanged,
even though the consumer cannot see it until every earlier producer has linked.
Memory is sequentially consistent in the model; the code's orders (release and acquire
on the link, acquire-release on the exchange) are what that needs for a single list.

### 2.8 QueryCallbacks and WorldSocket

A chain is a `query_callback`: `future` holds the query it waits for, `steps` counts
its callbacks. `process_ready_queries` moves `callbacks_` into a local vector and walks
it with `remove_if`; `round` is what it has not visited, `kept` what stays, `current`
the chain whose callback runs. A callback may add a chain (`AddQuery`) or set the next
query of its own (`SetNextQuery`). `f.get()` throws when the operation was discarded
(`InvokeThrows`): the exception leaves `update()`, nobody handles it, and the process
ends.

`callbacks_` has no lock, and `add_query` is also called by handlers, on another thread.
Such a call is two steps, `BeginAdd` and `EndAdd`, with `adding` its chain in between. If
the network thread reads or changes `callbacks_` meanwhile (`Touches`) the call is `torn`:
it may lose its chain.

`WorldSocket` EXTENDS both and adds the socket. The network thread `Net` is the only
consumer and one of the producers, since callbacks call `send_packet` too; the io thread
`Io` runs the handlers (`InHandler`) once the first query has installed them, sends, asks
(`IoAsks`, `IoAdded`) and closes, while `Net` is anywhere in `update()`. `Start` is the
thread that accepted the connection. A torn call may also leave the vector, and the
program, in any state (`IoCorrupts`, `pc = "undefined"`), and so may the destruction of a
socket with a handler in its middle, or of one that nobody closed, whose channel stays in
the loop: `RunEnds` (`stop()`, then the end of `run()`, which forgets the sockets) and
`AddNewSocket` do not close what they drop. Nothing is claimed of such a program beyond
that point. `write_queue` is a history of what `update()` has handed to the base socket.
`pc` is where `update()` is: `Drain` takes a packet and puts it behind the others
(`Fits`), into the emptied buffer (`FlushThenFits`) or into one of its own
(`FlushThenOwn`); `EndDrain` queues the last buffer; `BaseUpdate` stands for
`tcp_socket::update()`, which the source declares and calls but does not define, with
either result; `Visit` is one step of the round of callbacks. Sizes are not modelled, so
any of the three cases may apply to any packet. Which fresh packet is sent, or which
fresh query is asked, makes no difference and is fixed by a `CHOOSE`.

## 3. Runs

| run | constants | states | shows |
|---|---|---|---|
| `db_pool` | 2 connections, 3 operations, 2 with futures | 18 900 | order, ownership, fate of operations, handles; every queued one is taken while a worker is there |
| `db_pool_served` | the same, thread entry of the source | violated | nothing is executed |
| `txn` | 2 workers, 2 direct committers, 4 statements, 2 faults of any of the six kinds | 362 000 | atomicity, the retry lock, the truth of a direct commit, the end of all |
| `txn_twice` | one deadlock | violated | a retried transaction is committed again |
| `txn_reconnect` | one lost connection | violated | the second half of a transaction becomes permanent |
| `sync` | 2 connections, 2 callers and a keeper of one call each, `Width` 3, 2 attempts, 2 repetitions, one lost connection | 265 000 | exclusion, handles, truth of a success; whoever waits is served |
| `loop` | 2 threads, 3 functors, a loop of its own thread and one with an owner | 209 000 | refinement of `Executor`, wakeups, finite rounds, progress, whose thread may be left behind |
| `timers` | 2 timers at 2 addresses, time 0..2, wall clock set once | 1 030 000 | both sets, ownership of objects, cancellation, the alarm; every timer runs or is cancelled |
| `tcp` | 2 messages of 2 units, another thread, calls uninterrupted, two loops, a peer that reads or not | 78 000 | life and death of a connection, its assertions, its buffer |
| `tcp_stream` | the same, calls interrupted, one loop, the server may end | 2 060 000 | the byte stream, the graceful half-close |
| `tcp_read_stopped` | `stop_read` on the loop, `force_close` elsewhere | violated | a connection is closed twice |
| `world_socket` | the network and the io thread, 2 packets, 3 chains of at most 2 callbacks, 3 queries | 371 000 | the queue as a FIFO queue, order of what is written, chains and their results; what was sent is written, what was answered is called |

*Types.* No run checks a type invariant: each module's `TypeOK` (`ThreadTypeOK`,
`QueueTypeOK` and `ChainsTypeOK` are parts) is proved instead, but for `ThreadTypeOK`,
which is a conjunct of the invariant `ThreadInv` in the proof of `ThreadEnded`.

*Bounds.* Each is named in the module that uses it. Three operations let one be queued,
one popped and one cancelled, with two workers to dispute them; two connections let the
second fail after the first has opened. Two statements let a fault strike with and
without earlier work, and two workers in the retry loop are the fewest that the lock can
keep apart; with two faults both can get there, and a refused ROLLBACK can follow the
error that calls for it. Two callers dispute a connection, while
the second connection is with the keeper or without a handle; `Width` 3 is not a
multiple of 2 connections, as 256 is not of 3, so that the index wraps off its cycle.
Three functors are the fewest with one in the round, one queued by it and one from
elsewhere. Two timers, of which one may repeat, suffice for a batch during which either
cancels the other, and for an address that is taken over; with three timers at two
addresses and time 0..1 the safety invariants hold as well. Two messages of two units
are the fewest for which a part of one can pass a part of the other. One other thread
suffices for a connection's calls, because such a call only tests `state_`, sets it and
appends a functor. Two packets let one producer stop between its steps while the other's
packet is behind it; of three chains one can end, one be kept for its second callback and
one be added by the io thread in the middle of the round, and the third query breaks.
With a third sender and two chains `world_socket` passes too, with two packets (57 000
states) and with three (464 000).

`CHECK_DEADLOCK FALSE` is set everywhere: pools are closed, transactions end, loops
leave, connections die, and the bounds on time and calls run out.

`SYMMETRY` is used in `tcp_stream` only, for messages; no liveness is checked there.

*Fairness.* Always weak, and only of what a running thread does by itself.
`DbWorkerPool`: steps of workers, of an open in progress and of a teardown; nobody must
call, close, or be woken without a notification. `DbTransaction`: each thread.
`SyncConnections`: a call that was begun goes on, and so does a round of `keepalive`;
nobody must call, and a caller that spins has no more than that (`Served` holds because
the others make finitely many calls and give back what they hold). `EventLoop`: the loop
thread, where a poll needs to return only when the eventfd is readable (the ten seconds
of `poll_time_ms` are not relied on), and the second half of a call once begun.
`EventLoopThread`: also the owner in the middle of `start_loop()` or the destructor, and
its thread outside the loop; nobody must destroy it. `TimerQueue`: the clock, the loop
handling a readable timerfd and its functors in turn (one poll serves both), callbacks
that return. `TcpConnection`: the loops run functors and report ready descriptors (epoll
is level-triggered), foreign calls are completed and references given up. A descriptor is
ready for writing when the peer has made room, and nothing makes the peer read: that it
goes on reading (`PeerKeepsReading`) is a premise of `BufferDrains`, which TLC finds
violated without it. `WorldSocket`: the network thread calls `update()` over and over and
goes through it until `run()` ends, the io thread ends its `add_query`, a producer
completes its `enqueue`; nobody must send, ask, answer or close. So the specifications
assume nothing of a peer, of the database or of what callers start.

## 4. Theorems

Proved by TLAPS for all values of the constants that satisfy the modules' `ASSUME`s,
which ask for no more than that sets do not contain the "nobody" values, that bounds are
natural numbers and that options are among those known. `SyncConnections` assumes also
one connection at least, and no more of them than its index counts: without the first
the code divides by zero, without the second the last are never tried. Where the code
keeps a promise only if it is used in a certain way, the theorem names that use as a
hypothesis of its own: `OrderlyUse` of connections, and the faults that a server does
not show.

| module | theorem | property |
|---|---|---|
| `DbWorkerPoolProofs` | `TypeCorrect`, `Fifo`, `OneOwner`, `HandleSafe`, `FateTold`, `NothingExecuted` | `TypeOK`, `FifoConservation`, `SingleOwner`, `HandleOutlivesUse`, `FutureTellsFate`; finding 1 for every instance |
| `DbTransactionProofs` | `TypeCorrect`, `RetryExclusion`, `Atomicity`, `DirectTruth` | `TypeOK`, `RetriesAlone`, `SessionClean` and `AllOrNothing`, `DirectTellsTruth` |
| | `AtomicUnlessDisturbed`, `OnceUnlessRetried`, `AttemptsAreFinite` | `DoneIsAtomic` without losses and refused START TRANSACTIONs and ROLLBACKs; `AtMostOnce` without losses and deadlocks; a bounded measure that every step takes further |
| `SyncConnectionsProofs` | `TypeCorrect`, `MutualExclusion`, `HandlesSafe`, `SuccessTold` | `TypeOK`, `OneUser`, `HandlesInUse`, `SuccessIsTrue` |
| `EventLoopProofs` | `TypeCorrect`, `WakeupSafe`, `LoopImplementsExecutor`, `Rounds` | `TypeOK`, `NoLostWakeup`, `ImplementsExecutor`, `RoundsAreFinite` |
| | `ThreadImplementsLoop`, `ThreadWakeupSafe`, `ThreadImplementsExecutor`, `ThreadRounds`, `ThreadEnded` | `EventLoop`'s `Spec`, the three above, `NobodyLeftBehind` |
| `TimerQueueProofs` | `TypeCorrect`, `Agreement`, `Ownership`, `TimersKept`, `CancelledGone`, `Alarmed` | `TypeOK`, `SetsAgree`, `OneHolder`, `NobodyElsesTimer`, `CancelledNeverWaits`, `AlarmSet` |
| `TcpConnectionProofs` | `TypeCorrect`, `Stream`, `HalfCloseGraceful` | `TypeOK`, `StreamIntact`, `GracefulShutdown` |
| | under `OrderlyUse`: `LifeOnce`, `NoAssertionFails`, `DiesClean`, `NeverRevived` | `UpThenDown`, `AssertionsHold`, `CleanDeath` (also without `Races`), `state_` goes forward only |
| `MpscQueueProofs` | `QueueTypeCorrect`, `NodesSafe`, `EmptySaysTrue`, `Implementation` | `QueueTypeOK`, `MemorySafe`, `EmptyIsTrue`, `ImplementsFifo` |
| `WorldSocketProofs` | `TypeCorrect`, `SocketNodesSafe`, `SocketEmptySaysTrue`, `SocketQueueIsFifo`, `SocketResultsInOrder`, `SocketForgetsNone`, `SocketWritesInOrder` | `TypeOK`, the three above, `ResultsInOrder`, `NoneForgotten`, `WrittenInOrder` |

The arguments:

- *Fifo.* `FifoInv` adds to the property that nothing was dropped unless the queue is
  shut: `cancel` moves the queue behind what was dropped before, and a pop, which needs
  an open queue, then moves the front of the queue behind an empty `dropped`. Lemmas on
  concatenation (`MoveFront`, `AppendToConcat`) carry the rest.
- *OneOwner.* `SingleOwner` is inductive with `TypeOK`, since it fixes the status of
  what is queued and of what is held; so a fresh operation is neither.
- *HandleSafe.* `HandleInv` says why a worker never runs without a handle: while
  operations can be popped every connection is open, and a connection can be joined, and
  its handle freed, only after the queue was shut.
- *FateTold.* `FateInv` ties the future of an operation to its status (`OpFate`) and the
  status to where its worker is (`WorkerFate`). That no worker settles an operation that
  another has is `SingleOwner`, used as an invariant already proved.
- *NothingExecuted.* With the entry that the source gives its threads a worker starts and
  exits and does nothing else, so an operation is made, queued or discarded (`Untouched`);
  a fulfilled promise would contradict `FateTold`.
- *RetryExclusion.* `TriesInv` bounds the counter, which `TypeOK` alone does not, and
  says that a thread that waits for the lock is not counted as retrying. Then each way
  out of the loop gives the lock back.
- *Atomicity.* `AtomInv`: on an `Undisturbed` connection a thread between `START
  TRANSACTION` and its end has a transaction open, which holds exactly the statements
  before `pos`; elsewhere a session that is still in a transaction, because its COMMIT was
  refused, holds all of them or none. So whatever commits it, the next `START TRANSACTION`
  included, adds one to every statement or to none.
- *DirectTruth.* `TruthInv`: on an undisturbed connection nothing is durable until an
  attempt succeeds, and then everything is, once, since no attempt follows; or the COMMIT
  of that attempt was refused, and then everything is durable once or may yet become so. It
  speaks of direct transactions. `AtomInv` gives what a commit makes durable; a step of
  another thread leaves all of it alone (`OthersKept`).
- *AtomicUnlessDisturbed*, *OnceUnlessRetried.* They mark off findings 2 and 3. Without
  losses and refused START TRANSACTIONs and ROLLBACKs `Atomicity` speaks of every
  connection. Without losses and deadlocks no worker reaches a second attempt, and
  `OnceInv` counts for each statement how often it is permanent or open: once at most, if
  the thread has got as far, whatever else is refused.
- *AttemptsAreFinite.* The safety half of `AllFinish`. A step of a thread increases its
  tries, or keeps them and lowers its `Stage`, or keeps both and spends a fault; each is
  bounded, and no thread changes the tries or the stage of another.
- *MutualExclusion.* `OneUser` is inductive with the types: whoever locks was using
  nothing, and `unlock()` is the only way to stop using.
- *HandlesSafe.* `HandleInv`: a handle in `mysql_` is not among the closed ones unless
  the thread that holds the mutex has just closed it, and a handle is made once. So a
  statement, whose thread holds the mutex and is not between those two steps, finds a
  live one.
- *SuccessTold.* `ResultInv` bounds what the server has executed by the losses, by where
  the thread is: before a request is sent, as many at most; behind it, one more. A
  success without an execution is a commit that is `blind`.
- *WakeupSafe.* `WakeupInv` holds from the moment the functors of a round have been
  swapped out until the next poll, for the eventfd may have been read before.
- *LoopImplementsExecutor.* `UsedInv`: a functor that is queued or started has been
  handed over, so a fresh one meets the guard of `Executor`. Then each step of
  `EventLoop` is a `Submit`, a `RunNow`, a `RunNext` or leaves `inbox` and `done`.
- *Rounds.* Only the swap in `do_pending_functors` fills `functors`, and it begins a round.
- *ThreadImplementsLoop.* Each step of `EventLoopThread` is a step of `EventLoop` or
  leaves its variables (`StepIsLoopStep`), so that what was proved of the loop holds of
  it. *ThreadEnded* needs `ThreadInv`, which relates the owner, the published pointer,
  the phase of the loop and the end of its thread: whoever has seen `loop_` set finds it
  NULL only when the loop has been left.
- *Agreement*, *Ownership*. One invariant `Inv`: the types, the two sets' agreement, a
  functor for each timer that was made and not yet inserted (`InboxInv`), no object
  twice in a batch (`BatchInv`), each object at the address that `made` gives it
  (`Located`), and disjoint holders. Neither property is inductive without the others:
  inserting a timer keeps the sets in agreement because its object was in no set, which
  is ownership, and `reset()` may delete the batch because no set refers to it.
- *TimersKept.* `StayInv`: the timers of a batch that `handleRead` has passed have run,
  so that `reset()`, when it has passed all, deletes none that has not; the other steps
  that free an object free one that a caller's `Timer_id` named. `IdInv`: as long as a
  timer is there, the number that its own caller gets is its own; a wrong one was read
  after it was deleted. `NamedStays`: who was named stays named.
- *CancelledGone.* `CancelInv`: a cancelled timer is in neither set, and if its object
  is still there it is in the running batch with its key in `canceling_timers_`, so that
  `reset()` drops it. The key has the
  sequence number, so that another timer at the same address is not taken for it.
- *Alarmed.* `AlarmInv` adds that the clocks agree until one is set, and that `armed`
  is -1 or a time; inserting a timer rearms exactly if it is the earliest, and `reset()`
  rearms for the earliest of what it leaves.
- *Stream.* `StreamInv`: what was written followed by what waits is what the loop took,
  or the socket is broken, nothing waits and nothing is polled for, so that nothing is
  written any more and what was written stays a prefix. `StreamIntact` alone is not
  inductive: it does not say that a broken socket with an empty buffer will not be
  written to. Only the two ways into `send_in_loop` and `handle_write` touch the stream
  (`StreamSend`, `StreamWrite`); all other steps are `Quiet`.
- *HalfCloseGraceful.* `WaitInv`: until the connection goes down, what waits is polled
  for. So when `shutdown_in_loop` finds that nothing is polled for, nothing waits, and by
  `StreamInv` all was written. This one holds of every use.
- *LifeOnce*, *NoAssertionFails*, *DiesClean*, *NeverRevived.* `LifeInv` takes a
  connection through five phases: connecting, up, leaving (closed, the server's loop not
  told yet), removed from the map with one `connect_destroyed` queued, and over. Each
  fixes the callbacks so far, the state, the channel's index and events, the map and
  which functors can still be in the queue, and each step stays in a phase or takes the
  next (`LifeStep`). `OrderlyUse` is what the code needs for it: nobody calls
  `stop_read()` or `start_read()`, no step of the loop falls between the test and the
  write of `state_` in another thread's `shutdown()` or `force_close()`, and the server
  outlives its connections. TLC finds `UpThenDown` and `AssertionsHold` violated without
  any one of these, which is finding 4 and what section 5 says of `tcp_connection.cpp` and
  `tcp_server.cpp`. The run `tcp` is an instance of `OrderlyUse`. A `send()` of another thread may race (`Races` with
  `OtherCalls = {"send"}`) except in `DiesClean`: its functor may be left behind.
- *NodesSafe*, *EmptySaysTrue*, *Implementation*. `Inv` describes the list by the
  history `order`: node `i` is linked to node `i + 1` unless the producer of the latter
  has yet to link; `tail_` is node `Len(taken)`, `head_` the last; exactly the nodes
  from the tail on, and those being put in, are alive; no packet is queued twice. From
  it, what `dequeue` returns is the next of `order`.
- *Socket...* Each step of `WorldSocket` is a step of `MpscQueue` or leaves it
  (`QueueStep`, with which the theorems about the queue carry over), and a step of the
  chains or leaves them (`ChainStep`). `SocketForgetsNone` shows that the three vectors,
  the running chain and the one that the io thread is adding stay disjoint and without
  repetition, and that only chains whose `add_query` was torn can be missing (`PlaceInv`).
- *SocketWritesInOrder.* What was written is `FlattenSeq(write_queue) \o batch`;
  `dequeue()` appends the next of the queue to `batch`, and the write of a full buffer
  moves `batch` behind `write_queue`. `FlattenSeq` is a recursive function, of which the
  lemmas `FlattenType` and `FlattenAppend` are proved through the least index at which
  they would fail, since the library's induction cannot be used.

Only model-checked: all liveness (`QueuedIsServed`, `AllFinish`, `Served`, `QueuedRuns`,
`QuitEndsLoop`, `TimerRuns`, `PeerGoneEnds`, `BufferDrains`, `SentIsWritten`,
`AnsweredIsCalled`), which rests on fairness and `ENABLED`, and those the prover does not
handle.

## 5. Findings

Each is shown by a run of section 3.

1. `DB/database_worker.cpp:9`: the worker threads end at once; nothing queued is
   executed (`db_pool_served`).
2. `DB/transaction.cpp:72`: the retry after a deadlock goes on after a success and stops
   after a failure, so a transaction may be committed five times (`txn_twice`).
   `direct_commit_transaction` has the test right.
3. `DB/mysql_connection.cpp:126`: a connection that is lost inside a transaction is
   replaced, and the rest of the transaction becomes permanent without its beginning
   (`txn_reconnect`).
4. `NET/poller.cpp:101`: `stop_read()` on a closed connection registers its descriptor
   again; `handle_close()` runs a second time (`tcp_read_stopped`).

Met while modelling, and reproduced by other constants or another property of the same
modules:

- `NET/event_loop.cpp:82`: `loop()` erases an earlier `quit()`, which
  `~Event_loop_thread` can issue; the source marks it `FIXME` (`QuitIsHonoured` of
  `EventLoop`, added to `EventLoop.cfg`). `QuitEndsLoop` is about the others.
- `NET/tcp_connection.cpp:187`: `shutdown()` may overwrite `kDisconnected`
  (`Races = TRUE` with a foreign `shutdown`: `CleanDeath`).
- `NET/tcp_connection.cpp:325`: a half-closed connection is removed with its events on
  when the server is destroyed (`ServerEnds = TRUE`: `AssertionsHold`).
- `NET/tcp_server.cpp:89` and `95`: callbacks bound to a raw server, marked `FIXME:
  unsafe` (`ServerEnds = TRUE`, two loops: `AssertionsHold`).
- A message sent by another thread is lost if a `shutdown()` overtakes its functor: when
  `state_` is already `kDisconnecting`, `handle_write` half-closes as soon as its buffer
  is empty.
- `DB/database_worker_pool.cpp:313`: `escape_string` uses the first connection's handle
  without its lock, while another thread may close it; `keepalive` pings a connection
  that has lost its handle. `HandlesInUse` allows these and nothing else; without its
  three exceptions it fails.

- `DB/mysql_connection.cpp:288`, `304`: a refused START TRANSACTION leaves the statements
  in autocommit, so that a later error rolls back nothing; a refused ROLLBACK leaves them to
  the next user's START TRANSACTION, which commits them. `DoneIsAtomic` is violated in
  `DbTransactionReconnect.cfg` with `Faults = {"begin", "failed"}` or
  `{"rollback", "failed"}` and `MaxFaults = 2`, and holds with `{"commit", "failed"}`.
- `DB/mysql_connection.cpp:329`, `DB/database_worker_pool.cpp:210`: a COMMIT that is refused
  is reported as a success, and so is a transaction on a connection that has no handle,
  because the code returned is `mysql_errno(NULL)`, 0. The comment calls that code
  `OK，操作成功` (`DB/database_worker_pool.cpp:211`). `DirectTellsTruth` and `SuccessIsTrue`
  name these exceptions; `SuccessIsTrue` without the second is violated.
- `NET/event_loop_thread.cpp:17`: the destructor may find `loop_` NULL and return before
  its thread has ended, or call `quit()` of a loop that has gone; its comment says "not
  100% race-free". `NobodyLeftBehind` claims of a skipped join only that the loop was left;
  that its thread has ended (`over`) is violated.
- `NET/timer_queue.cpp:110`: `timer->sequence()` after the timer was given away may read
  freed memory, and the `Timer_id` then cancels another timer. `NobodyElsesTimer` with "not
  asked to be cancelled" in the place of "not named" is violated in 11 states.
- `DB/query_callback_processor.cpp:19`: `callbacks_` is moved, tested and inserted into
  while a handler may add to it on the io thread (`world_socket.cpp:674`, `883`, `1093`).
  `NoneForgotten` without `\ torn` is violated.

Met while reading, where the model abstracts from what is wrong:

- `DB/mysql_connection.cpp:89`: when `open()` fails in a reconnection, its error code is
  read from a handle that was closed before. `ReconnectAgain`, `ReprepareFails` and
  `GiveUp` are the outcomes.
- `DB/database_worker_pool.cpp:95`: `prepare_statements` ignores the result of
  `lock_if_ready` and would unlock another's mutex; only the loader's thread calls it,
  when there are no others.
- `DB/database_worker_pool.cpp:331`: without a synchronous connection
  `get_free_connection` divides by zero.
- `DB/query_callback.cpp:190`: `f.get()` throws for a discarded operation, and no caller
  of `update()` handles it.
- `server/game/server/world_socket.cpp:216`: the test for space in the buffer leaves out
  the two bytes of the opcode that `write_packet_to_buffer` adds (line 544).
- `tcp_socket.cpp` (in `server/shared/networking`): `write_queue_` is filled by the network
  thread and emptied by `handle_queue` on the io thread without a lock, though
  `world_socket.cpp:127` says "IoContext.run thread, safe" of such a call; line 237 tests `close`, the address
  of a function, where `closing_` may have been meant; `network_thread` calls
  `close_socket()`, which asserts the loop's thread, from its own; and the sockets that
  `stop()` and the end of `run()` drop are open, which the destructor asserts they are not.
- `TH/mpsc_queue.h:24`: packets that are left when a queue is destroyed are taken and
  never deleted.

## 6. Not modelled

- The parts of section 1 without a row in section 2. They are conversions, wrappers of
  system calls, rendering, exercises, or run on one thread; vendored libraries
  (`externals/`) are most of the repository's lines. `PROJECT.json` has the reason for
  each.
- Of the modelled parts: prepared statements and result sets; more than one connection
  of a server; `Acceptor`, `Connector`, `Tcp_client`; the round robin of
  `Event_loop_threadpool`, which only its base loop calls; high-water-mark callbacks,
  `force_close_with_delay` and the contents of buffers (a message is an atom with parts,
  a packet an atom); the handshake of a world socket; `locked_queue`.
- `tcp_socket::update()` and the timer that calls `network_thread::update()`: the source
  declares or calls them and has no definition.
- That `open_connections(IDX_SYNCH)` fails after the asynchronous connections are open
  (`DB/database_worker_pool.cpp:64-69`); it ends like a failure of theirs after all have
  opened. The buffers that `update()` has queued and the base socket's writing of them. The
  steps between `stop()` and the end of `run()`, in which `update()` does nothing.
- Memory order: `quit_`, `calling_pending_functors_`, `loop_` and `state_` are plain
  variables read by several threads, and the `mpsc_queue` uses weaker orders than
  sequential consistency; the model reads and writes each in one step.
- Failures of `malloc`, `epoll_ctl`, `eventfd`.

## 7. Plan

In order. Ticked steps are done.

| step | modules | what for |
|---|---|---|
| 1 ✔ | `DbWorkerPool` | the queue shared by threads that are created and destroyed |
| 2 ✔ | `DbTransaction` | atomicity under retries and reconnection |
| 3 ✔ | `Executor`, `EventLoop` | the basis of the reactor, with its abstract specification |
| 4 ✔ | `TimerQueue` | cancellation and time |
| 5 ✔ | `TcpConnection` | the life of a connection across two loops |
| 6 ✔ | `QueryCallbacks` | chains of callbacks over the futures of 1, exceptions of `get()` |
| 7 ✔ | `SyncConnections` | mutual exclusion and reconnection of borrowed connections |
| 8 ✔ | `EventLoopThread` over `EventLoop` | publication and destruction of loops |
| 9 ✔ | `MpscQueue` implementing `Fifo` | linearisation of a lock-free enqueue |
| 10 ✔ | `WorldSocket` over 6 and 9 | the packets and queries of a client |
| 11 | `Buffer` implementing a sequence of bytes; `message_buffer` | `make_space` at its boundaries |
| 12 | `TcpServer` over `TcpConnection` | many connections, descriptors that run out; the handshake |

Proofs that remain, with the modules of steps 11 and 12: that `Buffer` implements a
sequence of bytes. Of the liveness properties only the parts that are safety can be
proved, as `AttemptsAreFinite` is of `AllFinish`; `TimerRuns` and `SentIsWritten` have
such parts too.
