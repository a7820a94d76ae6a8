---------------------------- MODULE DbWorkerPool ----------------------------
(***************************************************************************)
(* The asynchronous half of database_worker_pool<T>: the shared            *)
(* producer_consumer_queue<sql_operation*>, the mysql_connections that own *)
(* one database_worker thread each, and the thread that opens, closes and  *)
(* destroys the pool (database_loader and main; called the owner here).    *)
(*                                                                         *)
(* One action is one critical section of producer_consumer_queue::mutex_,  *)
(* or one stretch of a thread that touches no shared state.  What a        *)
(* statement does on the server is left out (see DbTransaction): an        *)
(* operation is executed or it is not, and its promise is set or broken.   *)
(*                                                                         *)
(* The source hands its thread the data member worker_thread_ instead of   *)
(* the function worker_thread(): such a thread ends at once, and nothing   *)
(* takes operations from the queue.  ThreadEntry = {"worker_thread_"} is   *)
(* this source; "worker_thread()" in it lets threads enter the function    *)
(* that was meant, so that its code can be checked as well.                *)
(***************************************************************************)
EXTENDS Integers, Sequences, FiniteSets

CONSTANTS AsyncThreads,  \* async_threads_ of set_connection_info
          Op,            \* the sql_operation objects that callers allocate
          Asks,          \* those that own a promise: async_query, delay_query_holder
          NoOp,          \* nullptr
          ThreadEntry    \* what std::thread may be given in database_worker.cpp

ASSUME AsyncThreadsAssumption == AsyncThreads \in Nat \ {0}
ASSUME OpAssumption == Asks \subseteq Op /\ NoOp \notin Op
ASSUME EntryAssumption == ThreadEntry \subseteq {"worker_thread_", "worker_thread()"}

VARIABLES
  queue,     \* producer_consumer_queue::queue_
  shutdown,  \* producer_consumer_queue::shutdown_
  wpc,       \* where each worker thread is
  wop,       \* the local variable op of worker_thread()
  token,     \* cancelation_token_ of each worker
  conn,      \* life of each asynchronous mysql_connection
  mysql,     \* the connections whose MYSQL handle mysql_ is not null
  opst,      \* life of each sql_operation
  future,    \* shared state of the future taken from each operation
  phase, cur, dying, opens, retry,  \* the owner: see below
  pushed, popped, dropped           \* history: order of push, pop and deletion by cancel

poolVars  == <<queue, shutdown>>
wrkVars   == <<wpc, wop>>
ownerVars == <<phase, cur, dying, opens, retry>>
history   == <<pushed, popped, dropped>>
vars == <<queue, shutdown, wpc, wop, token, conn, mysql, opst, future,
          phase, cur, dying, opens, retry, pushed, popped, dropped>>

\* connections_[IDX_ASYNC] is filled in this order and destroyed in it.
Worker == 1 .. AsyncThreads

WorkerState == {"none",    \* no thread
                "start",   \* thread created, has not begun
                "pop",     \* about to evaluate the loop condition of wait_and_pop
                "waiting", \* blocked in cv_.wait
                "popped",  \* wait_and_pop returned, token not read yet
                "running", \* in op->call()
                "done",    \* call() returned, op not deleted yet
                "exited",  \* worker_thread() returned
                "wild"}    \* dereferenced an indeterminate queue_

\* "ctor": the thread is started, the members declared after it are not set.
ConnState == {"none", "ctor", "built", "stopping", "joining"}

OpState == {"none", "made", "queued", "held", "executed",
            "freed", "discarded", "leaked"}

FutureState == {"none", "pending", "ready", "broken"}

TypeOK ==
  /\ queue \in Seq(Op)
  /\ shutdown \in BOOLEAN
  /\ wpc \in [Worker -> WorkerState]
  /\ wop \in [Worker -> Op \cup {NoOp}]
  /\ token \in [Worker -> BOOLEAN]
  /\ conn \in [Worker -> ConnState]
  /\ mysql \in SUBSET Worker
  /\ opst \in [Op -> OpState]
  /\ future \in [Op -> FutureState]
  /\ phase \in {"opening", "serving", "tearing", "down", "destroying", "gone"}
  /\ cur \in Worker
  /\ dying \in SUBSET Worker
  /\ opens \in {1, 2}
  /\ retry \in BOOLEAN
  /\ pushed \in Seq(Op) /\ popped \in Seq(Op) /\ dropped \in Seq(Op)

Init ==
  /\ queue = <<>> /\ shutdown = FALSE
  /\ wpc = [w \in Worker |-> "none"] /\ wop = [w \in Worker |-> NoOp]
  /\ token = [w \in Worker |-> FALSE]
  /\ conn = [w \in Worker |-> "none"] /\ mysql = {}
  /\ opst = [o \in Op |-> "none"] /\ future = [o \in Op |-> "none"]
  /\ phase = "opening" /\ cur = 1 /\ dying = {} /\ opens = 1 /\ retry = FALSE
  /\ pushed = <<>> /\ popped = <<>> /\ dropped = <<>>

-----------------------------------------------------------------------------
(* Callers.  The note in close() says that it runs only after every other  *)
(* thread has finished, so callers exist only while the pool serves.       *)

\* new basic_statement_task / prepared_statement_task / ping_operation ...
NewOperation(o) ==
  /\ phase = "serving" /\ opst[o] = "none"
  /\ opst' = [opst EXCEPT ![o] = "made"]
  /\ UNCHANGED <<poolVars, wrkVars, token, conn, mysql, future, ownerVars, history>>

\* result = task->get_future(), before the task is shared
GetFuture(o) ==
  /\ o \in Asks /\ opst[o] = "made" /\ future[o] = "none"
  /\ future' = [future EXCEPT ![o] = "pending"]
  /\ UNCHANGED <<poolVars, wrkVars, token, conn, mysql, opst, ownerVars, history>>

Waiting == {w \in Worker : wpc[w] = "waiting"}

\* Defect for NotifyOne: push without a notification.
NotifyNobody == UNCHANGED wpc

\* cv_.notify_one(): one blocked thread, if there is one, re-evaluates its loop
NotifyOne ==
  IF Waiting = {} THEN UNCHANGED wpc
  ELSE \E w \in Waiting : wpc' = [wpc EXCEPT ![w] = "pop"]

\* enqueue(op): push under the queue's mutex
Enqueue(o) ==
  /\ opst[o] = "made" /\ (o \in Asks => future[o] # "none")
  /\ queue' = Append(queue, o) /\ pushed' = Append(pushed, o)
  /\ opst' = [opst EXCEPT ![o] = "queued"]
  /\ NotifyOne
  /\ UNCHANGED <<shutdown, wop, token, conn, mysql, future, ownerVars, popped, dropped>>

-----------------------------------------------------------------------------
(* The thread of a database_worker.                                        *)

\* std::thread(&database_worker::worker_thread_, this): invoking a pointer to a
\* data member yields the member, and the thread is over
EvaluateMember(w) ==
  /\ "worker_thread_" \in ThreadEntry /\ wpc[w] = "start"
  /\ wpc' = [wpc EXCEPT ![w] = "exited"]
  /\ UNCHANGED <<poolVars, wop, token, conn, mysql, opst, future, ownerVars, history>>

\* "if(!queue_) return": while the constructor has not initialised queue_ the
\* value read is indeterminate: null ends the thread, garbage is dereferenced.
ReadQueueMember(w) ==
  /\ "worker_thread()" \in ThreadEntry /\ wpc[w] = "start"
  /\ IF conn[w] = "ctor"
     THEN \E s \in {"exited", "wild"} : wpc' = [wpc EXCEPT ![w] = s]
     ELSE wpc' = [wpc EXCEPT ![w] = "pop"]
  /\ UNCHANGED <<poolVars, wop, token, conn, mysql, opst, future, ownerVars, history>>

\* while(queue_.empty() || shutdown_) cv_.wait(lock)
Wait(w) ==
  /\ wpc[w] = "pop" /\ (queue = <<>> \/ shutdown)
  /\ wpc' = [wpc EXCEPT ![w] = "waiting"]
  /\ UNCHANGED <<poolVars, wop, token, conn, mysql, opst, future, ownerVars, history>>

\* Defects for Pop: last in first out; front() without pop().
PopBack(w) ==
  /\ wpc[w] = "pop" /\ queue # <<>> /\ ~shutdown
  /\ queue' = SubSeq(queue, 1, Len(queue) - 1) /\ popped' = Append(popped, queue[Len(queue)])
  /\ wop' = [wop EXCEPT ![w] = queue[Len(queue)]]
  /\ opst' = [opst EXCEPT ![queue[Len(queue)]] = "held"]
  /\ wpc' = [wpc EXCEPT ![w] = "popped"]
  /\ UNCHANGED <<shutdown, token, conn, mysql, future, ownerVars, pushed, dropped>>

PopKeepsFront(w) ==
  /\ wpc[w] = "pop" /\ queue # <<>> /\ ~shutdown
  /\ popped' = Append(popped, Head(queue))
  /\ wop' = [wop EXCEPT ![w] = Head(queue)]
  /\ opst' = [opst EXCEPT ![Head(queue)] = "held"]
  /\ wpc' = [wpc EXCEPT ![w] = "popped"]
  /\ UNCHANGED <<poolVars, token, conn, mysql, future, ownerVars, pushed, dropped>>

\* v = queue_.front(); queue_.pop()
Pop(w) ==
  /\ wpc[w] = "pop" /\ queue # <<>> /\ ~shutdown
  /\ queue' = Tail(queue) /\ popped' = Append(popped, Head(queue))
  /\ wop' = [wop EXCEPT ![w] = Head(queue)]
  /\ opst' = [opst EXCEPT ![Head(queue)] = "held"]
  /\ wpc' = [wpc EXCEPT ![w] = "popped"]
  /\ UNCHANGED <<shutdown, token, conn, mysql, future, ownerVars, pushed, dropped>>

\* cv_.wait may return without a notification
SpuriousWakeup(w) ==
  /\ wpc[w] = "waiting"
  /\ wpc' = [wpc EXCEPT ![w] = "pop"]
  /\ UNCHANGED <<poolVars, wop, token, conn, mysql, opst, future, ownerVars, history>>

\* if(cancelation_token_ || !op) return: the operation popped last is neither
\* executed nor deleted
ReadToken(w) ==
  /\ wpc[w] = "popped"
  /\ IF token[w]
     THEN /\ wpc' = [wpc EXCEPT ![w] = "exited"]
          /\ opst' = [opst EXCEPT ![wop[w]] = "leaked"]
          /\ wop' = [wop EXCEPT ![w] = NoOp]
     ELSE wpc' = [wpc EXCEPT ![w] = "running"] /\ UNCHANGED <<opst, wop>>
  /\ UNCHANGED <<poolVars, token, conn, mysql, future, ownerVars, history>>

\* Defect for Execute: execute() returns early and forgets set_value.
ExecuteWithoutValue(w) ==
  /\ wpc[w] = "running"
  /\ wpc' = [wpc EXCEPT ![w] = "done"]
  /\ opst' = [opst EXCEPT ![wop[w]] = "executed"]
  /\ UNCHANGED <<poolVars, wop, token, conn, mysql, future, ownerVars, history>>

\* op->set_connection(connection_); op->call(): result_.set_value
Execute(w) ==
  /\ wpc[w] = "running"
  /\ wpc' = [wpc EXCEPT ![w] = "done"]
  /\ opst' = [opst EXCEPT ![wop[w]] = "executed"]
  /\ future' = IF wop[w] \in Asks THEN [future EXCEPT ![wop[w]] = "ready"] ELSE future
  /\ UNCHANGED <<poolVars, wop, token, conn, mysql, ownerVars, history>>

\* delete op
DeleteOperation(w) ==
  /\ wpc[w] = "done"
  /\ wpc' = [wpc EXCEPT ![w] = "pop"]
  /\ opst' = [opst EXCEPT ![wop[w]] = "freed"]
  /\ wop' = [wop EXCEPT ![w] = NoOp]
  /\ UNCHANGED <<poolVars, token, conn, mysql, future, ownerVars, history>>

-----------------------------------------------------------------------------
(* The owner: database_loader::add_database's open lambda, close, ~pool.   *)
(*   opening     in open_connections(IDX_ASYNC), at connection cur         *)
(*   serving     open() returned 0                                         *)
(*   tearing     destroying the connections in dying, one after the other  *)
(*   down        open() failed or close() returned                         *)
(*   destroying  in ~database_worker_pool                                  *)

\* make_unique<T>(queue_, info): ~database_worker's thread starts in the member
\* initializer before queue_ is set
StartConnection ==
  /\ phase = "opening" /\ conn[cur] = "none"
  /\ conn' = [conn EXCEPT ![cur] = "ctor"]
  /\ wpc' = [wpc EXCEPT ![cur] = "start"]
  /\ token' = [token EXCEPT ![cur] = FALSE]
  /\ UNCHANGED <<poolVars, wop, mysql, opst, future, ownerVars, history>>

FinishConstructor ==
  /\ phase = "opening" /\ conn[cur] = "ctor"
  /\ conn' = [conn EXCEPT ![cur] = "built"]
  /\ UNCHANGED <<poolVars, wrkVars, token, mysql, opst, future, ownerVars, history>>

\* connection->open() returned 0: push_back, next connection
ConnectOk ==
  /\ phase = "opening" /\ conn[cur] = "built"
  /\ mysql' = mysql \cup {cur}
  /\ IF cur = AsyncThreads THEN phase' = "serving" /\ UNCHANGED cur
                           ELSE cur' = cur + 1 /\ UNCHANGED phase
  /\ UNCHANGED <<poolVars, wrkVars, token, conn, opst, future, dying, opens, retry, history>>

\* connection->open() failed: connections_[type].clear(), then the local
\* connection dies; ER_BAD_DB_ERROR lets the loader create the database
ConnectError ==
  /\ phase = "opening" /\ conn[cur] = "built"
  /\ phase' = "tearing" /\ dying' = 1 .. cur
  /\ \E badDb \in BOOLEAN : retry' = badDb
  /\ UNCHANGED <<poolVars, wrkVars, token, conn, mysql, opst, future, cur, opens, history>>

\* the server is too old: return 1 without clear(), only the local connection dies
OldServer ==
  /\ phase = "opening" /\ conn[cur] = "built"
  /\ mysql' = mysql \cup {cur}
  /\ phase' = "tearing" /\ dying' = {cur} /\ retry' = FALSE
  /\ UNCHANGED <<poolVars, wrkVars, token, conn, opst, future, cur, opens, history>>

\* db_updater::create, then pool.open() once more
Reopen ==
  /\ phase = "down" /\ opens = 1 /\ retry
  /\ phase' = "opening" /\ opens' = 2 /\ cur' = 1
  /\ UNCHANGED <<poolVars, wrkVars, token, conn, mysql, opst, future, dying, retry, history>>

\* close(): connections_[IDX_ASYNC].clear()
Close ==
  /\ phase = "serving" /\ \A o \in Op : opst[o] # "made"
  /\ phase' = "tearing" /\ dying' = Worker /\ retry' = FALSE
  /\ UNCHANGED <<poolVars, wrkVars, token, conn, mysql, opst, future, cur, opens, history>>

Elements(s) == {s[i] : i \in DOMAIN s}

\* producer_consumer_queue::cancel(): every queued operation is deleted, which
\* breaks its promise; all waiters are notified
CancelQueue ==
  /\ queue' = <<>> /\ shutdown' = TRUE
  /\ dropped' = dropped \o queue
  /\ opst' = [o \in Op |-> IF o \in Elements(queue) THEN "discarded" ELSE opst[o]]
  /\ future' = [o \in Op |-> IF o \in Elements(queue) \cap Asks THEN "broken" ELSE future[o]]
  /\ wpc' = [w \in Worker |-> IF wpc[w] = "waiting" THEN "pop" ELSE wpc[w]]

Destroying(w) ==
  /\ phase \in {"tearing", "destroying"}
  /\ w \in dying /\ \A v \in dying : w <= v

\* Defect for SetToken: mysql_connection::close frees the handle before worker_.reset().
SetTokenAfterHandleClosed(w) ==
  /\ Destroying(w) /\ conn[w] = "built"
  /\ token' = [token EXCEPT ![w] = TRUE]
  /\ conn' = [conn EXCEPT ![w] = "stopping"]
  /\ mysql' = mysql \ {w}
  /\ UNCHANGED <<poolVars, wrkVars, opst, future, ownerVars, history>>

\* ~database_worker: cancelation_token_ = true
SetToken(w) ==
  /\ Destroying(w) /\ conn[w] = "built"
  /\ token' = [token EXCEPT ![w] = TRUE]
  /\ conn' = [conn EXCEPT ![w] = "stopping"]
  /\ UNCHANGED <<poolVars, wrkVars, mysql, opst, future, ownerVars, history>>

\* ~database_worker: queue_->cancel() on the queue shared with the other workers
CancelShared(w) ==
  /\ Destroying(w) /\ conn[w] = "stopping"
  /\ CancelQueue
  /\ conn' = [conn EXCEPT ![w] = "joining"]
  /\ UNCHANGED <<wop, token, mysql, ownerVars, pushed, popped>>

\* worker_thread_.join(); then mysql_connection::close frees the handle
JoinAndClose(w) ==
  /\ Destroying(w) /\ conn[w] = "joining" /\ wpc[w] = "exited"
  /\ wpc' = [wpc EXCEPT ![w] = "none"]
  /\ conn' = [conn EXCEPT ![w] = "none"]
  /\ mysql' = mysql \ {w} /\ dying' = dying \ {w}
  /\ UNCHANGED <<poolVars, wop, token, opst, future, phase, cur, opens, retry, history>>

TornDown ==
  /\ phase \in {"tearing", "destroying"} /\ dying = {}
  /\ phase' = IF phase = "tearing" THEN "down" ELSE "gone"
  /\ UNCHANGED <<poolVars, wrkVars, token, conn, mysql, opst, future,
                 cur, dying, opens, retry, history>>

\* ~database_worker_pool: queue_->cancel(), then the members are destroyed
DestroyPool ==
  /\ phase = "down" /\ (opens = 2 \/ ~retry)
  /\ CancelQueue
  /\ phase' = "destroying" /\ dying' = {w \in Worker : conn[w] # "none"}
  /\ UNCHANGED <<wop, token, conn, mysql, cur, opens, retry, pushed, popped>>

Caller(o) == NewOperation(o) \/ GetFuture(o) \/ Enqueue(o)

WorkerStep(w) ==
  EvaluateMember(w) \/ ReadQueueMember(w) \/ Wait(w) \/ Pop(w) \/ ReadToken(w) \/ Execute(w) \/ DeleteOperation(w)

Opening == StartConnection \/ FinishConstructor \/ ConnectOk \/ ConnectError
           \/ OldServer \/ Reopen

Teardown == \/ \E w \in Worker : SetToken(w) \/ CancelShared(w) \/ JoinAndClose(w)
            \/ TornDown \/ DestroyPool

Next == \/ \E o \in Op : Caller(o)
        \/ \E w \in Worker : WorkerStep(w) \/ SpuriousWakeup(w)
        \/ Opening \/ Close \/ Teardown

Spec == Init /\ [][Next]_vars

\* Threads that can run do run; nobody is obliged to call, to close, or to be
\* woken without a notification.
Fairness == /\ \A w \in Worker : WF_vars(WorkerStep(w))
            /\ WF_vars(Opening) /\ WF_vars(Teardown)

FairSpec == Spec /\ Fairness

-----------------------------------------------------------------------------
\* The queue is first-in first-out over all threads, across cancellations and
\* a second open(): what was pushed is what was popped, then what cancel()
\* deleted, then what is still queued, in that order.
FifoConservation == pushed = popped \o dropped \o queue

\* Nobody can reach a deleted or foreign operation (sql_operation is passed by
\* raw pointer): queued operations are queued once and held by no worker, and a
\* worker's operation is alive and held by it alone.
SingleOwner ==
  /\ \A i, j \in DOMAIN queue : queue[i] = queue[j] => i = j
  /\ \A i \in DOMAIN queue : opst[queue[i]] = "queued"
  /\ \A w \in Worker : wop[w] # NoOp =>
       /\ opst[wop[w]] \in {"held", "executed"}
       /\ \A v \in Worker : wop[v] = wop[w] => v = w

\* A worker inside call() uses connection_->mysql_: close() must not have freed
\* it ("stop the worker thread before clearing"), and no operation may reach a
\* worker whose connection is not open yet (it would fail silently).
HandleOutlivesUse == \A w \in Worker : wpc[w] = "running" => w \in mysql

\* What a caller sees through its future agrees with the fate of the operation:
\* a value only after the statement ran, an exception only if it never will.
FutureTellsFate ==
  \A o \in Asks :
    /\ future[o] = "ready" <=> opst[o] \in {"executed", "freed"}
    /\ future[o] = "broken" <=> opst[o] = "discarded"

\* Every queued operation leaves the queue while the pool serves: idle workers
\* are found and busy ones come back for it.
QueuedIsServed ==
  \A o \in Op : (opst[o] = "queued") ~>
     \/ opst[o] # "queued" \/ shutdown
     \/ \A w \in Worker : wpc[w] \in {"none", "exited", "wild"}

\* "Enqueues a one-way SQL operation that will be executed asynchronously": while
\* the pool serves, an operation does not stay in the queue.
ExecutedAsynchronously == \A o \in Op : (opst[o] = "queued") ~> (opst[o] # "queued" \/ shutdown)
=============================================================================
