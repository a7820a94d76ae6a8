---------------------------- MODULE DbTransaction ----------------------------
(***************************************************************************)
(* One SQL transaction per connection: mysql_connection::execute_transaction*)
(* with the reconnection of handle_mysql_errno, driven by                  *)
(* transaction_task::execute on asynchronous connections and by            *)
(* database_worker_pool::direct_commit_transaction on synchronous ones.    *)
(*                                                                         *)
(* The server is external: a session either has an open transaction, whose *)
(* effects are private, or is in autocommit.  A statement succeeds, meets  *)
(* ER_LOCK_DEADLOCK (the server has rolled the transaction back) or fails  *)
(* alone; START TRANSACTION, COMMIT and ROLLBACK can be refused; and the   *)
(* connection can be lost during each of them: at most MaxFaults times in  *)
(* all.  A reconnection succeeds, or is given up and leaves no handle; the *)
(* errors that abort the process are left out.                             *)
(***************************************************************************)
EXTENDS Integers, FiniteSets

CONSTANTS Conn,       \* connections
          Async,      \* those owned by a database_worker
          Size,       \* number of statements of the transaction run on each
          Faults,     \* the faults the server may show
          MaxFaults,  \* bound on their number
          NoConn      \* nobody holds dead_lock_lock_

ASSUME TransactionAssumption ==
  /\ Async \subseteq Conn /\ NoConn \notin Conn
  /\ Size \in [Conn -> Nat]
  /\ Faults \subseteq {"deadlock", "failed", "lost", "begin", "commit", "rollback"}
  /\ MaxFaults \in Nat

LoopBreaker == 5

VARIABLES
  pc,       \* where the thread of each connection is
  pos,      \* the iterator it of execute_transaction, as an index
  code,     \* error_code: result of the last execute_transaction ("ok" is 0, "empty" -1)
  tries,    \* i of the retry loop; -1 before the loop
  lock,     \* holder of transaction_task::dead_lock_lock_
  cleaned,  \* transaction_base::cleaned_up_
  handle,   \* is mysql_ not null
  inTxn,    \* server: does the session have an open transaction
  work,     \* server: statements executed in the open transaction
  durable,  \* server: how often each statement has become permanent
  faults,   \* faults so far
  met       \* history: the faults each connection has met

clientVars == <<pc, pos, code, tries, lock, cleaned>>
sessionVars == <<inTxn, work>>
serverVars == <<sessionVars, durable>>
faultVars == <<faults, met>>
vars == <<clientVars, handle, serverVars, faultVars>>

Stmt(c) == 1 .. Size[c]

TypeOK ==
  /\ pc \in [Conn -> {"begin", "stmt", "rollback", "result", "lock", "cleanup", "end"}]
  /\ pos \in [Conn -> Nat \ {0}]
  /\ \A c \in Conn : pos[c] <= Size[c] + 1
  /\ code \in [Conn -> {"ok", "empty", "deadlock", "failed"}]
  /\ tries \in [Conn -> -1 .. LoopBreaker]
  /\ lock \in Conn \cup {NoConn}
  /\ cleaned \in [Conn -> BOOLEAN]
  /\ handle \in [Conn -> BOOLEAN] /\ inTxn \in [Conn -> BOOLEAN]
  /\ DOMAIN work = Conn /\ \A c \in Conn : work[c] \subseteq Stmt(c)
  /\ DOMAIN durable = Conn /\ \A c \in Conn : durable[c] \in [Stmt(c) -> Nat]
  /\ faults \in Nat /\ met \in [Conn -> SUBSET Faults]

Init ==
  /\ pc = [c \in Conn |-> "begin"] /\ pos = [c \in Conn |-> 1]
  /\ code = [c \in Conn |-> "ok"] /\ tries = [c \in Conn |-> -1]
  /\ lock = NoConn /\ cleaned = [c \in Conn |-> FALSE]
  /\ handle = [c \in Conn |-> TRUE]
  /\ inTxn = [c \in Conn |-> FALSE] /\ work = [c \in Conn |-> {}]
  /\ durable = [c \in Conn |-> [s \in Stmt(c) |-> 0]]
  /\ faults = 0 /\ met = [c \in Conn |-> {}]

-----------------------------------------------------------------------------
(* mysql_connection::execute_transaction. *)

Goto(c, l) == pc' = [pc EXCEPT ![c] = l]

Return(c, r) == Goto(c, "result") /\ code' = [code EXCEPT ![c] = r]

Fault(c, kind) ==
  /\ kind \in Faults /\ faults < MaxFaults
  /\ faults' = faults + 1 /\ met' = [met EXCEPT ![c] = @ \cup {kind}]

\* The session of c leaves its transaction.
Forget(c) == /\ inTxn' = [inTxn EXCEPT ![c] = FALSE]
             /\ work' = [work EXCEPT ![c] = {}]

\* What the session of c has executed in its transaction becomes permanent.
Committed(c) == durable' = [durable EXCEPT ![c] =
                  [s \in Stmt(c) |-> IF s \in work[c] THEN @[s] + 1 ELSE @[s]]]

\* Statement s takes effect in the session of c.
Apply(c, s) ==
  IF inTxn[c] THEN work' = [work EXCEPT ![c] = @ \cup {s}] /\ UNCHANGED durable
              ELSE durable' = [durable EXCEPT ![c][s] = @ + 1] /\ UNCHANGED work

\* queries.empty(): return -1
Empty(c) ==
  /\ pc[c] = "begin" /\ Size[c] = 0
  /\ Return(c, "empty")
  /\ UNCHANGED <<pos, tries, lock, cleaned, handle, serverVars, faultVars>>

\* What execute_transaction asks of the server next.
AtBegin(c) == pc[c] = "begin" /\ Size[c] > 0
AtStatement(c) == pc[c] = "stmt" /\ pos[c] <= Size[c]
AtCommit(c) == pc[c] = "stmt" /\ pos[c] = Size[c] + 1
AtServer(c) == AtBegin(c) \/ AtStatement(c) \/ AtCommit(c) \/ pc[c] = "rollback"

\* begin_transaction() has returned, with whatever result
Begun(c) ==
  /\ Goto(c, "stmt") /\ pos' = [pos EXCEPT ![c] = 1]
  /\ UNCHANGED <<code, tries, lock, cleaned, handle>>

\* Defect for Begin: the attempt starts in autocommit.
BeginAutocommit(c) ==
  /\ handle[c] /\ AtBegin(c)
  /\ Begun(c)
  /\ UNCHANGED <<serverVars, faultVars>>

\* execute("START TRANSACTION"): the server first commits what the session has left open
Begin(c) ==
  /\ handle[c] /\ AtBegin(c)
  /\ Committed(c)
  /\ inTxn' = [inTxn EXCEPT ![c] = TRUE] /\ work' = [work EXCEPT ![c] = {}]
  /\ Begun(c)
  /\ UNCHANGED faultVars

\* START TRANSACTION fails: nobody looks at the result
BeginRefused(c) ==
  /\ handle[c] /\ AtBegin(c) /\ Fault(c, "begin")
  /\ Begun(c)
  /\ UNCHANGED serverVars

StatementOk(c) ==
  /\ handle[c] /\ AtStatement(c)
  /\ Apply(c, pos[c])
  /\ pos' = [pos EXCEPT ![c] = @ + 1]
  /\ UNCHANGED <<pc, code, tries, lock, cleaned, handle, inTxn, faultVars>>

\* execute has failed: get_last_error(), then rollback_transaction()
Failed(c, r) ==
  /\ Goto(c, "rollback") /\ code' = [code EXCEPT ![c] = r]
  /\ UNCHANGED <<pos, tries, lock, cleaned, handle, durable>>

\* handle_mysql_errno(ER_LOCK_DEADLOCK) is false
StatementDeadlock(c) ==
  /\ handle[c] /\ AtStatement(c) /\ Fault(c, "deadlock")
  /\ Forget(c)
  /\ Failed(c, "deadlock")

\* ER_DUP_ENTRY and the like: the statement alone has no effect
StatementFailed(c) ==
  /\ handle[c] /\ AtStatement(c) /\ Fault(c, "failed")
  /\ Failed(c, "failed")
  /\ UNCHANGED sessionVars

\* The request under way had reached the server before the connection was lost.
Reached(c) ==
  \/ (AtBegin(c) \/ AtCommit(c)) /\ Committed(c)
  \/ AtStatement(c) /\ ~inTxn[c] /\ durable' = [durable EXCEPT ![c][pos[c]] = @ + 1]

\* CR_SERVER_LOST: handle_mysql_errno closes the handle and opens a new session, in
\* autocommit, on which execute repeats the same request; or open() fails with an error
\* that handle_mysql_errno does not retry, and mysql_ stays null
ConnectionLost(c) ==
  /\ handle[c] /\ AtServer(c) /\ Fault(c, "lost")
  /\ Forget(c)
  /\ UNCHANGED durable \/ Reached(c)
  /\ handle' \in {handle, [handle EXCEPT ![c] = FALSE]}
  /\ UNCHANGED clientVars

\* if(!mysql_) return false.  Then get_last_error() is mysql_errno of no handle, which is 0.
NoHandle(c) ==
  /\ ~handle[c]
  /\ \/ AtBegin(c) /\ Begun(c) /\ UNCHANGED durable
     \/ AtStatement(c) /\ Failed(c, "ok")
     \/ /\ AtCommit(c) /\ Return(c, "ok")
        /\ UNCHANGED <<pos, tries, lock, cleaned, handle, durable>>
     \/ /\ pc[c] = "rollback" /\ Goto(c, "result")
        /\ UNCHANGED <<pos, code, tries, lock, cleaned, handle, durable>>
  /\ UNCHANGED <<sessionVars, faultVars>>

\* rollback_transaction(); return error_code
Rollback(c) ==
  /\ handle[c] /\ pc[c] = "rollback"
  /\ Forget(c)
  /\ Goto(c, "result")
  /\ UNCHANGED <<pos, code, tries, lock, cleaned, handle, durable, faultVars>>

\* ROLLBACK fails: nobody looks at the result, and the transaction stays open
RollbackRefused(c) ==
  /\ handle[c] /\ pc[c] = "rollback" /\ Fault(c, "rollback")
  /\ Goto(c, "result")
  /\ UNCHANGED <<pos, code, tries, lock, cleaned, handle, serverVars>>

\* commit_transaction(); return 0
Commit(c) ==
  /\ handle[c] /\ AtCommit(c)
  /\ Committed(c) /\ Forget(c)
  /\ Return(c, "ok")
  /\ UNCHANGED <<pos, tries, lock, cleaned, handle, faultVars>>

\* COMMIT fails and 0 is returned all the same: the server has rolled the transaction
\* back, or left it open
CommitRefused(c) ==
  /\ handle[c] /\ AtCommit(c) /\ Fault(c, "commit")
  /\ Forget(c) \/ UNCHANGED sessionVars
  /\ Return(c, "ok")
  /\ UNCHANGED <<pos, tries, lock, cleaned, handle, durable>>

-----------------------------------------------------------------------------
(* transaction_task::execute and direct_commit_transaction, on a result.   *)

\* The first attempt succeeded.
FirstOk(c) ==
  /\ pc[c] = "result" /\ tries[c] = -1 /\ code[c] = "ok"
  /\ Goto(c, "end")
  /\ UNCHANGED <<pos, code, tries, lock, cleaned, handle, serverVars, faultVars>>

\* The first attempt failed for good, or must be retried: under dead_lock_lock_
\* by a worker, at once by direct_commit_transaction
FirstFailed(c) ==
  /\ pc[c] = "result" /\ tries[c] = -1 /\ code[c] # "ok"
  /\ IF code[c] # "deadlock" THEN Goto(c, "cleanup") /\ UNCHANGED tries
     ELSE IF c \in Async THEN Goto(c, "lock") /\ UNCHANGED tries
     ELSE Goto(c, "begin") /\ tries' = [tries EXCEPT ![c] = 0]
  /\ UNCHANGED <<pos, code, lock, cleaned, handle, serverVars, faultVars>>

\* Defect for Lock: the retries are not serialized.
LockNothing(c) ==
  /\ pc[c] = "lock"
  /\ lock' = c
  /\ Goto(c, "begin") /\ tries' = [tries EXCEPT ![c] = 0]
  /\ UNCHANGED <<pos, code, cleaned, handle, serverVars, faultVars>>

\* std::lock_guard lock(dead_lock_lock_)
Lock(c) ==
  /\ pc[c] = "lock" /\ lock = NoConn
  /\ lock' = c
  /\ Goto(c, "begin") /\ tries' = [tries EXCEPT ![c] = 0]
  /\ UNCHANGED <<pos, code, cleaned, handle, serverVars, faultVars>>

\* Defect for NextTry: a worker whose last attempt is over does not unlock.
NextTryKeepsLock(c) ==
  /\ tries' = [tries EXCEPT ![c] = @ + 1]
  /\ IF tries[c] + 1 < LoopBreaker THEN Goto(c, "begin") ELSE Goto(c, "cleanup")
  /\ UNCHANGED lock

\* ++i, and the next attempt while i < loop_breaker
NextTry(c) ==
  /\ tries' = [tries EXCEPT ![c] = @ + 1]
  /\ IF tries[c] + 1 < LoopBreaker THEN Goto(c, "begin") /\ UNCHANGED lock
     ELSE Goto(c, "cleanup") /\ lock' = IF lock = c THEN NoConn ELSE lock

\* if(conn->execute_transaction(trans_)) return true: the loop goes on after a
\* success and ends on an error
WorkerRetried(c) ==
  /\ pc[c] = "result" /\ tries[c] >= 0 /\ c \in Async
  /\ IF code[c] # "ok" THEN Goto(c, "end") /\ lock' = NoConn /\ UNCHANGED tries
                       ELSE NextTry(c)
  /\ UNCHANGED <<pos, code, cleaned, handle, serverVars, faultVars>>

\* Defect for DirectRetried: the test of transaction_task::execute.
DirectRetriedInverted(c) ==
  /\ pc[c] = "result" /\ tries[c] >= 0 /\ c \notin Async
  /\ IF code[c] # "ok" THEN Goto(c, "cleanup") /\ UNCHANGED <<lock, tries>>
                       ELSE NextTry(c)
  /\ UNCHANGED <<pos, code, cleaned, handle, serverVars, faultVars>>

\* if(!connection->execute_transaction(transaction)) break
DirectRetried(c) ==
  /\ pc[c] = "result" /\ tries[c] >= 0 /\ c \notin Async
  /\ IF code[c] = "ok" THEN Goto(c, "cleanup") /\ UNCHANGED <<lock, tries>>
                       ELSE NextTry(c)
  /\ UNCHANGED <<pos, code, cleaned, handle, serverVars, faultVars>>

\* transaction->cleanup()
Cleanup(c) ==
  /\ pc[c] = "cleanup"
  /\ cleaned' = [cleaned EXCEPT ![c] = TRUE]
  /\ Goto(c, "end")
  /\ UNCHANGED <<pos, code, tries, lock, handle, serverVars, faultVars>>

Step(c) == \/ Empty(c) \/ Begin(c) \/ BeginRefused(c)
           \/ StatementOk(c) \/ StatementDeadlock(c) \/ StatementFailed(c)
           \/ ConnectionLost(c) \/ NoHandle(c)
           \/ Rollback(c) \/ RollbackRefused(c) \/ Commit(c) \/ CommitRefused(c)
           \/ FirstOk(c) \/ FirstFailed(c) \/ Lock(c) \/ WorkerRetried(c)
           \/ DirectRetried(c) \/ Cleanup(c)

\* The START TRANSACTION of whoever uses the connection next commits what this
\* transaction has left open on it.
NextTransaction(c) ==
  /\ pc[c] = "end" /\ inTxn[c]
  /\ Committed(c) /\ Forget(c)
  /\ UNCHANGED <<clientVars, handle, faultVars>>

Next == \E c \in Conn : Step(c) \/ NextTransaction(c)

Spec == Init /\ [][Next]_vars

\* Every thread that can take a step takes one.
FairSpec == Spec /\ \A c \in Conn : WF_vars(Step(c))

-----------------------------------------------------------------------------
\* "Ensure that only one asynchronous thread retries a transaction": two workers
\* are never in the retry loop together, and the lock is free once all left it.
Retrying(c) == c \in Async /\ tries[c] >= 0 /\ pc[c] \in {"begin", "stmt", "rollback", "result"}

RetriesAlone == \A c \in Conn : Retrying(c) <=> lock = c

\* A session that goes back to its pool, or starts another attempt, has no open
\* transaction, unless the server refused a COMMIT or a ROLLBACK: the code drops both
\* results, and the next user of the connection would commit what was left open.
SessionClean ==
  \A c \in Conn :
    /\ pc[c] \in {"begin", "result", "lock", "cleanup", "end"}
    /\ met[c] \cap {"commit", "rollback"} = {}
    => ~inTxn[c] /\ work[c] = {}

\* The connection was not lost, and START TRANSACTION and ROLLBACK did what they are for.
Undisturbed(c) == met[c] \cap {"lost", "begin", "rollback"} = {}

\* The statements of a transaction become permanent together, as often one as the other,
\* through deadlocks, errors, retries and refused COMMITs.  The faults Undisturbed excludes
\* do break it: the results of START TRANSACTION and ROLLBACK are dropped, and a
\* reconnection repeats one statement in a new session.
AllOrNothing ==
  \A c \in Conn : Undisturbed(c) => \A s, t \in Stmt(c) : durable[c][s] = durable[c][t]

\* The same of a transaction whose task has ended, whatever happened on the way:
\* a transaction that is not committed is rolled back.
DoneIsAtomic ==
  \A c \in Conn : pc[c] = "end" => \A s, t \in Stmt(c) : durable[c][s] = durable[c][t]

\* What direct_commit_transaction tells: when it takes its last attempt for a failure, the
\* transaction has had no effect and will have none; when it takes it for a success, the
\* transaction has taken effect exactly once, unless its COMMIT was refused, which the code
\* takes for a success too: then at most once, and as a whole (AllOrNothing).
DirectTellsTruth ==
  \A c \in Conn \ Async : Undisturbed(c) /\ pc[c] = "end" =>
    \A s \in Stmt(c) : durable[c][s] \in IF code[c] # "ok" THEN {0}
                                         ELSE IF "commit" \in met[c] THEN {0, 1} ELSE {1}

\* A transaction handed to commit_transaction takes effect at most once; a
\* restart is for transactions that failed.
AtMostOnce == \A c \in Async : \A s \in Stmt(c) : durable[c][s] <= 1

\* Neither the retry loops nor dead_lock_lock_ keep a thread forever.
AllFinish == <>(\A c \in Conn : pc[c] = "end")
=============================================================================
