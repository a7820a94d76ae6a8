--------------------------- MODULE SyncConnections ---------------------------
(***************************************************************************)
(* The synchronous connections of database_worker_pool<T>: the loader      *)
(* prepares their statements, then any thread borrows one for a call       *)
(* (get_free_connection .. unlock), keepalive() pings those that are free, *)
(* and escape_string() reads the handle of the first without its lock.     *)
(*                                                                         *)
(* A call is a statement, query() or direct_execute(), or a commit,        *)
(* direct_commit_transaction(), which runs its transaction again after a   *)
(* deadlock.  What it asks of the server is one request here: of a         *)
(* transaction the one that can be executed is its COMMIT, and             *)
(* DbTransaction has the others.  A lost connection is replaced by         *)
(* handle_mysql_errno(), which closes the handle before it clears mysql_.  *)
(***************************************************************************)
EXTENDS Integers, FiniteSets

CONSTANTS Caller,     \* threads that make calls
          Keeper,     \* the thread that calls keepalive()
          Nobody,     \* a mutex_ is free
          NumConns,   \* connections_[IDX_SYNCH].size()
          Width,      \* values of the uint8_t that indexes them, 256
          Attempts,   \* attempts of handle_mysql_errno(), 5
          LoopBreaker, \* loop_breaker of direct_commit_transaction(), 5
          MaxCalls,   \* bound on the calls of a thread
          MaxLost     \* bound on the connections lost

ASSUME SyncAssumption ==
  /\ Keeper \notin Caller /\ Nobody \notin Caller \cup {Keeper}
  /\ NumConns \in Nat \ {0} /\ Width \in Nat /\ NumConns <= Width
  /\ Attempts \in Nat \ {0} /\ LoopBreaker \in Nat \ {0}
  /\ MaxCalls \in Nat /\ MaxLost \in Nat

Thread == Caller \cup {Keeper}
Conn == 1 .. NumConns

VARIABLES
  phase,           \* "preparing" by the loader, "serving", "closed"
  prepared,        \* connections whose statements have been prepared
  mutex,           \* holder of each connection's mutex_
  mysql,           \* mysql_: a handle, or Null
  made, freed,     \* handles made per connection; handles closed
  pc, con,         \* what a thread does, and on which connection
  next,            \* i of get_free_connection()
  attempts,        \* attempts left in handle_mysql_errno()
  ptr,             \* the handle that escape_string() has read
  kind, repeats,   \* the current call: "statement" or "commit", and i of its retry loop
  calls, lost,     \* calls of each thread, connections lost so far
  applied, losses, \* of the current call: executions by the server, losses
  result,          \* what it will return
  blind,           \* history: it takes a transaction for committed without an answer
  misused,         \* uses of a handle that does not exist
  aborted          \* the process has ended in handle_mysql_errno()

vars == <<phase, prepared, mutex, mysql, made, freed, pc, con, next, attempts, ptr,
          kind, repeats, calls, lost, applied, losses, result, blind, misused, aborted>>
handles == <<mysql, made, freed>>
call == <<kind, repeats>>
outcome == <<applied, losses, result, blind>>

Null == <<0, 0>>
Handle == Conn \X (Nat \ {0})
Dead(h) == h = Null \/ h \in freed
Kind(h) == IF h = Null THEN "null" ELSE "freed"
Misuse(what, h) == IF Dead(h) THEN {<<what, Kind(h)>>} ELSE {}

\* where a thread has a connection
Borrowing == {"run", "lost", "closed", "reconnect", "unlock"}

TypeOK ==
  /\ phase \in {"preparing", "serving", "closed"} /\ prepared \in 0 .. NumConns
  /\ mutex \in [Conn -> Thread \cup {Nobody}]
  /\ mysql \in [Conn -> Handle \cup {Null}]
  /\ made \in [Conn -> Nat] /\ freed \subseteq Handle \cup {Null}
  /\ pc \in [Thread -> {"idle", "pick", "escape"} \cup Borrowing]
  /\ con \in [Thread -> Conn] /\ next \in [Thread -> 0 .. Width - 1]
  /\ attempts \in [Thread -> 0 .. Attempts]
  /\ ptr \in [Thread -> Handle \cup {Null}]
  /\ kind \in [Thread -> {"statement", "commit"}]
  /\ repeats \in [Thread -> -1 .. LoopBreaker - 1]
  /\ calls \in [Thread -> 0 .. MaxCalls] /\ lost \in 0 .. MaxLost
  /\ applied \in [Thread -> Nat] /\ losses \in [Thread -> Nat]
  /\ result \in [Thread -> {"none", "ok", "failed"}] /\ blind \in [Thread -> BOOLEAN]
  /\ misused \subseteq {"statement", "ping", "escape"} \X {"null", "freed"}
  /\ aborted \in BOOLEAN

\* open() has succeeded for every connection.
Init ==
  /\ phase = "preparing" /\ prepared = 0
  /\ mutex = [c \in Conn |-> Nobody]
  /\ mysql = [c \in Conn |-> <<c, 1>>] /\ made = [c \in Conn |-> 1] /\ freed = {}
  /\ pc = [t \in Thread |-> "idle"] /\ con = [t \in Thread |-> 1]
  /\ next = [t \in Thread |-> 0] /\ attempts = [t \in Thread |-> 0]
  /\ ptr = [t \in Thread |-> Null]
  /\ kind = [t \in Thread |-> "statement"] /\ repeats = [t \in Thread |-> -1]
  /\ calls = [t \in Thread |-> 0] /\ lost = 0
  /\ applied = [t \in Thread |-> 0] /\ losses = [t \in Thread |-> 0]
  /\ result = [t \in Thread |-> "none"] /\ blind = [t \in Thread |-> FALSE]
  /\ misused = {} /\ aborted = FALSE

At(t, from, to) == pc[t] = from /\ pc' = [pc EXCEPT ![t] = to]
Set(f, t, v) == [f EXCEPT ![t] = v]

-----------------------------------------------------------------------------
(* The loader's thread, before the others start: prepare_statements().     *)
(* lock_if_ready() is called for its effect only; here nobody competes.    *)

threads == <<pc, con, next, attempts, ptr, call, calls, lost, outcome, misused, aborted>>

PrepareOk ==
  /\ phase = "preparing" /\ prepared < NumConns
  /\ prepared' = prepared + 1
  /\ phase' = IF prepared' = NumConns THEN "serving" ELSE phase
  /\ UNCHANGED <<mutex, handles, threads>>

\* close(): every connection is closed and destroyed
Destroyed ==
  /\ phase' = "closed" /\ freed' = freed \cup {mysql[c] : c \in {d \in Conn : mysql[d] # Null}}
  /\ mysql' = [c \in Conn |-> Null]
  /\ UNCHANGED <<prepared, mutex, made, threads>>

PrepareFails == phase = "preparing" /\ prepared < NumConns /\ Destroyed

\* close(), which the owner calls when no other thread uses the pool any more
Close == phase = "serving" /\ (\A t \in Thread : pc[t] = "idle") /\ Destroyed

-----------------------------------------------------------------------------
(* A call. *)

pool == <<phase, prepared>>

Begin(t) ==
  /\ phase = "serving" /\ t \in Caller /\ calls[t] < MaxCalls
  /\ At(t, "idle", "pick")
  /\ calls' = Set(calls, t, calls[t] + 1)
  /\ \E k \in {"statement", "commit"} : kind' = Set(kind, t, k)
  /\ UNCHANGED <<pool, mutex, handles, con, next, attempts, ptr, repeats, lost, outcome, misused,
                 aborted>>

Lock(t, c) == mutex' = Set(mutex, c, t) /\ con' = Set(con, t, c)

\* i++ % num_cons
Candidate(t) == (next[t] % NumConns) + 1

\* Defect for lock_if_ready: the result of try_lock() is ignored.
lock_if_ready_ignored(c) == TRUE

lock_if_ready(c) == mutex[c] = Nobody

\* get_free_connection(): one turn of the loop
Pick(t) ==
  /\ pc[t] = "pick"
  /\ next' = Set(next, t, (next[t] + 1) % Width)
  /\ IF lock_if_ready(Candidate(t))
     THEN Lock(t, Candidate(t)) /\ pc' = Set(pc, t, "run")
     ELSE UNCHANGED <<mutex, con, pc>>
  /\ UNCHANGED <<pool, handles, attempts, ptr, call, calls, lost, outcome, misused, aborted>>

statement == <<pool, mutex, con, next, ptr, kind, calls>>

\* The request has succeeded, which ends the call.
Succeeds(t) ==
  /\ pc' = Set(pc, t, "unlock") /\ result' = Set(result, t, "ok")
  /\ UNCHANGED repeats

\* The request has failed.  A commit that met a deadlock enters the loop, and within it
\* every failure is answered by another execution while i < loop_breaker.
Fails(t, code) ==
  LET i == repeats[t] + 1
  IN  IF kind[t] = "commit" /\ (code = "deadlock" \/ repeats[t] >= 0) /\ i < LoopBreaker
      THEN repeats' = Set(repeats, t, i) /\ UNCHANGED <<pc, result>>
      ELSE /\ pc' = Set(pc, t, "unlock") /\ result' = Set(result, t, "failed")
           /\ UNCHANGED repeats

\* Without a handle a statement fails, but execute_transaction() returns the error of
\* no connection, mysql_errno(mysql_), which is 0.
Unanswered(t) ==
  /\ pc' = Set(pc, t, "unlock")
  /\ result' = Set(result, t, IF kind[t] = "commit" THEN "ok" ELSE "failed")
  /\ blind' = Set(blind, t, kind[t] = "commit")
  /\ UNCHANGED repeats

\* if(!mysql_) return false
NoHandle(t) ==
  /\ pc[t] = "run" /\ mysql[con[t]] = Null /\ t \in Caller
  /\ Unanswered(t)
  /\ UNCHANGED <<statement, handles, attempts, lost, applied, losses, misused, aborted>>

\* the statement reaches the server through the handle
Sends(t) ==
  /\ t \in Caller /\ mysql[con[t]] # Null
  /\ misused' = misused \cup Misuse("statement", mysql[con[t]])

StatementOk(t) ==
  /\ Sends(t) /\ pc[t] = "run"
  /\ applied' = Set(applied, t, applied[t] + 1) /\ Succeeds(t)
  /\ UNCHANGED <<statement, handles, attempts, lost, losses, blind, aborted>>

\* an error for which handle_mysql_errno() returns false at once
StatementFails(t) ==
  /\ Sends(t) /\ pc[t] = "run"
  /\ \E code \in {"deadlock", "other"} : Fails(t, code)
  /\ UNCHANGED <<statement, handles, attempts, lost, applied, losses, blind, aborted>>

\* commit_transaction() drops the result of COMMIT
CommitRefused(t) ==
  /\ Sends(t) /\ pc[t] = "run" /\ kind[t] = "commit"
  /\ Succeeds(t) /\ blind' = Set(blind, t, TRUE)
  /\ UNCHANGED <<statement, handles, attempts, lost, applied, losses, aborted>>

\* an error of the database's structure or of the SQL: the process ends
StatementIsFatal(t) ==
  /\ Sends(t) /\ pc[t] = "run" /\ aborted' = TRUE
  /\ UNCHANGED <<statement, repeats, handles, pc, attempts, lost, outcome>>

\* CR_SERVER_LOST and its kind: the server may have executed the statement or not
ConnectionLost(t) ==
  /\ Sends(t) /\ lost < MaxLost /\ At(t, "run", "lost")
  /\ lost' = lost + 1 /\ losses' = Set(losses, t, losses[t] + 1)
  /\ \E k \in {0, 1} : applied' = Set(applied, t, applied[t] + k)
  /\ attempts' = Set(attempts, t, Attempts)
  /\ UNCHANGED <<statement, repeats, handles, result, blind, aborted>>

\* mysql_close(get_handle())
CloseHandle(t) ==
  /\ At(t, "lost", "closed") /\ freed' = freed \cup {mysql[con[t]]}
  /\ UNCHANGED <<statement, repeats, mysql, made, attempts, lost, outcome, misused, aborted>>

\* Defect for ClearHandle: mysql_ keeps the handle that was closed.
ClearHandleForgotten(t) ==
  /\ At(t, "closed", "reconnect")
  /\ UNCHANGED <<statement, repeats, handles, attempts, lost, outcome, misused, aborted>>

\* mysql_ = 0
ClearHandle(t) ==
  /\ At(t, "closed", "reconnect") /\ mysql' = Set(mysql, con[t], Null)
  /\ UNCHANGED <<statement, repeats, made, freed, attempts, lost, outcome, misused, aborted>>

\* Defect for Reconnected: the statement is not tried again.
ReconnectedIsEnough(t) == /\ pc' = Set(pc, t, "unlock") /\ result' = Set(result, t, "ok")

\* handle_mysql_errno() has returned true: return execute(sql)
Reconnected(t) == pc' = Set(pc, t, "run") /\ UNCHANGED result

ReconnectOk(t) ==
  /\ pc[t] = "reconnect"
  /\ made' = Set(made, con[t], made[con[t]] + 1)
  /\ mysql' = Set(mysql, con[t], <<con[t], made'[con[t]]>>)
  /\ Reconnected(t)
  /\ UNCHANGED <<statement, repeats, freed, attempts, lost, applied, losses, blind, misused,
                 aborted>>

\* --attempts == 0
LastAttempt(t) == attempts[t] - 1 = 0

\* open() fails; its code, which it reads from a handle that it has closed before, may be
\* any.  Here it is one that is handled by trying once more; at the last attempt, for a
\* fatal code, or if the statements cannot be prepared again, the process ends
ReconnectAgain(t) ==
  /\ pc[t] = "reconnect"
  /\ attempts' = Set(attempts, t, attempts[t] - 1)
  /\ aborted' = LastAttempt(t)
  /\ UNCHANGED <<statement, repeats, handles, pc, lost, outcome, misused>>

ReprepareFails(t) ==
  /\ pc[t] = "reconnect" /\ aborted' = TRUE
  /\ UNCHANGED <<statement, repeats, handles, pc, attempts, lost, outcome, misused>>

\* open() fails with any other code: handle_mysql_errno() returns false, and the
\* connection stays in the pool without a handle
GiveUp(t) ==
  /\ pc[t] = "reconnect" /\ Unanswered(t)
  /\ UNCHANGED <<statement, handles, attempts, lost, applied, losses, misused, aborted>>

\* the call returns: its locals are gone
Returns(t) ==
  /\ t \in Caller /\ At(t, "unlock", "idle")
  /\ con' = Set(con, t, 1) /\ next' = Set(next, t, 0) /\ attempts' = Set(attempts, t, 0)
  /\ applied' = Set(applied, t, 0) /\ losses' = Set(losses, t, 0)
  /\ result' = Set(result, t, "none") /\ blind' = Set(blind, t, FALSE)
  /\ kind' = Set(kind, t, "statement") /\ repeats' = Set(repeats, t, -1)
  /\ UNCHANGED <<pool, handles, ptr, calls, lost, misused, aborted>>

\* connection->unlock()
Unlock(t) == Returns(t) /\ mutex' = Set(mutex, con[t], Nobody)

-----------------------------------------------------------------------------
(* keepalive(): a round over the synchronous connections; the ping         *)
(* operations it queues for the asynchronous ones belong to DbWorkerPool.  *)

keeping == <<pool, handles, attempts, ptr, call, lost, outcome, aborted>>

BeginRound ==
  /\ phase = "serving" /\ calls[Keeper] < MaxCalls
  /\ At(Keeper, "idle", "pick")
  /\ calls' = Set(calls, Keeper, calls[Keeper] + 1)
  /\ UNCHANGED <<keeping, mutex, con, next, misused>>

NextConnection ==
  IF con[Keeper] = NumConns THEN pc' = Set(pc, Keeper, "idle") /\ con' = Set(con, Keeper, 1)
  ELSE pc' = Set(pc, Keeper, "pick") /\ con' = Set(con, Keeper, con[Keeper] + 1)

KeeperTries ==
  /\ pc[Keeper] = "pick"
  /\ IF lock_if_ready(con[Keeper])
     THEN Lock(Keeper, con[Keeper]) /\ pc' = Set(pc, Keeper, "run")
     ELSE NextConnection /\ UNCHANGED mutex
  /\ UNCHANGED <<keeping, next, calls, misused>>

\* i->ping(): mysql_ping(mysql_), whatever mysql_ is
Ping ==
  /\ At(Keeper, "run", "unlock")
  /\ misused' = misused \cup Misuse("ping", mysql[con[Keeper]])
  /\ UNCHANGED <<keeping, mutex, con, next, calls>>

\* Defect for KeeperUnlocks: the connection stays locked after the ping.
KeeperKeepsIt ==
  /\ pc[Keeper] = "unlock" /\ NextConnection
  /\ UNCHANGED <<keeping, mutex, next, calls, misused>>

KeeperUnlocks ==
  /\ pc[Keeper] = "unlock" /\ mutex' = Set(mutex, con[Keeper], Nobody)
  /\ NextConnection
  /\ UNCHANGED <<keeping, next, calls, misused>>

-----------------------------------------------------------------------------
(* escape_string(): front()->get_handle(), and then the library reads it. *)

escaping == <<pool, mutex, handles, con, next, attempts, call, calls, lost, outcome, aborted>>

ReadHandle(t) ==
  /\ phase = "serving" /\ t \in Caller
  /\ At(t, "idle", "escape") /\ ptr' = Set(ptr, t, mysql[1])
  /\ UNCHANGED <<escaping, misused>>

Escape(t) ==
  /\ At(t, "escape", "idle") /\ ptr' = Set(ptr, t, Null)
  /\ misused' = misused \cup Misuse("escape", ptr[t])
  /\ UNCHANGED escaping

-----------------------------------------------------------------------------
Work(t) == \/ Pick(t) /\ t \in Caller
           \/ NoHandle(t) \/ StatementOk(t) \/ StatementFails(t)
           \/ CommitRefused(t) \/ StatementIsFatal(t) \/ ConnectionLost(t)
           \/ CloseHandle(t) \/ ClearHandle(t)
           \/ ReconnectOk(t) \/ ReconnectAgain(t) \/ ReprepareFails(t)
           \/ GiveUp(t) \/ Unlock(t) \/ Escape(t)

Keep == KeeperTries \/ Ping \/ KeeperUnlocks

Next == /\ ~aborted
        /\ \/ PrepareOk \/ PrepareFails \/ Close \/ BeginRound \/ Keep
           \/ \E t \in Caller : Begin(t) \/ ReadHandle(t) \/ Work(t)

Spec == Init /\ [][Next]_vars

\* A call that was begun goes on; nobody must begin one.
FairSpec == /\ Spec /\ WF_vars(Keep /\ ~aborted)
            /\ \A t \in Caller : WF_vars(Work(t) /\ ~aborted)

-----------------------------------------------------------------------------
Uses(t, c) == pc[t] \in Borrowing /\ con[t] = c

\* A connection is used by the thread that holds its mutex and by no other, and no
\* mutex is held by a thread that uses nothing: lock_if_ready() and unlock() pair on
\* every path through a call, the ones with errors included.
OneUser == \A c \in Conn, t \in Thread : Uses(t, c) <=> mutex[c] = t

\* No statement is sent through a handle that was closed; a ping may meet a connection
\* that was given up, never one that is being replaced.  Only escape_string(), which
\* takes no lock, can.
HandlesInUse ==
  misused \subseteq {<<"ping", "null">>, <<"escape", "null">>, <<"escape", "freed">>}

\* What a call reports.  A success was executed by the server, unless it is a commit that
\* has taken the error code of a connection without a handle, or a refused COMMIT, for one;
\* a failure was not, unless by a request under which the connection was lost; and nothing
\* is executed more often than once and once for every connection lost under the call,
\* through the repetitions after a deadlock.
SuccessIsTrue ==
  \A t \in Caller :
    /\ result[t] = "ok" => applied[t] >= 1 \/ (kind[t] = "commit" /\ blind[t])
    /\ applied[t] <= losses[t] + IF result[t] = "ok" THEN 1 ELSE 0

\* Spinning ends: whoever waits for a connection gets one, provided that the other
\* threads make finitely many calls, or else the process has ended.
Served == \A t \in Caller : (pc[t] = "pick") ~> (pc[t] # "pick" \/ aborted)
=============================================================================
