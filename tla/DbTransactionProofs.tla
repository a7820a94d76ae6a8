------------------------- MODULE DbTransactionProofs -------------------------
(* Theorems about DbTransaction, for every set of connections, every size   *)
(* of their transactions and every number of faults.                        *)
EXTENDS DbTransaction, TLAPS

-----------------------------------------------------------------------------
(* Type correctness. *)

\* The steps of execute_transaction.
Attempt(c) == \/ Empty(c) \/ Begin(c) \/ BeginRefused(c)
              \/ StatementOk(c) \/ StatementDeadlock(c) \/ StatementFailed(c)
              \/ ConnectionLost(c) \/ NoHandle(c)
              \/ Rollback(c) \/ RollbackRefused(c) \/ Commit(c) \/ CommitRefused(c)

\* The steps around it: retries and their lock.
Around(c) == \/ FirstOk(c) \/ FirstFailed(c) \/ Lock(c) \/ WorkerRetried(c)
             \/ DirectRetried(c) \/ Cleanup(c)

DurableOK == DOMAIN durable = Conn /\ \A c \in Conn : durable[c] \in [Stmt(c) -> Nat]

\* What becomes permanent is counted.
LEMMA CommittedType ==
  ASSUME TypeOK, NEW c \in Conn, Committed(c) PROVE DurableOK'
<1>1. [s \in Stmt(c) |-> IF s \in work[c] THEN durable[c][s] + 1 ELSE durable[c][s]]
        \in [Stmt(c) -> Nat]
  BY DEF TypeOK
<1>2. durable' = [durable EXCEPT ![c] =
         [s \in Stmt(c) |-> IF s \in work[c] THEN durable[c][s] + 1 ELSE durable[c][s]]]
  BY DEF Committed
<1> QED BY <1>1, <1>2 DEF TypeOK, DurableOK, Stmt

LEMMA AttemptDurable ==
  ASSUME TypeOK, TransactionAssumption, NEW c \in Conn, Attempt(c) PROVE DurableOK'
<1> USE DEF serverVars
<1>1. Size[c] \in Nat /\ durable[c] \in [Stmt(c) -> Nat] /\ pos[c] \in Nat \ {0}
  BY DEF TypeOK, TransactionAssumption
<1>2. CASE UNCHANGED durable
  BY <1>2 DEF TypeOK, DurableOK, Stmt
<1>3. CASE Committed(c)
  BY <1>3, CommittedType
<1>4. CASE AtStatement(c) /\ durable' = [durable EXCEPT ![c][pos[c]] = @ + 1]
  <2>1. pos[c] \in Stmt(c)
    BY <1>1, <1>4 DEF AtStatement, Stmt
  <2> QED BY <1>1, <1>4, <2>1 DEF TypeOK, DurableOK, Stmt
<1>5. \/ Committed(c)
      \/ UNCHANGED durable
      \/ AtStatement(c) /\ durable' = [durable EXCEPT ![c][pos[c]] = @ + 1]
  BY DEF Attempt, Empty, Begin, BeginRefused, StatementOk, Apply, StatementDeadlock,
     StatementFailed, Failed, ConnectionLost, Reached, NoHandle, Rollback, RollbackRefused,
     Commit, CommitRefused
<1> QED BY <1>2, <1>3, <1>4, <1>5

\* Where the retry counter can be: TypeOK alone does not bound it.
TriesInv ==
  \A c \in Conn : /\ tries[c] = LoopBreaker => pc[c] \in {"cleanup", "end"}
                  /\ pc[c] = "lock" => c \in Async /\ tries[c] = -1

\* The steps that only move a thread between and around its attempts.
LEMMA RetryType ==
  ASSUME TypeOK, TriesInv, TransactionAssumption, NEW c \in Conn,
         FirstOk(c) \/ FirstFailed(c) \/ Lock(c) \/ WorkerRetried(c) \/ DirectRetried(c)
         \/ Cleanup(c)
  PROVE  TypeOK' /\ TriesInv'
<1> USE DEF Goto, serverVars, sessionVars, faultVars
<1>1. tries[c] \in -1 .. LoopBreaker /\ LoopBreaker = 5
  BY DEF TypeOK, LoopBreaker
<1>2. UNCHANGED <<pos, code, handle, inTxn, work, durable, faultVars>>
  BY DEF FirstOk, FirstFailed, Lock, WorkerRetried, DirectRetried, Cleanup
<1>3. pc' \in [Conn -> {"begin", "stmt", "rollback", "result", "lock", "cleanup", "end"}]
  BY DEF FirstOk, FirstFailed, Lock, WorkerRetried, DirectRetried, NextTry, Cleanup, TypeOK
<1>4. tries' \in [Conn -> -1 .. LoopBreaker]
  <2>1. CASE WorkerRetried(c) \/ DirectRetried(c)
    <3>1. tries[c] + 1 \in -1 .. LoopBreaker
      BY <1>1, <2>1 DEF WorkerRetried, DirectRetried, TriesInv
    <3> QED BY <2>1, <3>1 DEF WorkerRetried, DirectRetried, NextTry, TypeOK
  <2>2. CASE FirstOk(c) \/ FirstFailed(c) \/ Lock(c) \/ Cleanup(c)
    BY <1>1, <2>2 DEF FirstOk, FirstFailed, Lock, Cleanup, TypeOK
  <2> QED BY <2>1, <2>2
<1>5. lock' \in Conn \cup {NoConn} /\ cleaned' \in [Conn -> BOOLEAN]
  BY DEF FirstOk, FirstFailed, Lock, WorkerRetried, DirectRetried, NextTry, Cleanup, TypeOK
<1>6. TypeOK'
  BY <1>2, <1>3, <1>4, <1>5 DEF TypeOK
<1>7. ASSUME NEW d \in Conn
      PROVE  /\ tries'[d] = LoopBreaker => pc'[d] \in {"cleanup", "end"}
             /\ pc'[d] = "lock" => d \in Async /\ tries'[d] = -1
  <2>1. CASE d # c
    BY <1>1, <2>1 DEF FirstOk, FirstFailed, Lock, WorkerRetried, DirectRetried,
       NextTry, Cleanup, TypeOK, TriesInv
  <2>2. CASE d = c /\ (WorkerRetried(c) \/ DirectRetried(c))
    BY <1>1, <2>2 DEF WorkerRetried, DirectRetried, NextTry, TypeOK, TriesInv
  <2>3. CASE d = c /\ (FirstOk(c) \/ FirstFailed(c) \/ Lock(c) \/ Cleanup(c))
    BY <1>1, <2>3 DEF FirstOk, FirstFailed, Lock, Cleanup, TypeOK, TriesInv
  <2> QED BY <2>1, <2>2, <2>3
<1> QED BY <1>6, <1>7 DEF TriesInv

LEMMA TypeInit == ASSUME TransactionAssumption, Init PROVE TypeOK /\ TriesInv
<1>1. \A c \in Conn : Size[c] \in Nat
  BY DEF TransactionAssumption
<1>2. \A c \in Conn : durable[c] \in [Stmt(c) -> Nat]
  BY DEF Init
<1> QED BY <1>1, <1>2 DEF Init, TypeOK, TriesInv, LoopBreaker

LEMMA AttemptType ==
  ASSUME TypeOK, TriesInv, TransactionAssumption, NEW c \in Conn, Attempt(c)
  PROVE  TypeOK' /\ TriesInv'
<1> USE DEF Goto, Return, Fault, Forget, Failed, Begun, AtServer, serverVars, sessionVars,
            faultVars, clientVars
<1>1. Size[c] \in Nat
  BY DEF TransactionAssumption
<1>2. DurableOK'
  BY AttemptDurable
<1>3. DOMAIN work' = Conn /\ \A d \in Conn : work'[d] \subseteq Stmt(d)
  <2>1. CASE StatementOk(c)
    <3>1. pos[c] \in Stmt(c)
      BY <1>1, <2>1 DEF StatementOk, AtStatement, TypeOK, Stmt
    <3> QED BY <2>1, <3>1 DEF StatementOk, Apply, TypeOK
  <2>2. CASE ~StatementOk(c)
    <3>1. work' = work \/ work' = [work EXCEPT ![c] = {}]
      BY <2>2 DEF Attempt, Empty, Begin, BeginRefused, StatementDeadlock, StatementFailed,
         ConnectionLost, NoHandle, Rollback, RollbackRefused, Commit, CommitRefused
    <3> QED BY <3>1 DEF TypeOK
  <2> QED BY <2>1, <2>2
<1>4. /\ tries' = tries /\ lock' = lock /\ cleaned' = cleaned
      /\ \/ pc' = pc
         \/ \E l \in {"stmt", "rollback", "result"} : pc' = [pc EXCEPT ![c] = l]
      /\ \/ code' = code
         \/ \E r \in {"ok", "empty", "deadlock", "failed"} : code' = [code EXCEPT ![c] = r]
      /\ handle' \in {handle, [handle EXCEPT ![c] = FALSE]}
      /\ \/ inTxn' = inTxn
         \/ \E b \in BOOLEAN : inTxn' = [inTxn EXCEPT ![c] = b]
      /\ \/ UNCHANGED <<faults, met>>
         \/ \E k \in Faults : faults' = faults + 1 /\ met' = [met EXCEPT ![c] = @ \cup {k}]
  <2>1. CASE Empty(c) \/ Begin(c) \/ BeginRefused(c) \/ StatementOk(c)
    BY <2>1 DEF Empty, Begin, BeginRefused, StatementOk
  <2>2. CASE StatementDeadlock(c) \/ StatementFailed(c) \/ ConnectionLost(c)
    BY <2>2 DEF StatementDeadlock, StatementFailed, ConnectionLost
  <2>3. CASE NoHandle(c)
    BY <2>3 DEF NoHandle
  <2>4. CASE Rollback(c) \/ RollbackRefused(c) \/ Commit(c) \/ CommitRefused(c)
    BY <2>4 DEF Rollback, RollbackRefused, Commit, CommitRefused
  <2> QED BY <2>1, <2>2, <2>3, <2>4 DEF Attempt
<1>5. pos' \in [Conn -> Nat \ {0}] /\ \A d \in Conn : pos'[d] <= Size[d] + 1
  <2>1. \/ pos' = pos \/ pos' = [pos EXCEPT ![c] = 1]
        \/ pos' = [pos EXCEPT ![c] = @ + 1] /\ pos[c] <= Size[c]
    BY DEF Attempt, Empty, Begin, BeginRefused, StatementOk, AtStatement, StatementDeadlock,
       StatementFailed, ConnectionLost, NoHandle, Rollback, RollbackRefused, Commit, CommitRefused
  <2>2. pos \in [Conn -> Nat \ {0}] /\ \A d \in Conn : pos[d] <= Size[d] + 1
    BY DEF TypeOK
  <2> HIDE DEF Goto, Return, Fault, Forget, Failed, Begun, AtServer, serverVars, sessionVars,
               faultVars, clientVars
  <2>3. CASE pos' = pos
    BY <2>2, <2>3
  <2>4. CASE pos' = [pos EXCEPT ![c] = 1]
    BY <1>1, <2>2, <2>4
  <2>5. CASE pos' = [pos EXCEPT ![c] = @ + 1] /\ pos[c] <= Size[c]
    BY <1>1, <2>2, <2>5
  <2> QED BY <2>1, <2>3, <2>4, <2>5
<1>6. pc[c] \in {"begin", "stmt", "rollback"}
  BY DEF Attempt, Empty, Begin, BeginRefused, AtBegin, StatementOk, StatementDeadlock,
     StatementFailed, AtStatement, ConnectionLost, NoHandle, Rollback, RollbackRefused, Commit,
     CommitRefused, AtCommit
<1> HIDE DEF Goto, Return, Fault, Forget, Failed, Begun, AtServer, serverVars, sessionVars,
            faultVars, clientVars
<1>7. TypeOK'
  <2>1. pc' \in [Conn -> {"begin", "stmt", "rollback", "result", "lock", "cleanup", "end"}]
    BY <1>4 DEF TypeOK
  <2>2. code' \in [Conn -> {"ok", "empty", "deadlock", "failed"}]
    <3>1. \/ code' = code
          \/ \E r \in {"ok", "empty", "deadlock", "failed"} : code' = [code EXCEPT ![c] = r]
      BY <1>4
    <3>2. code \in [Conn -> {"ok", "empty", "deadlock", "failed"}]
      BY DEF TypeOK
    <3> QED BY <3>1, <3>2
  <2>3. handle' \in [Conn -> BOOLEAN]
    <3>1. handle' \in {handle, [handle EXCEPT ![c] = FALSE]}
      BY <1>4
    <3> QED BY <3>1 DEF TypeOK
  <2>4. inTxn' \in [Conn -> BOOLEAN]
    <3>1. inTxn' = inTxn \/ \E b \in BOOLEAN : inTxn' = [inTxn EXCEPT ![c] = b]
      BY <1>4
    <3> QED BY <3>1 DEF TypeOK
  <2>5. faults' \in Nat /\ met' \in [Conn -> SUBSET Faults]
    <3>1. \/ UNCHANGED <<faults, met>>
          \/ \E k \in Faults : faults' = faults + 1 /\ met' = [met EXCEPT ![c] = @ \cup {k}]
      BY <1>4
    <3>2. faults \in Nat /\ met \in [Conn -> SUBSET Faults] /\ met[c] \in SUBSET Faults
      BY DEF TypeOK
    <3>3. CASE UNCHANGED <<faults, met>>
      BY <3>2, <3>3
    <3>4. ASSUME NEW k \in Faults, faults' = faults + 1, met' = [met EXCEPT ![c] = @ \cup {k}]
          PROVE  faults' \in Nat /\ met' \in [Conn -> SUBSET Faults]
      <4>1. met[c] \cup {k} \in SUBSET Faults
        BY <3>2
      <4> QED BY <3>2, <3>4, <4>1
    <3> QED BY <3>1, <3>3, <3>4
  <2> QED BY <1>2, <1>3, <1>4, <1>5, <2>1, <2>2, <2>3, <2>4, <2>5 DEF TypeOK, DurableOK, Stmt
<1>8. TriesInv'
  BY <1>4, <1>6 DEF TriesInv, TypeOK
<1> QED BY <1>7, <1>8

LEMMA NextType ==
  ASSUME TypeOK, TriesInv, NEW c \in Conn, NextTransaction(c)
  PROVE  TypeOK' /\ TriesInv'
<1>1. DurableOK'
  BY CommittedType DEF NextTransaction
<1> QED BY <1>1 DEF NextTransaction, Forget, TypeOK, TriesInv, DurableOK, Stmt, clientVars,
   faultVars

LEMMA TypeStep ==
  ASSUME TypeOK, TriesInv, TransactionAssumption, [Next]_vars
  PROVE  TypeOK' /\ TriesInv'
<1>1. ASSUME NEW c \in Conn, Step(c) PROVE TypeOK' /\ TriesInv'
  BY <1>1, AttemptType, RetryType DEF Step, Attempt
<1>2. CASE UNCHANGED vars
  BY <1>2 DEF vars, clientVars, serverVars, sessionVars, faultVars, TypeOK, TriesInv, Stmt
<1> QED BY <1>1, <1>2, NextType DEF Next

LEMMA TypeInvariant == Spec => [](TypeOK /\ TriesInv)
<1>1. Init => TypeOK /\ TriesInv
  BY TypeInit, TransactionAssumption
<1>2. TypeOK /\ TriesInv /\ [Next]_vars => (TypeOK /\ TriesInv)'
  BY TypeStep, TransactionAssumption
<1> QED BY <1>1, <1>2, PTL DEF Spec

\* Every variable keeps its type (mysql_connection and transaction_task).
THEOREM TypeCorrect == Spec => []TypeOK
BY TypeInvariant, PTL

-----------------------------------------------------------------------------
(* What a step leaves alone. *)

\* The steps of one thread, and of the next user of its connection, leave the transactions
\* of the others alone.
LEMMA OthersKept ==
  ASSUME TypeOK, NEW c \in Conn, Step(c) \/ NextTransaction(c), NEW d \in Conn, d # c
  PROVE  /\ pc'[d] = pc[d] /\ pos'[d] = pos[d] /\ code'[d] = code[d] /\ tries'[d] = tries[d]
         /\ handle'[d] = handle[d] /\ inTxn'[d] = inTxn[d] /\ work'[d] = work[d]
         /\ durable'[d] = durable[d] /\ met'[d] = met[d]
<1> USE DEF Goto, Return, Forget, Fault, Failed, Begun, TypeOK, serverVars, sessionVars, faultVars,
            clientVars
<1>1. CASE Begin(c) \/ StatementOk(c) \/ Commit(c) \/ ConnectionLost(c) \/ NextTransaction(c)
  BY <1>1 DEF Begin, StatementOk, Apply, Commit, ConnectionLost, Reached, NextTransaction, Committed
<1>2. CASE Empty(c) \/ BeginRefused(c) \/ StatementDeadlock(c) \/ StatementFailed(c)
  BY <1>2 DEF Empty, BeginRefused, StatementDeadlock, StatementFailed
<1>3. CASE Rollback(c) \/ RollbackRefused(c) \/ CommitRefused(c) \/ NoHandle(c)
  BY <1>3 DEF Rollback, RollbackRefused, CommitRefused, NoHandle
<1>4. CASE FirstOk(c) \/ FirstFailed(c) \/ Lock(c) \/ Cleanup(c)
  BY <1>4 DEF FirstOk, FirstFailed, Lock, Cleanup
<1>5. CASE WorkerRetried(c) \/ DirectRetried(c)
  BY <1>5 DEF WorkerRetried, DirectRetried, NextTry
<1> QED BY <1>1, <1>2, <1>3, <1>4, <1>5 DEF Step

\* The steps around execute_transaction touch neither the session nor what the server holds.
LEMMA AroundFrame ==
  ASSUME TypeOK, TriesInv, NEW c \in Conn, Around(c)
  PROVE  /\ UNCHANGED <<pos, code, handle, inTxn, work, durable, faults, met>>
         /\ pc[c] \in {"result", "lock", "cleanup"}
         /\ pc'[c] \in {"begin", "lock", "cleanup", "end"}
<1> USE DEF Goto, TypeOK, serverVars, sessionVars, faultVars
<1>1. CASE FirstOk(c) \/ FirstFailed(c) \/ Lock(c) \/ Cleanup(c)
  BY <1>1 DEF FirstOk, FirstFailed, Lock, Cleanup
<1>2. CASE WorkerRetried(c) \/ DirectRetried(c)
  BY <1>2 DEF WorkerRetried, DirectRetried, NextTry
<1> QED BY <1>1, <1>2 DEF Around

\* An attempt moves within execute_transaction; whoever retries is not touched.
LEMMA AttemptFrame ==
  ASSUME TypeOK, NEW c \in Conn, Attempt(c)
  PROVE  /\ lock' = lock /\ tries' = tries
         /\ pc[c] \in {"begin", "stmt", "rollback"}
         /\ pc'[c] \in {"begin", "stmt", "rollback", "result"}
<1> USE DEF Goto, Return, Failed, Begun, AtServer, AtBegin, AtStatement, AtCommit, clientVars,
            TypeOK
<1>1. CASE Empty(c) \/ Begin(c) \/ BeginRefused(c) \/ StatementOk(c)
  BY <1>1 DEF Empty, Begin, BeginRefused, StatementOk
<1>2. CASE StatementDeadlock(c) \/ StatementFailed(c) \/ ConnectionLost(c)
  BY <1>2 DEF StatementDeadlock, StatementFailed, ConnectionLost
<1>3. CASE NoHandle(c)
  BY <1>3 DEF NoHandle
<1>4. CASE Rollback(c) \/ RollbackRefused(c) \/ Commit(c) \/ CommitRefused(c)
  BY <1>4 DEF Rollback, RollbackRefused, Commit, CommitRefused
<1> QED BY <1>1, <1>2, <1>3, <1>4 DEF Attempt

-----------------------------------------------------------------------------
(* Mutual exclusion of the retries. *)

\* Any number of workers, any faults: the thread in the retry loop is the one
\* that holds dead_lock_lock_, and every way out of the loop releases it.
THEOREM RetryExclusion == Spec => []RetriesAlone
<1>1. Init => RetriesAlone
  BY TransactionAssumption DEF Init, RetriesAlone, Retrying, TransactionAssumption
<1>2. TypeOK /\ TriesInv /\ RetriesAlone /\ [Next]_vars => RetriesAlone'
  <2> SUFFICES ASSUME TypeOK, TriesInv, RetriesAlone, [Next]_vars PROVE RetriesAlone'
    OBVIOUS
  <2> USE DEF Goto
  <2>1. ASSUME NEW c \in Conn, Step(c), NEW d \in Conn
        PROVE  Retrying(d)' <=> lock' = d
    <3>1. CASE Attempt(c)
      BY <2>1, <3>1, AttemptFrame, OthersKept DEF RetriesAlone, Retrying
    <3>2. CASE FirstOk(c) \/ FirstFailed(c) \/ Cleanup(c)
      BY <2>1, <3>2 DEF FirstOk, FirstFailed, Cleanup, RetriesAlone, Retrying, TypeOK
    <3>3. CASE Lock(c)
      BY <2>1, <3>3, TransactionAssumption
      DEF Lock, RetriesAlone, Retrying, TypeOK, TriesInv, TransactionAssumption
    <3>4. CASE WorkerRetried(c)
      <4>1. lock = c /\ tries[c] + 1 >= 0
        BY <2>1, <3>4 DEF WorkerRetried, RetriesAlone, Retrying, TypeOK
      <4>2. CASE d = c
        BY <2>1, <3>4, <4>1, <4>2, TransactionAssumption
        DEF WorkerRetried, NextTry, Retrying, TypeOK, TransactionAssumption
      <4>3. CASE d # c
        BY <2>1, <3>4, <4>1, <4>3, TransactionAssumption
        DEF WorkerRetried, NextTry, RetriesAlone, Retrying, TypeOK, TransactionAssumption
      <4> QED BY <4>2, <4>3
    <3>5. CASE DirectRetried(c)
      BY <2>1, <3>5, TransactionAssumption
      DEF DirectRetried, NextTry, RetriesAlone, Retrying, TypeOK, TransactionAssumption
    <3> QED BY <2>1, <3>1, <3>2, <3>3, <3>4, <3>5 DEF Step, Attempt
  <2>2. CASE UNCHANGED vars
    BY <2>2 DEF vars, clientVars, RetriesAlone, Retrying
  <2>3. ASSUME NEW c \in Conn, NextTransaction(c) PROVE RetriesAlone'
    BY <2>3 DEF NextTransaction, clientVars, RetriesAlone, Retrying
  <2> QED BY <2>1, <2>2, <2>3 DEF Next, RetriesAlone
<1> QED BY <1>1, <1>2, TypeInvariant, PTL DEF Spec

-----------------------------------------------------------------------------
(* Atomicity. *)

\* The session of c and its thread agree.  A session that is in no transaction holds no work,
\* and there is no session without a handle.  Undisturbed, c is in a transaction exactly
\* while its thread is between START TRANSACTION and the end of it, and the session holds
\* what the thread has executed; a refused COMMIT can leave the whole of it open.
Atom(c) ==
  /\ ~inTxn[c] => work[c] = {}
  /\ ~handle[c] => ~inTxn[c] /\ "lost" \in met[c]
  /\ pc[c] \notin {"stmt", "rollback"} /\ met[c] \cap {"commit", "rollback"} = {} => ~inTxn[c]
  /\ Undisturbed(c) =>
       /\ \A s, t \in Stmt(c) : durable[c][s] = durable[c][t]
       /\ pc[c] = "stmt" => inTxn[c] /\ work[c] = 1 .. pos[c] - 1
       /\ pc[c] \notin {"stmt", "rollback"} => work[c] = {} \/ work[c] = Stmt(c)

AtomInv == \A c \in Conn : Atom(c)

\* A session that commits nothing or a whole transaction treats its statements alike, and
\* one that holds nothing commits nothing.
LEMMA CommitAlike ==
  ASSUME TypeOK, NEW c \in Conn, Committed(c)
  PROVE  /\ \A s \in Stmt(c) :
              durable'[c][s] = IF s \in work[c] THEN durable[c][s] + 1 ELSE durable[c][s]
         /\ work[c] = {} => durable'[c] = durable[c]
<1>1. durable' = [durable EXCEPT ![c] =
         [s \in Stmt(c) |-> IF s \in work[c] THEN durable[c][s] + 1 ELSE durable[c][s]]]
  BY DEF Committed
<1>2. \A s \in Stmt(c) :
        durable'[c][s] = IF s \in work[c] THEN durable[c][s] + 1 ELSE durable[c][s]
  BY <1>1 DEF TypeOK
<1>3. ASSUME work[c] = {} PROVE durable'[c] = durable[c]
  <2>1. [s \in Stmt(c) |-> IF s \in work[c] THEN durable[c][s] + 1 ELSE durable[c][s]] = durable[c]
    BY <1>3 DEF TypeOK
  <2> QED BY <1>1, <2>1 DEF TypeOK
<1> QED BY <1>2, <1>3

LEMMA AtomServer ==
  ASSUME TypeOK, TransactionAssumption, NEW c \in Conn, Atom(c), handle[c],
         Begin(c) \/ BeginRefused(c) \/ StatementOk(c) \/ Commit(c) \/ CommitRefused(c)
  PROVE  Atom(c)'
<1> USE DEF Goto, Return, Forget, Fault, Begun, serverVars, sessionVars, faultVars
<1>1. /\ Size[c] \in Nat /\ pos[c] \in Nat \ {0} /\ Stmt(c) = 1 .. Size[c]
      /\ durable[c] \in [Stmt(c) -> Nat]
  BY DEF TypeOK, TransactionAssumption, Stmt
<1>2. CASE Begin(c)
  <2>1. /\ pc[c] = "begin" /\ pc'[c] = "stmt" /\ pos'[c] = 1 /\ inTxn'[c] /\ work'[c] = {}
        /\ UNCHANGED <<handle, met>> /\ Committed(c)
    BY <1>2 DEF Begin, AtBegin, TypeOK
  <2>2. Undisturbed(c) => \A s, t \in Stmt(c) : durable'[c][s] = durable'[c][t]
    BY <2>1, CommitAlike DEF Atom
  <2>3. 1 .. pos'[c] - 1 = {}
    BY <2>1
  <2> QED BY <2>1, <2>2, <2>3 DEF Atom, Undisturbed, Stmt
<1>3. CASE BeginRefused(c)
  <2>1. "begin" \in met'[c] /\ handle' = handle /\ inTxn' = inTxn /\ work' = work /\ pc'[c] = "stmt"
    BY <1>3 DEF BeginRefused, TypeOK
  <2> QED BY <2>1 DEF Atom, Undisturbed
<1>4. CASE StatementOk(c)
  <2>1. pc[c] = "stmt" /\ pos[c] <= Size[c] /\ pos'[c] = pos[c] + 1
        /\ UNCHANGED <<pc, handle, inTxn, met>>
    BY <1>4 DEF StatementOk, AtStatement, TypeOK
  <2>2. CASE inTxn[c]
    <3>1. durable' = durable /\ work'[c] = work[c] \cup {pos[c]}
      BY <1>4, <2>2 DEF StatementOk, Apply, TypeOK
    <3>2. (1 .. pos[c] - 1) \cup {pos[c]} = 1 .. pos'[c] - 1
      BY <1>1, <2>1
    <3> QED BY <2>1, <2>2, <3>1, <3>2 DEF Atom, Undisturbed, Stmt
  <2>3. CASE ~inTxn[c]
    <3>1. work' = work /\ ~Undisturbed(c)
      BY <1>4, <2>1, <2>3 DEF StatementOk, Apply, Atom
    <3> QED BY <2>1, <2>3, <3>1 DEF Atom, Undisturbed
  <2> QED BY <2>2, <2>3
<1>5. CASE Commit(c)
  <2>1. /\ pc[c] = "stmt" /\ pos[c] = Size[c] + 1
        /\ pc'[c] = "result" /\ ~inTxn'[c] /\ work'[c] = {}
        /\ UNCHANGED <<handle, met>> /\ Committed(c)
    BY <1>5 DEF Commit, AtCommit, TypeOK
  <2>2. Undisturbed(c) => work[c] = Stmt(c)
    BY <1>1, <2>1 DEF Atom
  <2>3. Undisturbed(c) => \A s, t \in Stmt(c) : durable'[c][s] = durable'[c][t]
    BY <2>1, <2>2, CommitAlike DEF Atom
  <2> QED BY <2>1, <2>3 DEF Atom, Undisturbed, Stmt
<1>6. CASE CommitRefused(c)
  <2>1. /\ pc[c] = "stmt" /\ pos[c] = Size[c] + 1 /\ pc'[c] = "result" /\ durable' = durable
        /\ handle' = handle /\ met'[c] = met[c] \cup {"commit"}
        /\ (~inTxn'[c] /\ work'[c] = {}) \/ (inTxn'[c] = inTxn[c] /\ work'[c] = work[c])
    BY <1>6 DEF CommitRefused, AtCommit, TypeOK
  <2>2. Undisturbed(c)' => Undisturbed(c) /\ (work'[c] = {} \/ work'[c] = Stmt(c))
    BY <1>1, <2>1 DEF Atom, Undisturbed
  <2> QED BY <2>1, <2>2 DEF Atom, Undisturbed, Stmt
<1> QED BY <1>2, <1>3, <1>4, <1>5, <1>6

LEMMA AtomFault ==
  ASSUME TypeOK, NEW c \in Conn, Atom(c),
         \/ Empty(c) \/ StatementDeadlock(c) \/ StatementFailed(c) \/ ConnectionLost(c)
         \/ NoHandle(c) \/ Rollback(c) \/ RollbackRefused(c)
  PROVE  Atom(c)'
<1> USE DEF Goto, Return, Forget, Fault, Failed, Begun, clientVars, serverVars, sessionVars,
            faultVars
<1>1. CASE Empty(c)
  BY <1>1 DEF Empty, Atom, Undisturbed, Stmt, TypeOK
<1>2. CASE StatementDeadlock(c)
  BY <1>2 DEF StatementDeadlock, Atom, Undisturbed, Stmt, TypeOK
<1>3. CASE StatementFailed(c)
  BY <1>3 DEF StatementFailed, Atom, Undisturbed, Stmt, TypeOK
<1>4. CASE ConnectionLost(c)
  <2>1. "lost" \in met'[c] /\ ~inTxn'[c] /\ work'[c] = {}
    BY <1>4 DEF ConnectionLost, TypeOK
  <2> QED BY <2>1 DEF Atom, Undisturbed
<1>5. CASE NoHandle(c)
  <2>1. ~handle[c] /\ handle' = handle /\ UNCHANGED <<inTxn, work, met>>
    BY <1>5 DEF NoHandle
  <2> QED BY <2>1 DEF Atom, Undisturbed
<1>6. CASE Rollback(c)
  BY <1>6 DEF Rollback, Atom, Undisturbed, Stmt, TypeOK
<1>7. CASE RollbackRefused(c)
  <2>1. "rollback" \in met'[c] /\ UNCHANGED <<handle, inTxn, work>>
    BY <1>7 DEF RollbackRefused, TypeOK
  <2>2. "lost" \in met[c] => "lost" \in met'[c]
    BY <1>7 DEF RollbackRefused, TypeOK
  <2> QED BY <2>1, <2>2 DEF Atom, Undisturbed
<1> QED BY <1>1, <1>2, <1>3, <1>4, <1>5, <1>6, <1>7

LEMMA AtomNext ==
  ASSUME TypeOK, NEW c \in Conn, Atom(c), NextTransaction(c)
  PROVE  Atom(c)'
<1>1. /\ pc[c] = "end" /\ ~inTxn'[c] /\ work'[c] = {} /\ Committed(c)
      /\ UNCHANGED <<pc, pos, handle, met>>
  BY DEF NextTransaction, Forget, TypeOK, clientVars, faultVars
<1>2. Undisturbed(c) => \A s, t \in Stmt(c) : durable'[c][s] = durable'[c][t]
  BY <1>1, CommitAlike DEF Atom
<1> QED BY <1>1, <1>2 DEF Atom, Undisturbed, Stmt

LEMMA AtomAlways == Spec => []AtomInv
<1>1. Init => AtomInv
  BY DEF Init, AtomInv, Atom
<1>2. TypeOK /\ TriesInv /\ AtomInv /\ [Next]_vars => AtomInv'
  <2> SUFFICES ASSUME TypeOK, TriesInv, AtomInv, [Next]_vars PROVE AtomInv'
    OBVIOUS
  <2>1. ASSUME NEW c \in Conn, Step(c) \/ NextTransaction(c), NEW d \in Conn PROVE Atom(d)'
    <3>1. CASE d # c
      BY <2>1, <3>1, OthersKept DEF AtomInv, Atom, Undisturbed, Stmt
    <3>2. CASE d = c /\ NextTransaction(c)
      BY <3>2, AtomNext DEF AtomInv
    <3>3. CASE d = c /\ Around(c)
      BY <3>3, AroundFrame DEF AtomInv, Atom, Undisturbed, Stmt
    <3>4. CASE d = c /\ Attempt(c)
      BY <3>4, AtomServer, AtomFault, TransactionAssumption
      DEF AtomInv, Attempt, Begin, BeginRefused, StatementOk, Commit, CommitRefused
    <3> QED BY <2>1, <3>1, <3>2, <3>3, <3>4 DEF Step, Attempt, Around
  <2>2. CASE UNCHANGED vars
    BY <2>2 DEF vars, clientVars, serverVars, sessionVars, faultVars, AtomInv, Atom,
       Undisturbed, Stmt
  <2> QED BY <2>1, <2>2 DEF Next, AtomInv
<1> QED BY <1>1, <1>2, TypeInvariant, PTL DEF Spec

\* A transaction is atomic unless its connection was lost or the server refused one of its
\* START TRANSACTION and ROLLBACK, and its session is left clean unless it refused a COMMIT
\* or a ROLLBACK: for every number of workers and direct committers, whatever deadlocks,
\* errors and retries it met and whatever becomes of the other connections.
THEOREM Atomicity == Spec => [](SessionClean /\ AllOrNothing)
<1>1. AtomInv => SessionClean /\ AllOrNothing
  BY DEF AtomInv, Atom, SessionClean, AllOrNothing
<1> QED BY <1>1, AtomAlways, PTL

-----------------------------------------------------------------------------
(* What direct_commit_transaction tells its caller. *)

\* What an undisturbed direct transaction has left in the database: nothing until an
\* attempt succeeds, and no attempt follows that one.  Only a refused COMMIT leaves it
\* open after its success.
Succeeded(c) == pc[c] \in {"result", "cleanup", "end"} /\ code[c] = "ok"

Truth(c) ==
  c \notin Async /\ Undisturbed(c) =>
    /\ ~Succeeded(c) => "commit" \notin met[c] /\ \A s \in Stmt(c) : durable[c][s] = 0
    /\ Succeeded(c) => \/ ~inTxn[c] /\ \A s \in Stmt(c) : durable[c][s] = 1
                       \/ "commit" \in met[c] /\ \A s \in Stmt(c) : durable[c][s] = 0
    /\ pc[c] = "rollback" => code[c] # "ok"

TruthInv == \A c \in Conn : Truth(c)

LEMMA TruthAttempt ==
  ASSUME TypeOK, TransactionAssumption, NEW c \in Conn, Atom(c), Truth(c), Attempt(c)
  PROVE  Truth(c)'
<1> USE DEF Goto, Return, Forget, Fault, Failed, Begun, serverVars, sessionVars, faultVars
<1>1. SUFFICES ASSUME c \notin Async, Undisturbed(c)' PROVE Truth(c)'
  BY DEF Truth
<1>2. met[c] \subseteq met'[c]
  BY DEF Attempt, Empty, Begin, BeginRefused, StatementOk, StatementDeadlock, StatementFailed,
     ConnectionLost, NoHandle, Rollback, RollbackRefused, Commit, CommitRefused, TypeOK
<1>3. /\ pc[c] \in {"begin", "stmt", "rollback"} /\ Undisturbed(c)
      /\ "commit" \notin met[c] /\ \A s \in Stmt(c) : durable[c][s] = 0
      /\ handle[c] /\ (pc[c] = "rollback" => code[c] # "ok")
  BY <1>1, <1>2, AttemptFrame DEF Undisturbed, Truth, Succeeded, Atom
<1>4. CASE Commit(c)
  <2>1. pc[c] = "stmt" /\ pos[c] = Size[c] + 1 /\ Size[c] \in Nat /\ Committed(c)
    BY <1>4 DEF Commit, AtCommit, TransactionAssumption
  <2>2. work[c] = Stmt(c)
    BY <1>3, <2>1 DEF Atom, Stmt
  <2>3. \A s \in Stmt(c) : durable'[c][s] = 1
    BY <1>3, <2>1, <2>2, CommitAlike
  <2>4. pc'[c] = "result" /\ code'[c] = "ok" /\ ~inTxn'[c]
    BY <1>4 DEF Commit, TypeOK
  <2> QED BY <2>3, <2>4 DEF Truth, Succeeded, Stmt
<1>5. CASE CommitRefused(c)
  <2>1. /\ pc'[c] = "result" /\ code'[c] = "ok" /\ durable' = durable
        /\ "commit" \in met'[c]
    BY <1>5 DEF CommitRefused, TypeOK
  <2> QED BY <1>3, <2>1 DEF Truth, Succeeded, Stmt
<1>6. CASE Begin(c) \/ StatementOk(c)
  <2>1. durable'[c] = durable[c]
    <3>1. CASE Begin(c)
      <4>1. work[c] = {}
        BY <1>3, <3>1 DEF Begin, AtBegin, Atom, Undisturbed
      <4> QED BY <3>1, <4>1, CommitAlike DEF Begin
    <3>2. CASE StatementOk(c)
      BY <1>3, <3>2 DEF StatementOk, AtStatement, Apply, Atom
    <3> QED BY <1>6, <3>1, <3>2
  <2>2. pc'[c] = "stmt" /\ met' = met
    BY <1>6 DEF Begin, StatementOk, AtStatement, TypeOK
  <2> QED BY <1>3, <2>1, <2>2 DEF Truth, Succeeded, Stmt
<1>7. CASE Empty(c) \/ StatementDeadlock(c) \/ StatementFailed(c) \/ Rollback(c)
  <2>1. durable' = durable /\ "commit" \notin met'[c]
    BY <1>3, <1>7 DEF Empty, StatementDeadlock, StatementFailed, Rollback, TypeOK
  <2>2. pc'[c] \in {"rollback", "result"} /\ code'[c] # "ok"
    BY <1>3, <1>7 DEF Empty, StatementDeadlock, StatementFailed, Rollback, TypeOK
  <2> QED BY <1>3, <2>1, <2>2 DEF Truth, Succeeded, Stmt
<1>8. ~BeginRefused(c) /\ ~ConnectionLost(c) /\ ~RollbackRefused(c) /\ ~NoHandle(c)
  <2>1. ~NoHandle(c)
    BY <1>3 DEF NoHandle
  <2>2. ASSUME NEW k \in {"lost", "begin", "rollback"} PROVE ~Fault(c, k)
    <3> SUFFICES ASSUME Fault(c, k) PROVE FALSE
      OBVIOUS
    <3>1. k \in met'[c]
      BY DEF TypeOK
    <3> QED BY <1>1, <3>1 DEF Undisturbed
  <2> QED BY <2>1, <2>2 DEF BeginRefused, ConnectionLost, RollbackRefused
<1> QED BY <1>4, <1>5, <1>6, <1>7, <1>8 DEF Attempt

LEMMA TruthAround ==
  ASSUME TypeOK, TriesInv, NEW c \in Conn, Truth(c), Around(c)
  PROVE  Truth(c)'
<1>1. SUFFICES ASSUME c \notin Async, Undisturbed(c)' PROVE Truth(c)'
  BY DEF Truth
<1>2. /\ UNCHANGED <<pos, code, handle, inTxn, work, durable, faults, met>>
      /\ pc[c] \in {"result", "lock", "cleanup"}
      /\ pc'[c] \in {"begin", "lock", "cleanup", "end"}
  BY AroundFrame
<1>3. pc[c] # "lock"
  BY <1>1 DEF TriesInv
<1>4. /\ pc'[c] \in {"begin", "lock"} => code[c] # "ok"
      /\ Succeeded(c)' <=> Succeeded(c)
  <2>1. CASE FirstOk(c) \/ FirstFailed(c) \/ Cleanup(c)
    BY <1>2, <2>1 DEF FirstOk, FirstFailed, Cleanup, Goto, Succeeded, TypeOK
  <2>2. CASE DirectRetried(c)
    BY <1>2, <2>2 DEF DirectRetried, NextTry, Goto, Succeeded, TypeOK
  <2> QED BY <1>1, <1>3, <2>1, <2>2 DEF Around, Lock, WorkerRetried
<1> QED BY <1>1, <1>2, <1>4 DEF Truth, Undisturbed, Stmt

LEMMA TruthNext ==
  ASSUME TypeOK, NEW c \in Conn, Atom(c), Truth(c), NextTransaction(c)
  PROVE  Truth(c)'
<1>1. SUFFICES ASSUME c \notin Async, Undisturbed(c)' PROVE Truth(c)'
  BY DEF Truth
<1>2. /\ pc[c] = "end" /\ inTxn[c] /\ ~inTxn'[c] /\ Committed(c)
      /\ UNCHANGED <<pc, code, met>>
  BY DEF NextTransaction, Forget, TypeOK, clientVars, faultVars
<1>3. Undisturbed(c)
  BY <1>1, <1>2 DEF Undisturbed
<1>4. "commit" \in met[c]
  BY <1>2, <1>3 DEF Atom, Undisturbed
<1>5. Succeeded(c) /\ \A s \in Stmt(c) : durable[c][s] = 0
  BY <1>1, <1>2, <1>3, <1>4 DEF Truth
<1>6. work[c] = {} \/ work[c] = Stmt(c)
  BY <1>2, <1>3 DEF Atom
<1>7. \/ \A s \in Stmt(c) : durable'[c][s] = 0
      \/ \A s \in Stmt(c) : durable'[c][s] = 1
  BY <1>2, <1>5, <1>6, CommitAlike
<1> QED BY <1>2, <1>4, <1>5, <1>7 DEF Truth, Succeeded, Stmt

LEMMA TruthAlways == Spec => []TruthInv
<1>1. Init => TruthInv
  BY DEF Init, TruthInv, Truth, Succeeded
<1>2. TypeOK /\ TriesInv /\ AtomInv /\ TruthInv /\ [Next]_vars => TruthInv'
  <2> SUFFICES ASSUME TypeOK, TriesInv, AtomInv, TruthInv, [Next]_vars PROVE TruthInv'
    OBVIOUS
  <2>1. ASSUME NEW c \in Conn, Step(c) \/ NextTransaction(c), NEW d \in Conn PROVE Truth(d)'
    <3>1. CASE d # c
      BY <2>1, <3>1, OthersKept DEF TruthInv, Truth, Succeeded, Undisturbed, Stmt
    <3>2. CASE d = c /\ NextTransaction(c)
      BY <3>2, TruthNext DEF AtomInv, TruthInv
    <3>3. CASE d = c /\ Around(c)
      BY <3>3, TruthAround DEF TruthInv
    <3>4. CASE d = c /\ Attempt(c)
      BY <3>4, TruthAttempt, TransactionAssumption DEF AtomInv, TruthInv
    <3> QED BY <2>1, <3>1, <3>2, <3>3, <3>4 DEF Step, Attempt, Around
  <2>2. CASE UNCHANGED vars
    BY <2>2 DEF vars, clientVars, serverVars, sessionVars, faultVars, TruthInv, Truth, Succeeded,
       Undisturbed, Stmt
  <2> QED BY <2>1, <2>2 DEF Next, TruthInv
<1> QED BY <1>1, <1>2, TypeInvariant, AtomAlways, PTL DEF Spec

\* DirectTellsTruth: what direct_commit_transaction takes for a failure has had no effect and
\* what it takes for a success has taken effect exactly once, or at most once and as a whole
\* where the COMMIT was refused: for every size of a transaction, whatever deadlocks and
\* errors its attempts met (database_worker_pool.cpp, direct_commit_transaction).
THEOREM DirectTruth == Spec => []DirectTellsTruth
<1>1. TruthInv => DirectTellsTruth
  BY DEF TruthInv, Truth, DirectTellsTruth, Succeeded
<1> QED BY <1>1, TruthAlways, PTL

-----------------------------------------------------------------------------
(* What the two findings about DbTransaction take. *)

\* Where no connection is lost and the server refuses no START TRANSACTION and no ROLLBACK,
\* every transaction is atomic when its task ends, deadlocks, errors, refused COMMITs and
\* retries included: what breaks it is the reconnection in handle_mysql_errno and the two
\* results that mysql_connection drops.
THEOREM AtomicUnlessDisturbed ==
  ASSUME Faults \cap {"lost", "begin", "rollback"} = {}
  PROVE  Spec => []DoneIsAtomic
<1>1. TypeOK /\ AllOrNothing => DoneIsAtomic
  BY DEF TypeOK, AllOrNothing, Undisturbed, DoneIsAtomic
<1> QED BY <1>1, TypeCorrect, Atomicity, PTL

\* Of a connection that meets neither a deadlock nor a loss: it makes one attempt, which has
\* executed the statements before pos, and each is permanent or open but not twice.
Executed(c, s) == pc[c] # "begin" /\ (pc[c] = "stmt" => s < pos[c])

Once(c) ==
  /\ tries[c] = -1 /\ code[c] # "deadlock" /\ pc[c] # "lock" /\ handle[c]
  /\ \A s \in Stmt(c) :
       durable[c][s] + (IF s \in work[c] THEN 1 ELSE 0) <= IF Executed(c, s) THEN 1 ELSE 0

OnceInv == \A c \in Conn : Once(c)

\* Committing moves a statement from the one side of the sum to the other.
LEMMA OnceCommitted ==
  ASSUME TypeOK, NEW c \in Conn, Committed(c), work'[c] = {}, NEW s \in Stmt(c)
  PROVE  durable'[c][s] + (IF s \in work'[c] THEN 1 ELSE 0)
           = durable[c][s] + (IF s \in work[c] THEN 1 ELSE 0)
<1>1. durable[c][s] \in Nat
  BY DEF TypeOK
<1> QED BY <1>1, CommitAlike

LEMMA OnceOwn ==
  ASSUME TypeOK, NEW c \in Conn, Once(c), Step(c) \/ NextTransaction(c),
         Faults \cap {"deadlock", "lost"} = {}
  PROVE  Once(c)'
<1> USE DEF Goto, Return, Forget, Fault, Failed, Begun, clientVars, serverVars, sessionVars,
            faultVars
<1>1. /\ pc[c] # "lock" /\ tries[c] = -1 /\ code[c] # "deadlock" /\ handle[c]
      /\ pos[c] \in Nat \ {0} /\ \A s \in Stmt(c) : durable[c][s] \in Nat /\ s \in Int
  <2>1. pc[c] # "lock" /\ tries[c] = -1 /\ code[c] # "deadlock" /\ handle[c]
    BY DEF Once
  <2>2. pos[c] \in Nat \ {0} /\ durable[c] \in [Stmt(c) -> Nat]
    BY DEF TypeOK
  <2>3. Size[c] \in Nat
    BY TransactionAssumption DEF TransactionAssumption
  <2>4. \A s \in Stmt(c) : s \in Int
    BY <2>3 DEF Stmt
  <2> QED BY <2>1, <2>2, <2>4
<1>2. /\ ~StatementDeadlock(c) /\ ~ConnectionLost(c) /\ ~NoHandle(c)
      /\ ~Lock(c) /\ ~WorkerRetried(c) /\ ~DirectRetried(c)
  <2>1. "deadlock" \notin Faults /\ "lost" \notin Faults
    OBVIOUS
  <2>2. ~StatementDeadlock(c) /\ ~ConnectionLost(c)
    BY <2>1 DEF StatementDeadlock, ConnectionLost
  <2>3. ~NoHandle(c) /\ ~Lock(c)
    BY <1>1 DEF NoHandle, Lock
  <2>4. ~WorkerRetried(c) /\ ~DirectRetried(c)
    BY <1>1 DEF WorkerRetried, DirectRetried
  <2> QED BY <2>2, <2>3, <2>4
<1>3. CASE StatementOk(c)
  <2>1. /\ pc[c] = "stmt" /\ pos'[c] = pos[c] + 1
        /\ UNCHANGED <<pc, tries, code, handle>>
    BY <1>3 DEF StatementOk, AtStatement, TypeOK
  <2>2. ASSUME NEW s \in Stmt(c)
        PROVE  durable'[c][s] + (IF s \in work'[c] THEN 1 ELSE 0)
                 <= IF Executed(c, s)' THEN 1 ELSE 0
    <3>1. CASE s # pos[c]
      <4>1. durable'[c][s] = durable[c][s] /\ (s \in work'[c] <=> s \in work[c])
        BY <1>3, <3>1 DEF StatementOk, Apply, TypeOK
      <4>2. Executed(c, s)' <=> Executed(c, s)
        BY <1>1, <2>1, <3>1 DEF Executed
      <4> QED BY <4>1, <4>2 DEF Once
    <3>2. CASE s = pos[c]
      <4>1. durable[c][s] = 0 /\ s \notin work[c]
        BY <1>1, <2>1, <3>2 DEF Once, Executed
      <4>2. durable'[c][s] + (IF s \in work'[c] THEN 1 ELSE 0) <= 1
        BY <1>1, <1>3, <3>2, <4>1 DEF StatementOk, Apply, TypeOK
      <4>3. Executed(c, s)'
        BY <1>1, <2>1, <3>2 DEF Executed
      <4> QED BY <4>2, <4>3
    <3> QED BY <3>1, <3>2
  <2> QED BY <1>1, <2>1, <2>2 DEF Once, Stmt
<1>4. CASE ~StatementOk(c)
  <2>1. /\ tries'[c] = -1 /\ code'[c] # "deadlock" /\ pc'[c] # "lock" /\ handle'[c]
        /\ \A s \in Stmt(c) : Executed(c, s) => Executed(c, s)'
    <3>1. CASE Attempt(c) \/ NextTransaction(c)
      BY <1>1, <1>2, <1>4, <3>1
      DEF Attempt, Empty, Begin, BeginRefused, StatementFailed, Rollback, RollbackRefused, Commit,
          CommitRefused, NextTransaction, AtBegin, AtStatement, AtCommit, Executed, TypeOK
    <3>2. CASE Around(c)
      BY <1>1, <1>2, <3>2 DEF Around, FirstOk, FirstFailed, Cleanup, Executed, TypeOK
    <3> QED BY <3>1, <3>2 DEF Step, Attempt, Around
  <2>2. \/ Committed(c) /\ work'[c] = {}
        \/ durable' = durable /\ work'[c] \subseteq work[c]
    BY <1>2, <1>4 DEF Step, Empty, Begin, BeginRefused, StatementFailed, Rollback,
       RollbackRefused, Commit, CommitRefused, NextTransaction, FirstOk, FirstFailed, Cleanup,
       TypeOK
  <2>3. ASSUME NEW s \in Stmt(c)
        PROVE  durable'[c][s] + (IF s \in work'[c] THEN 1 ELSE 0)
                 <= durable[c][s] + (IF s \in work[c] THEN 1 ELSE 0)
    BY <1>1, <2>2, OnceCommitted
  <2>4. ASSUME NEW s \in Stmt(c)
        PROVE  durable'[c][s] + (IF s \in work'[c] THEN 1 ELSE 0)
                 <= IF Executed(c, s)' THEN 1 ELSE 0
    <3>1. durable[c][s] + (IF s \in work[c] THEN 1 ELSE 0) <= IF Executed(c, s)' THEN 1 ELSE 0
      BY <1>1, <2>1 DEF Once
    <3>2. durable'[c][s] \in Nat
      BY <1>1, <2>2, CommitAlike
    <3> QED BY <1>1, <2>3, <3>1, <3>2
  <2> QED BY <2>1, <2>4 DEF Once, Stmt
<1> QED BY <1>3, <1>4

\* Without lost connections and deadlocks a transaction takes effect at most once, errors
\* and refusals included: it is the retry loop of transaction_task::execute, which goes on
\* after a success, and the repeated statement after a reconnection that run one twice.
THEOREM OnceUnlessRetried ==
  ASSUME Faults \cap {"deadlock", "lost"} = {}
  PROVE  Spec => []AtMostOnce
<1>1. Init => OnceInv
  BY DEF Init, OnceInv, Once
<1>2. TypeOK /\ OnceInv /\ [Next]_vars => OnceInv'
  <2> SUFFICES ASSUME TypeOK, OnceInv, [Next]_vars PROVE OnceInv'
    OBVIOUS
  <2>1. ASSUME NEW c \in Conn, Step(c) \/ NextTransaction(c), NEW d \in Conn PROVE Once(d)'
    <3>1. CASE d # c
      BY <2>1, <3>1, OthersKept DEF OnceInv, Once, Executed, Stmt
    <3>2. CASE d = c
      BY <2>1, <3>2, OnceOwn DEF OnceInv
    <3> QED BY <3>1, <3>2
  <2>2. CASE UNCHANGED vars
    BY <2>2 DEF vars, clientVars, serverVars, sessionVars, OnceInv, Once, Executed, Stmt
  <2> QED BY <2>1, <2>2 DEF Next, OnceInv
<1>3. TypeOK /\ OnceInv => AtMostOnce
  <2> SUFFICES ASSUME TypeOK, OnceInv, NEW c \in Async, NEW s \in Stmt(c) PROVE durable[c][s] <= 1
    BY DEF AtMostOnce
  <2>1. c \in Conn
    BY TransactionAssumption DEF TransactionAssumption
  <2>2. durable[c][s] \in Nat
    BY <2>1 DEF TypeOK
  <2> QED BY <2>1, <2>2 DEF OnceInv, Once
<1> QED BY <1>1, <1>2, <1>3, TypeCorrect, PTL DEF Spec

-----------------------------------------------------------------------------
(* Termination: the safety half of AllFinish. *)

\* How far the thread of c is in its attempt, counting down to the end and to the next user
\* of its connection.
Stage(c) ==
  CASE pc[c] = "begin" -> Size[c] + 7
    [] pc[c] = "stmt" -> Size[c] + 7 - pos[c]
    [] pc[c] = "rollback" -> 5
    [] pc[c] = "result" -> 4
    [] pc[c] = "lock" -> 3
    [] pc[c] = "cleanup" -> 2
    [] pc[c] = "end" -> IF inTxn[c] THEN 1 ELSE 0

\* c has moved on: to its next try, which it never takes back; else, within a try, towards
\* its end; else one of the MaxFaults faults is spent.
Further(c) ==
  \/ tries'[c] > tries[c]
  \/ tries'[c] = tries[c] /\ Stage(c)' < Stage(c)
  \/ tries'[c] = tries[c] /\ Stage(c)' = Stage(c) /\ faults' > faults

Bounded(c) == tries[c] \in -1 .. LoopBreaker /\ Stage(c) \in Nat /\ faults \in 0 .. MaxFaults

SomeoneFurther ==
  \E c \in Conn : /\ Further(c)
                 /\ \A d \in Conn \ {c} : tries'[d] = tries[d] /\ Stage(d)' = Stage(d)

LEMMA StepFurther ==
  ASSUME TypeOK, TriesInv, TransactionAssumption, faults <= MaxFaults, NEW c \in Conn,
         Step(c) \/ NextTransaction(c)
  PROVE  Further(c) /\ faults' <= MaxFaults
<1> USE DEF Goto, Return, Failed, Begun, AtBegin, AtStatement, AtCommit
<1>1. /\ Size[c] \in Nat /\ pos[c] \in 1 .. Size[c] + 1 /\ tries[c] \in -1 .. LoopBreaker
      /\ faults \in Nat /\ MaxFaults \in Nat
  BY DEF TypeOK, TransactionAssumption
<1>2. CASE ConnectionLost(c)
  <2>1. /\ UNCHANGED <<pc, pos, tries>> /\ pc[c] # "end"
        /\ faults' = faults + 1 /\ faults < MaxFaults
    BY <1>2 DEF ConnectionLost, AtServer, Fault, clientVars
  <2> QED BY <1>1, <2>1 DEF Further, Stage
<1>3. CASE Empty(c) \/ Begin(c) \/ StatementOk(c) \/ Rollback(c) \/ Commit(c)
  <2>1. tries' = tries /\ faults' = faults
    BY <1>3 DEF Empty, Begin, StatementOk, Rollback, Commit, faultVars
  <2>2. Stage(c)' < Stage(c)
    BY <1>1, <1>3 DEF Empty, Begin, StatementOk, Rollback, Commit, Stage, TypeOK
  <2> QED BY <1>1, <2>1, <2>2 DEF Further
<1>4. CASE \/ StatementDeadlock(c) \/ StatementFailed(c) \/ CommitRefused(c)
           \/ BeginRefused(c) \/ RollbackRefused(c)
  <2>1. tries' = tries /\ faults' <= MaxFaults
    BY <1>1, <1>4 DEF StatementDeadlock, StatementFailed, CommitRefused, BeginRefused,
       RollbackRefused, Fault
  <2>2. Stage(c)' < Stage(c)
    BY <1>1, <1>4 DEF StatementDeadlock, StatementFailed, CommitRefused, BeginRefused,
       RollbackRefused, Stage, TypeOK
  <2> QED BY <2>1, <2>2 DEF Further
<1>5. CASE NoHandle(c)
  <2>1. tries' = tries /\ faults' = faults
    BY <1>5 DEF NoHandle, faultVars
  <2>2. Stage(c)' < Stage(c)
    BY <1>1, <1>5 DEF NoHandle, Stage, TypeOK
  <2> QED BY <1>1, <2>1, <2>2 DEF Further
<1>6. CASE FirstOk(c) \/ Cleanup(c) \/ NextTransaction(c)
  <2>1. tries' = tries /\ faults' = faults
    BY <1>6 DEF FirstOk, Cleanup, NextTransaction, clientVars, faultVars
  <2>2. Stage(c)' < Stage(c)
    BY <1>6 DEF FirstOk, Cleanup, NextTransaction, clientVars, Forget, Stage, TypeOK
  <2> QED BY <1>1, <2>1, <2>2 DEF Further
<1>7. CASE FirstFailed(c) \/ Lock(c) \/ WorkerRetried(c) \/ DirectRetried(c)
  <2>1. faults' = faults
    BY <1>7 DEF FirstFailed, Lock, WorkerRetried, DirectRetried, faultVars
  <2>2. \/ tries'[c] > tries[c]
        \/ tries'[c] = tries[c] /\ pc[c] = "result" /\ pc'[c] \in {"lock", "cleanup", "end"}
    BY <1>1, <1>7 DEF FirstFailed, Lock, WorkerRetried, DirectRetried, NextTry, TypeOK, TriesInv
  <2> QED BY <1>1, <2>1, <2>2 DEF Further, Stage
<1> QED BY <1>2, <1>3, <1>4, <1>5, <1>6, <1>7 DEF Step

\* Neither loop of a transaction, of attempts or of statements, runs forever: tries, stages
\* and faults are bounded and each step of a thread takes its transaction further, whatever
\* the other threads and the server do.  What fairness has to add for AllFinish is only
\* that a thread which can take a step takes one.
THEOREM AttemptsAreFinite == Spec => [](\A c \in Conn : Bounded(c)) /\ [][SomeoneFurther]_vars
<1>1. Init => faults <= MaxFaults
  BY TransactionAssumption DEF Init, TransactionAssumption
<1>2. TypeOK /\ TriesInv /\ faults <= MaxFaults /\ [Next]_vars =>
        (faults <= MaxFaults)' /\ [SomeoneFurther]_vars
  <2> SUFFICES ASSUME TypeOK, TriesInv, faults <= MaxFaults, [Next]_vars
      PROVE  (faults <= MaxFaults)' /\ [SomeoneFurther]_vars
    OBVIOUS
  <2>1. ASSUME NEW c \in Conn, Step(c) \/ NextTransaction(c)
        PROVE  /\ Further(c) /\ faults' <= MaxFaults
               /\ \A d \in Conn \ {c} : tries'[d] = tries[d] /\ Stage(d)' = Stage(d)
    BY <2>1, StepFurther, OthersKept, TransactionAssumption DEF Stage
  <2>2. CASE UNCHANGED vars
    BY <2>2 DEF vars, faultVars
  <2> QED BY <2>1, <2>2 DEF Next, SomeoneFurther
<1>3. TypeOK /\ faults <= MaxFaults => \A c \in Conn : Bounded(c)
  BY TransactionAssumption DEF TypeOK, Bounded, Stage, TransactionAssumption
<1> QED BY <1>1, <1>2, <1>3, TypeInvariant, PTL DEF Spec
=============================================================================
