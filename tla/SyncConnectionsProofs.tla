------------------------ MODULE SyncConnectionsProofs ------------------------
(* Theorems about SyncConnections, for any number of connections and callers *)
(* and of lost connections.                                                  *)
EXTENDS SyncConnections, TLAPS

-----------------------------------------------------------------------------
(* Type correctness. *)

\* Where a connection is being replaced, an attempt is left.
AttemptsInv ==
  \A t \in Thread : pc[t] \in {"lost", "closed", "reconnect"} =>
    t \in Caller /\ (aborted \/ attempts[t] >= 1)

TypeInv == TypeOK /\ AttemptsInv

LEMMA TypeInit == ASSUME SyncAssumption, Init PROVE TypeInv
<1>1. \A c \in Conn : <<c, 1>> \in Handle
  BY DEF Handle
<1>2. 1 \in Conn /\ 0 \in 0 .. Width - 1 /\ 0 \in 0 .. Attempts /\ 0 \in 0 .. MaxCalls
  BY DEF SyncAssumption, Conn
<1>3. mutex \in [Conn -> Thread \cup {Nobody}] /\ mysql \in [Conn -> Handle \cup {Null}]
  BY <1>1 DEF Init
<1>4. prepared \in 0 .. NumConns /\ lost \in 0 .. MaxLost /\ -1 \in -1 .. LoopBreaker - 1
  BY DEF SyncAssumption, Init
<1> QED BY <1>2, <1>3, <1>4 DEF Init, TypeInv, TypeOK, AttemptsInv

\* The loader, the owner and the keeper.
LEMMA TypeOthers ==
  ASSUME SyncAssumption, TypeInv,
         PrepareOk \/ PrepareFails \/ Close \/ BeginRound \/ Keep
  PROVE  TypeInv'
<1> USE DEF At, Set, handles, outcome, call, pool, threads, keeping, TypeInv
<1>1. CASE PrepareOk
  BY <1>1 DEF PrepareOk, SyncAssumption, TypeOK, AttemptsInv
<1>2. CASE PrepareFails \/ Close
  <2>1. Destroyed
    BY <1>2 DEF PrepareFails, Close
  <2>2. freed' \subseteq Handle \cup {Null} /\ mysql' \in [Conn -> Handle \cup {Null}]
    BY <2>1 DEF Destroyed, TypeOK
  <2> QED BY <2>1, <2>2 DEF Destroyed, TypeOK, AttemptsInv
<1>3. Keeper \in Thread /\ Keeper \notin Caller
  BY DEF Thread, SyncAssumption
<1>4. CASE BeginRound
  <2>1. calls[Keeper] + 1 \in 0 .. MaxCalls
    BY <1>3, <1>4 DEF BeginRound, TypeOK, SyncAssumption
  <2> QED BY <1>3, <1>4, <2>1 DEF BeginRound, TypeOK, AttemptsInv
<1>5. ASSUME NextConnection, pc[Keeper] \in {"pick", "unlock"}
      PROVE  /\ con' \in [Thread -> Conn]
             /\ pc' \in [Thread -> {"idle", "pick", "escape"} \cup Borrowing]
             /\ \A t \in Thread : pc'[t] = pc[t] \/ pc'[t] \in {"idle", "pick"}
  <2>1. 1 \in Conn /\ (con[Keeper] # NumConns => con[Keeper] + 1 \in Conn)
    <3>1. con[Keeper] \in 1 .. NumConns /\ NumConns \in Nat \ {0}
      BY <1>3 DEF Conn, SyncAssumption, TypeOK
    <3> QED BY <3>1 DEF Conn
  <2>2. /\ con \in [Thread -> Conn]
        /\ pc \in [Thread -> {"idle", "pick", "escape"} \cup Borrowing]
    BY DEF TypeOK
  <2>3. /\ \E d \in Conn : con' = [con EXCEPT ![Keeper] = d]
        /\ \E s \in {"idle", "pick"} : pc' = [pc EXCEPT ![Keeper] = s]
    BY <1>5, <2>1 DEF NextConnection
  <2> QED BY <1>3, <2>2, <2>3
<1>6. CASE KeeperTries
  <2>1. CASE lock_if_ready(con[Keeper])
    BY <1>3, <1>6, <2>1 DEF KeeperTries, Lock, TypeOK, AttemptsInv, Borrowing
  <2>2. CASE ~lock_if_ready(con[Keeper])
    <3>1. NextConnection /\ pc[Keeper] = "pick"
      BY <1>6, <2>2 DEF KeeperTries
    <3> QED BY <1>3, <1>5, <1>6, <2>2, <3>1 DEF KeeperTries, TypeOK, AttemptsInv
  <2> QED BY <2>1, <2>2
<1>7. CASE Ping
  <2>1. misused' \subseteq {"statement", "ping", "escape"} \X {"null", "freed"}
    BY <1>7 DEF Ping, Misuse, Kind, TypeOK
  <2> QED BY <1>3, <1>7, <2>1 DEF Ping, TypeOK, AttemptsInv, Borrowing
<1>8. CASE KeeperUnlocks
  <2>1. NextConnection /\ pc[Keeper] = "unlock"
    BY <1>8 DEF KeeperUnlocks
  <2> QED BY <1>3, <1>5, <1>8, <2>1 DEF KeeperUnlocks, TypeOK, AttemptsInv
<1> QED BY <1>1, <1>2, <1>4, <1>6, <1>7, <1>8 DEF Keep

\* A call, up to the error of a lost connection.
LEMMA TypeCall ==
  ASSUME SyncAssumption, TypeInv, NEW t \in Caller,
         Begin(t) \/ Pick(t) \/ NoHandle(t) \/ StatementOk(t) \/ StatementFails(t)
         \/ CommitRefused(t) \/ StatementIsFatal(t) \/ ConnectionLost(t) \/ Unlock(t)
         \/ ReadHandle(t) \/ Escape(t)
  PROVE  TypeInv'
<1> USE DEF At, Set, handles, outcome, call, pool, statement, escaping, TypeInv, Borrowing
<1>1. t \in Thread /\ 1 \in Conn
  BY DEF Thread, Conn, SyncAssumption
<1>2. CASE Begin(t)
  <2>1. calls[t] + 1 \in 0 .. MaxCalls
    BY <1>1, <1>2 DEF Begin, TypeOK, SyncAssumption
  <2>2. kind' \in [Thread -> {"statement", "commit"}]
    BY <1>1, <1>2 DEF Begin, TypeOK
  <2> QED BY <1>1, <1>2, <2>1, <2>2 DEF Begin, TypeOK, AttemptsInv
<1>3. CASE Pick(t)
  <2>1. (next[t] + 1) % Width \in 0 .. Width - 1 /\ Candidate(t) \in Conn
    <3>1. next[t] \in Nat /\ Width \in Nat \ {0} /\ NumConns \in Nat \ {0}
      BY <1>1 DEF TypeOK, SyncAssumption
    <3>2. (next[t] + 1) % Width \in 0 .. Width - 1
      BY <3>1
    <3>3. next[t] % NumConns \in 0 .. NumConns - 1
      BY <3>1
    <3> QED BY <3>2, <3>3, <3>1 DEF Candidate, Conn
  <2> QED BY <1>1, <1>3, <2>1 DEF Pick, Lock, TypeOK, AttemptsInv
<1>4. CASE NoHandle(t)
  BY <1>1, <1>4 DEF NoHandle, Unanswered, TypeOK, AttemptsInv
<1>5. ASSUME Sends(t)
      PROVE  misused' \subseteq {"statement", "ping", "escape"} \X {"null", "freed"}
  BY <1>5 DEF Sends, Misuse, Kind, TypeOK
<1>6. CASE StatementOk(t)
  BY <1>1, <1>5, <1>6 DEF StatementOk, Succeeds, TypeOK, AttemptsInv
<1>7. CASE StatementFails(t)
  <2>1. PICK code \in {"deadlock", "other"} : Fails(t, code)
    BY <1>7 DEF StatementFails
  <2>2. /\ pc' \in [Thread -> {"idle", "pick", "escape"} \cup Borrowing]
        /\ result' \in [Thread -> {"none", "ok", "failed"}]
        /\ repeats' \in [Thread -> -1 .. LoopBreaker - 1]
    BY <1>1, <2>1 DEF Fails, TypeOK, SyncAssumption
  <2>3. pc' = pc \/ pc' = [pc EXCEPT ![t] = "unlock"]
    BY <2>1 DEF Fails
  <2>4. AttemptsInv'
    BY <1>1, <1>7, <2>3 DEF StatementFails, AttemptsInv, TypeOK
  <2> QED BY <1>5, <1>7, <2>2, <2>4 DEF StatementFails, TypeOK
<1>8. CASE ConnectionLost(t)
  <2>1. misused' \subseteq {"statement", "ping", "escape"} \X {"null", "freed"}
    BY <1>5, <1>8 DEF ConnectionLost
  <2>2. lost' \in 0 .. MaxLost /\ Attempts \in 0 .. Attempts /\ Attempts >= 1
    BY <1>8 DEF ConnectionLost, TypeOK, SyncAssumption
  <2>3. applied' \in [Thread -> Nat] /\ losses' \in [Thread -> Nat]
    BY <1>1, <1>8 DEF ConnectionLost, TypeOK
  <2>4. /\ attempts' \in [Thread -> 0 .. Attempts]
        /\ pc' \in [Thread -> {"idle", "pick", "escape"} \cup Borrowing]
    BY <1>1, <1>8, <2>2 DEF ConnectionLost, TypeOK
  <2>5. AttemptsInv'
    BY <1>1, <1>8, <2>2 DEF ConnectionLost, TypeOK, AttemptsInv
  <2> QED BY <1>8, <2>1, <2>2, <2>3, <2>4, <2>5 DEF ConnectionLost, TypeOK
<1>9. CASE Unlock(t)
  <2>1. 0 \in 0 .. Width - 1 /\ 0 \in 0 .. Attempts /\ -1 \in -1 .. LoopBreaker - 1
    BY DEF SyncAssumption
  <2> QED BY <1>1, <1>9, <2>1 DEF Unlock, Returns, TypeOK, AttemptsInv
<1>10. CASE ReadHandle(t)
  BY <1>1, <1>10 DEF ReadHandle, TypeOK, AttemptsInv
<1>11. CASE Escape(t)
  <2>1. misused' \subseteq {"statement", "ping", "escape"} \X {"null", "freed"}
    BY <1>11 DEF Escape, Misuse, Kind, TypeOK
  <2> QED BY <1>1, <1>11, <2>1 DEF Escape, TypeOK, AttemptsInv
<1>12. CASE StatementIsFatal(t)
  BY <1>1, <1>5, <1>12 DEF StatementIsFatal, TypeOK, AttemptsInv
<1>13. CASE CommitRefused(t)
  BY <1>1, <1>5, <1>13 DEF CommitRefused, Succeeds, TypeOK, AttemptsInv
<1> QED BY <1>2, <1>3, <1>4, <1>6, <1>7, <1>8, <1>9, <1>10, <1>11, <1>12, <1>13

\* handle_mysql_errno()
LEMMA TypeReconnect ==
  ASSUME SyncAssumption, TypeInv, ~aborted, NEW t \in Caller,
         CloseHandle(t) \/ ClearHandle(t) \/ ReconnectOk(t) \/ ReconnectAgain(t)
         \/ ReprepareFails(t) \/ GiveUp(t)
  PROVE  TypeInv'
<1> USE DEF At, Set, handles, outcome, call, pool, statement, TypeInv, Borrowing
<1>1. t \in Thread /\ con[t] \in Conn
  BY DEF Thread, TypeOK
<1>2. CASE CloseHandle(t)
  BY <1>1, <1>2 DEF CloseHandle, TypeOK, AttemptsInv
<1>3. CASE ClearHandle(t)
  BY <1>1, <1>3 DEF ClearHandle, TypeOK, AttemptsInv
<1>4. CASE ReconnectOk(t)
  <2>1. made[con[t]] + 1 \in Nat \ {0}
    BY <1>1 DEF TypeOK
  <2>2. made' \in [Conn -> Nat] /\ made'[con[t]] = made[con[t]] + 1
    BY <1>1, <1>4, <2>1 DEF ReconnectOk, TypeOK
  <2>3. <<con[t], made'[con[t]]>> \in Handle
    BY <1>1, <2>1, <2>2 DEF Handle
  <2>4. mysql' \in [Conn -> Handle \cup {Null}]
    BY <1>4, <2>3 DEF ReconnectOk, TypeOK
  <2> QED BY <1>1, <1>4, <2>2, <2>4 DEF ReconnectOk, Reconnected, TypeOK, AttemptsInv
<1>5. CASE ReconnectAgain(t)
  <2>1. attempts[t] >= 1 /\ attempts[t] \in 0 .. Attempts /\ Attempts \in Nat
    BY <1>1, <1>5 DEF ReconnectAgain, AttemptsInv, TypeOK, SyncAssumption
  <2>2. attempts[t] - 1 \in 0 .. Attempts
    BY <2>1
  <2>3. attempts' \in [Thread -> 0 .. Attempts]
    BY <1>1, <1>5, <2>2 DEF ReconnectAgain, TypeOK
  <2>4. aborted' \/ attempts[t] - 1 >= 1
    <3>1. aborted' = LastAttempt(t)
      BY <1>5 DEF ReconnectAgain
    <3>2. LastAttempt(t) \/ attempts[t] - 1 >= 1
      BY <2>1 DEF LastAttempt
    <3> QED BY <3>1, <3>2
  <2>5. AttemptsInv'
    BY <1>1, <1>5, <2>4 DEF ReconnectAgain, AttemptsInv, TypeOK
  <2> QED BY <1>5, <2>3, <2>5 DEF ReconnectAgain, LastAttempt, TypeOK
<1>6. CASE ReprepareFails(t)
  BY <1>1, <1>6 DEF ReprepareFails, TypeOK, AttemptsInv
<1>7. CASE GiveUp(t)
  BY <1>1, <1>7 DEF GiveUp, Unanswered, TypeOK, AttemptsInv
<1> QED BY <1>2, <1>3, <1>4, <1>5, <1>6, <1>7

LEMMA TypeStep == ASSUME SyncAssumption, TypeInv, [Next]_vars PROVE TypeInv'
<1>1. CASE UNCHANGED vars
  BY <1>1 DEF vars, handles, outcome, call, TypeInv, TypeOK, AttemptsInv
<1>2. CASE Next
  BY <1>2, TypeOthers, TypeCall, TypeReconnect DEF Next, Work
<1> QED BY <1>1, <1>2

\* The variables of SyncConnections keep their types.
THEOREM TypeCorrect == ASSUME SyncAssumption PROVE Spec => []TypeOK
<1>1. Init => TypeInv
  BY TypeInit
<1>2. TypeInv /\ [Next]_vars => TypeInv'
  BY TypeStep
<1>3. TypeInv => TypeOK
  BY DEF TypeInv
<1> QED BY <1>1, <1>2, <1>3, PTL DEF Spec
-----------------------------------------------------------------------------
(* One user per connection. *)

LEMMA OneUserStep ==
  ASSUME SyncAssumption, TypeInv, OneUser, [Next]_vars
  PROVE  OneUser'
<1> USE DEF At, Set, handles, outcome, pool, statement, threads, keeping, escaping
<1>1. ASSUME UNCHANGED <<mutex, con>>,
             \A t \in Thread : pc'[t] \in Borrowing <=> pc[t] \in Borrowing
      PROVE  OneUser'
  BY <1>1 DEF OneUser, Uses
<1>2. ASSUME NEW t \in Thread, NEW c \in Conn, mutex[c] = Nobody,
             pc[t] \notin Borrowing, Lock(t, c), pc' = [pc EXCEPT ![t] = "run"]
      PROVE  OneUser'
  BY <1>2 DEF OneUser, Uses, Lock, TypeInv, TypeOK, Borrowing, SyncAssumption, Thread
<1>3. ASSUME NEW t \in Thread, pc[t] = "unlock", mutex' = [mutex EXCEPT ![con[t]] = Nobody],
             pc'[t] \notin Borrowing,
             \A u \in Thread \ {t} : pc'[u] = pc[u] /\ con'[u] = con[u]
      PROVE  OneUser'
  <2>1. ASSUME NEW c \in Conn, NEW u \in Thread
        PROVE  (Uses(u, c) <=> mutex[c] = u)'
    <3>1. con[t] \in Conn /\ mutex[con[t]] = t /\ u # Nobody
      BY <1>3 DEF OneUser, Uses, Borrowing, TypeInv, TypeOK, Thread, SyncAssumption
    <3> QED BY <1>3, <3>1 DEF OneUser, Uses, TypeInv, TypeOK
  <2> QED BY <2>1 DEF OneUser
<1>4. Keeper \in Thread /\ Caller \subseteq Thread
  BY DEF Thread
<1>5. CASE UNCHANGED vars
  BY <1>1, <1>5 DEF vars
<1>6. CASE PrepareOk \/ PrepareFails \/ Close
  BY <1>1, <1>6 DEF PrepareOk, PrepareFails, Close, Destroyed
<1>7. CASE BeginRound
  BY <1>1, <1>4, <1>7 DEF BeginRound, TypeInv, TypeOK, Borrowing
<1>8. CASE KeeperTries
  <2>1. CASE lock_if_ready(con[Keeper])
    <3>1. con[Keeper] \in Conn
      BY <1>4 DEF TypeInv, TypeOK
    <3> QED BY <1>2, <1>4, <1>8, <2>1, <3>1 DEF KeeperTries, lock_if_ready, Borrowing
  <2>2. CASE ~lock_if_ready(con[Keeper])
    <3>1. /\ UNCHANGED mutex
          /\ pc[Keeper] = "pick" /\ pc'[Keeper] \in {"idle", "pick"}
          /\ \A u \in Thread \ {Keeper} : pc'[u] = pc[u] /\ con'[u] = con[u]
      BY <1>4, <1>8, <2>2 DEF KeeperTries, NextConnection, TypeInv, TypeOK
    <3> QED BY <1>4, <3>1 DEF OneUser, Uses, Borrowing
  <2> QED BY <2>1, <2>2
<1>9. CASE Ping
  BY <1>1, <1>4, <1>9 DEF Ping, TypeInv, TypeOK, Borrowing
<1>10. CASE KeeperUnlocks
  <2>1. /\ pc'[Keeper] \notin Borrowing
        /\ \A u \in Thread \ {Keeper} : pc'[u] = pc[u] /\ con'[u] = con[u]
    BY <1>4, <1>10 DEF KeeperUnlocks, NextConnection, TypeInv, TypeOK, Borrowing
  <2> QED BY <1>3, <1>4, <1>10, <2>1 DEF KeeperUnlocks
<1>11. ASSUME NEW t \in Caller, Begin(t) \/ ReadHandle(t) \/ Work(t)
       PROVE  OneUser'
  <2>1. CASE Begin(t)
    BY <1>1, <1>4, <2>1 DEF Begin, TypeInv, TypeOK, Borrowing
  <2>2. CASE ReadHandle(t) \/ Escape(t)
    BY <1>1, <1>4, <2>2 DEF ReadHandle, Escape, TypeInv, TypeOK, Borrowing
  <2>3. CASE Pick(t)
    <3>1. CASE lock_if_ready(Candidate(t))
      <4>1. Candidate(t) \in Conn
        <5>1. next[t] \in Nat /\ NumConns \in Nat \ {0}
          BY <1>4 DEF TypeInv, TypeOK, SyncAssumption
        <5>2. next[t] % NumConns \in 0 .. NumConns - 1
          BY <5>1
        <5> QED BY <5>1, <5>2 DEF Candidate, Conn
      <4> QED BY <1>2, <1>4, <2>3, <3>1, <4>1 DEF Pick, lock_if_ready, Borrowing
    <3>2. CASE ~lock_if_ready(Candidate(t))
      BY <1>1, <2>3, <3>2 DEF Pick
    <3> QED BY <3>1, <3>2
  <2>4. CASE Unlock(t)
    BY <1>3, <1>4, <2>4 DEF Unlock, Returns, TypeInv, TypeOK, Borrowing
  <2>5. CASE NoHandle(t) \/ StatementOk(t) \/ StatementFails(t) \/ CommitRefused(t)
             \/ ConnectionLost(t)
    <3>1. pc[t] = "run" /\ UNCHANGED <<mutex, con>>
          /\ (pc' = pc \/ \E s \in {"unlock", "lost"} : pc' = [pc EXCEPT ![t] = s])
      BY <2>5 DEF NoHandle, Unanswered, StatementOk, Succeeds, StatementFails, Fails,
         CommitRefused, ConnectionLost
    <3> QED BY <1>1, <1>4, <3>1 DEF TypeInv, TypeOK, Borrowing
  <2>6. CASE CloseHandle(t) \/ ClearHandle(t) \/ GiveUp(t)
    BY <1>1, <1>4, <2>6 DEF CloseHandle, ClearHandle, GiveUp, Unanswered, TypeInv, TypeOK,
       Borrowing
  <2>7. CASE ReconnectOk(t)
    BY <1>1, <1>4, <2>7 DEF ReconnectOk, Reconnected, TypeInv, TypeOK, Borrowing
  <2>8. CASE ReconnectAgain(t) \/ ReprepareFails(t) \/ StatementIsFatal(t)
    BY <1>1, <2>8 DEF ReconnectAgain, ReprepareFails, StatementIsFatal
  <2> QED BY <1>11, <2>1, <2>2, <2>3, <2>4, <2>5, <2>6, <2>7, <2>8 DEF Work
<1> QED BY <1>5, <1>6, <1>7, <1>8, <1>9, <1>10, <1>11 DEF Next, Keep

\* Whatever path a call takes, a connection has one user, who holds its mutex.
THEOREM MutualExclusion == ASSUME SyncAssumption PROVE Spec => []OneUser
<1>1. Init => TypeInv /\ OneUser
  <2>1. ASSUME Init PROVE OneUser
    BY <2>1 DEF Init, OneUser, Uses, Borrowing, SyncAssumption, Thread
  <2> QED BY <2>1, TypeInit
<1>2. TypeInv /\ OneUser /\ [Next]_vars => (TypeInv /\ OneUser)'
  BY TypeStep, OneUserStep
<1> QED BY <1>1, <1>2, PTL DEF Spec

-----------------------------------------------------------------------------
(* Handles. *)

\* Handles are numbered per connection, a connection keeps a closed one only while
\* its user is between mysql_close() and mysql_ = 0, and threads work in the phase
\* "serving" only.
HandleInv ==
  /\ \A c \in Conn : mysql[c] = Null \/ \E n \in 1 .. made[c] : mysql[c] = <<c, n>>
  /\ \A h \in freed : \E c \in Conn : \E n \in 1 .. made[c] : h = <<c, n>>
  /\ \A c \in Conn : mysql[c] \in freed => \E t \in Caller : pc[t] = "closed" /\ con[t] = c
  /\ \A t \in Thread : pc[t] \in {"lost", "closed"} => mysql[con[t]] # Null
  /\ \A t \in Thread : pc[t] = "reconnect" => mysql[con[t]] = Null
  /\ phase # "serving" => \A t \in Thread : pc[t] = "idle"

Inv == TypeInv /\ OneUser /\ HandleInv

LEMMA NullNotFreed == ASSUME HandleInv PROVE Null \notin freed
<1>1. \A c \in Conn, n \in Nat : Null # <<c, n>>
  BY DEF Null, Conn
<1> QED BY <1>1 DEF HandleInv

\* Two threads do not use one connection.
LEMMA Apart ==
  ASSUME Inv, NEW t \in Thread, NEW u \in Thread, pc[t] \in Borrowing, pc[u] \in Borrowing,
         con[t] = con[u]
  PROVE  t = u
BY DEF Inv, OneUser, Uses, TypeInv, TypeOK

\* What a user finds in its connection has not been closed.
LEMMA UserHandle ==
  ASSUME SyncAssumption, Inv, NEW t \in Thread, pc[t] = "run"
  PROVE  mysql[con[t]] \notin freed
<1>1. SUFFICES ASSUME mysql[con[t]] \in freed PROVE FALSE
  OBVIOUS
<1>2. PICK u \in Caller : pc[u] = "closed" /\ con[u] = con[t]
  BY <1>1 DEF Inv, HandleInv, TypeInv, TypeOK
<1>3. u = t
  BY <1>2, Apart DEF Borrowing, Thread
<1> QED BY <1>2, <1>3

\* Steps that leave the handles alone and do not move a thread into or out of the
\* replacement of one.
LEMMA HandleQuiet ==
  ASSUME Inv, UNCHANGED <<handles, phase>>,
         \A t \in Thread :
           /\ pc'[t] \in {"closed", "reconnect"} => pc'[t] = pc[t] /\ con'[t] = con[t]
           /\ pc[t] = "closed" => pc'[t] = pc[t] /\ con'[t] = con[t]
           /\ pc'[t] = "lost" => con'[t] = con[t] /\ mysql[con[t]] # Null
           /\ pc'[t] # "idle" => pc[t] # "idle" \/ phase = "serving"
  PROVE  HandleInv'
BY DEF Inv, HandleInv, handles, Thread

LEMMA HandleStep ==
  ASSUME SyncAssumption, Inv, [Next]_vars
  PROVE  HandleInv'
<1> USE DEF At, Set, pool, statement, threads, keeping, escaping
<1>1. Keeper \in Thread /\ Caller \subseteq Thread
  BY DEF Thread
<1>2. /\ pc \in [Thread -> {"idle", "pick", "escape"} \cup Borrowing]
      /\ con \in [Thread -> Conn] /\ mysql \in [Conn -> Handle \cup {Null}]
      /\ made \in [Conn -> Nat]
  BY DEF Inv, TypeInv, TypeOK
<1>3. CASE UNCHANGED vars
  BY <1>3, HandleQuiet, <1>2 DEF vars, handles, Inv, HandleInv
<1>4. CASE PrepareOk
  BY <1>4 DEF PrepareOk, Inv, HandleInv, handles
<1>5. CASE PrepareFails \/ Close
  <2>1. Destroyed /\ \A t \in Thread : pc[t] = "idle"
    BY <1>5 DEF PrepareFails, Close, Inv, HandleInv
  <2>2. ASSUME NEW h \in freed' PROVE \E c \in Conn : \E n \in 1 .. made'[c] : h = <<c, n>>
    <3>1. CASE h \in freed
      BY <2>1, <3>1 DEF Destroyed, threads, Inv, HandleInv
    <3>2. CASE h \notin freed
      <4>1. PICK c \in Conn : h = mysql[c] /\ mysql[c] # Null
        BY <2>1, <2>2, <3>2 DEF Destroyed
      <4> QED BY <2>1, <4>1 DEF Destroyed, Inv, HandleInv
    <3> QED BY <3>1, <3>2
  <2>3. Null \notin freed'
    <3>1. \A c \in Conn, n \in Nat : Null # <<c, n>>
      BY DEF Null, Conn
    <3> QED BY <2>1, <2>2, <3>1, <1>2 DEF Destroyed
  <2> QED BY <2>1, <2>2, <2>3 DEF Destroyed, threads, HandleInv
<1>6. CASE BeginRound \/ Keep
  <2>1. UNCHANGED <<handles, phase>>
    BY <1>6 DEF BeginRound, Keep, KeeperTries, Ping, KeeperUnlocks
  <2>2. /\ pc[Keeper] \in {"idle", "pick", "run", "unlock"}
        /\ pc'[Keeper] \in {"idle", "pick", "run", "unlock"}
        /\ \A u \in Thread \ {Keeper} : pc'[u] = pc[u] /\ con'[u] = con[u]
        /\ pc[Keeper] = "idle" => phase = "serving"
    BY <1>1, <1>2, <1>6 DEF BeginRound, Keep, KeeperTries, Lock, Ping, KeeperUnlocks,
       NextConnection
  <2>3. \A t \in Thread : pc[t] = "lost" => mysql[con[t]] # Null
    BY DEF Inv, HandleInv
  <2> QED BY <1>1, <2>1, <2>2, <2>3, HandleQuiet
<1>7. ASSUME NEW t \in Caller, Begin(t) \/ ReadHandle(t) \/ Work(t)
      PROVE  HandleInv'
  <2> USE <1>1
  <2>1. \A u \in Thread : pc[u] = "lost" => mysql[con[u]] # Null
    BY DEF Inv, HandleInv
  <2>2. CASE Begin(t) \/ ReadHandle(t)
    BY <1>2, <2>1, <2>2, HandleQuiet DEF Begin, ReadHandle
  <2>3. CASE Pick(t)
    BY <1>2, <2>1, <2>3, HandleQuiet DEF Pick, Lock
  <2>4. CASE NoHandle(t) \/ StatementOk(t) \/ StatementFails(t) \/ CommitRefused(t) \/ Escape(t)
    <3>1. /\ UNCHANGED <<handles, phase, con>> /\ pc[t] \in {"run", "escape"}
          /\ pc' = pc \/ \E s \in {"unlock", "idle"} : pc' = [pc EXCEPT ![t] = s]
      BY <2>4 DEF NoHandle, Unanswered, StatementOk, Succeeds, StatementFails, Fails,
         CommitRefused, Escape
    <3> QED BY <1>2, <2>1, <3>1, HandleQuiet
  <2>5. CASE ConnectionLost(t)
    BY <1>2, <2>1, <2>5, HandleQuiet DEF ConnectionLost, Sends
  <2>6. CASE Unlock(t)
    BY <1>2, <2>1, <2>6, HandleQuiet DEF Unlock, Returns
  <2>7. CASE ReconnectAgain(t) \/ ReprepareFails(t) \/ StatementIsFatal(t)
    BY <1>2, <2>1, <2>7, HandleQuiet DEF ReconnectAgain, ReprepareFails, StatementIsFatal
  <2>8. CASE GiveUp(t)
    BY <1>2, <2>1, <2>8, HandleQuiet DEF GiveUp, Unanswered
  <2>9. con[t] \in Conn
    BY <1>2
  <2>10. ASSUME pc[t] \in Borrowing
         PROVE  \A u \in Thread : pc[u] \in Borrowing /\ con[u] = con[t] => u = t
    BY <2>10, Apart
  <2>11. CASE CloseHandle(t)
    <3>1. mysql[con[t]] # Null /\ pc[t] = "lost"
      BY <2>1, <2>11 DEF CloseHandle
    <3>2. \A c \in Conn : mysql[c] = mysql[con[t]] => c = con[t]
      BY <2>9, <3>1 DEF Inv, HandleInv
    <3>3. \A h \in freed' : \E c \in Conn : \E n \in 1 .. made'[c] : h = <<c, n>>
      <4>1. \E n \in 1 .. made[con[t]] : mysql[con[t]] = <<con[t], n>>
        BY <2>9, <3>1 DEF Inv, HandleInv
      <4>2. freed' = freed \cup {mysql[con[t]]} /\ made' = made
        BY <2>11 DEF CloseHandle
      <4> QED BY <2>9, <4>1, <4>2 DEF Inv, HandleInv
    <3>4. ASSUME NEW c \in Conn, mysql'[c] \in freed'
          PROVE  \E u \in Caller : pc'[u] = "closed" /\ con'[u] = c
      <4>1. CASE c = con[t]
        BY <1>2, <2>11, <4>1 DEF CloseHandle
      <4>2. CASE c # con[t]
        <5>1. mysql[c] \in freed
          BY <2>11, <3>2, <3>4, <4>2 DEF CloseHandle
        <5>2. PICK u \in Caller : pc[u] = "closed" /\ con[u] = c
          BY <5>1 DEF Inv, HandleInv
        <5> QED BY <1>2, <2>11, <3>1, <5>2 DEF CloseHandle
      <4> QED BY <4>1, <4>2
    <3> QED BY <1>2, <2>11, <3>1, <3>3, <3>4 DEF CloseHandle, Inv, HandleInv
  <2>12. CASE ClearHandle(t)
    <3>1. pc[t] = "closed" /\ \A u \in Thread : pc[u] \in Borrowing /\ con[u] = con[t] => u = t
      BY <2>10, <2>12 DEF ClearHandle, Borrowing
    <3>2. ASSUME NEW c \in Conn, mysql'[c] \in freed'
          PROVE  \E u \in Caller : pc'[u] = "closed" /\ con'[u] = c
      <4>1. c # con[t] /\ mysql[c] \in freed
        BY <1>2, <2>12, <3>2, NullNotFreed DEF ClearHandle, Inv
      <4>2. PICK u \in Caller : pc[u] = "closed" /\ con[u] = c
        BY <4>1 DEF Inv, HandleInv
      <4> QED BY <1>2, <2>12, <4>1, <4>2 DEF ClearHandle
    <3>3. ASSUME NEW u \in Thread
          PROVE  /\ pc'[u] \in {"lost", "closed"} => mysql'[con'[u]] # Null
                 /\ pc'[u] = "reconnect" => mysql'[con'[u]] = Null
      BY <1>2, <2>12, <3>1 DEF ClearHandle, Inv, HandleInv, Borrowing
    <3> QED BY <1>2, <2>12, <3>2, <3>3 DEF ClearHandle, Inv, HandleInv
  <2>13. CASE ReconnectOk(t)
    <3> DEFINE c0 == con[t]
               h0 == <<c0, made[c0] + 1>>
    <3>1. pc[t] = "reconnect" /\ \A u \in Thread : pc[u] \in Borrowing /\ con[u] = c0 => u = t
      BY <2>10, <2>13 DEF ReconnectOk, Borrowing
    <3>2. /\ made' = [made EXCEPT ![c0] = made[c0] + 1]
          /\ mysql' = [mysql EXCEPT ![c0] = h0] /\ pc' = [pc EXCEPT ![t] = "run"]
          /\ UNCHANGED <<freed, con, phase>>
      BY <1>2, <2>9, <2>13 DEF ReconnectOk, Reconnected
    <3>3. made[c0] \in Nat /\ \A c \in Conn : 1 .. made[c] \subseteq 1 .. made'[c]
      BY <1>2, <2>9, <3>2
    <3>4. h0 \notin freed
      <4>1. SUFFICES ASSUME h0 \in freed PROVE FALSE
        OBVIOUS
      <4>2. PICK c \in Conn : \E n \in 1 .. made[c] : h0 = <<c, n>>
        BY <4>1 DEF Inv, HandleInv
      <4> QED BY <3>3, <4>2
    <3>5. \A c \in Conn : mysql'[c] = Null \/ \E n \in 1 .. made'[c] : mysql'[c] = <<c, n>>
      <4>1. ASSUME NEW c \in Conn, c # c0
            PROVE  mysql'[c] = Null \/ \E n \in 1 .. made'[c] : mysql'[c] = <<c, n>>
        BY <1>2, <3>2, <4>1 DEF Inv, HandleInv
      <4>2. made'[c0] = made[c0] + 1 /\ mysql'[c0] = <<c0, made'[c0]>> /\ made'[c0] \in 1 .. made'[c0]
        BY <1>2, <2>9, <3>2, <3>3
      <4> QED BY <4>1, <4>2
    <3>6. \A h \in freed' : \E c \in Conn : \E n \in 1 .. made'[c] : h = <<c, n>>
      BY <3>2, <3>3 DEF Inv, HandleInv
    <3>7. ASSUME NEW c \in Conn, mysql'[c] \in freed'
          PROVE  \E u \in Caller : pc'[u] = "closed" /\ con'[u] = c
      <4>1. c # c0 /\ mysql[c] \in freed
        BY <1>2, <2>9, <3>2, <3>4, <3>7
      <4>2. PICK u \in Caller : pc[u] = "closed" /\ con[u] = c
        BY <4>1 DEF Inv, HandleInv
      <4> QED BY <1>2, <3>1, <3>2, <4>2
    <3>8. ASSUME NEW u \in Thread
          PROVE  /\ pc'[u] \in {"lost", "closed"} => mysql'[con'[u]] # Null
                 /\ pc'[u] = "reconnect" => mysql'[con'[u]] = Null
      BY <1>2, <3>1, <3>2 DEF Inv, HandleInv, Borrowing
    <3>9. phase' # "serving" => \A u \in Thread : pc'[u] = "idle"
      BY <3>1, <3>2 DEF Inv, HandleInv
    <3> QED BY <3>5, <3>6, <3>7, <3>8, <3>9 DEF HandleInv
  <2> QED BY <1>7, <2>2, <2>3, <2>4, <2>5, <2>6, <2>7, <2>8, <2>11, <2>12, <2>13 DEF Work
<1> QED BY <1>3, <1>4, <1>5, <1>6, <1>7 DEF Next

LEMMA MisuseStep ==
  ASSUME SyncAssumption, Inv, HandlesInUse, [Next]_vars
  PROVE  HandlesInUse'
<1>1. ASSUME UNCHANGED misused PROVE HandlesInUse'
  BY <1>1 DEF HandlesInUse
<1>2. ASSUME NEW t \in Caller, Sends(t), pc[t] = "run" PROVE HandlesInUse'
  <2>1. Misuse("statement", mysql[con[t]]) = {}
    BY <1>2, UserHandle DEF Sends, Misuse, Dead, Thread
  <2> QED BY <1>2, <2>1 DEF Sends, HandlesInUse
<1>3. CASE Ping
  <2>1. Misuse("ping", mysql[con[Keeper]]) \subseteq {<<"ping", "null">>}
    BY <1>3, UserHandle DEF Ping, At, Misuse, Dead, Kind, Thread
  <2> QED BY <1>3, <2>1 DEF Ping, HandlesInUse
<1>4. ASSUME NEW t \in Caller, Escape(t) PROVE HandlesInUse'
  BY <1>4 DEF Escape, Misuse, Kind, HandlesInUse
<1>5. CASE UNCHANGED vars \/ PrepareOk \/ PrepareFails \/ Close \/ BeginRound
           \/ KeeperTries \/ KeeperUnlocks
  BY <1>1, <1>5 DEF vars, PrepareOk, PrepareFails, Close, Destroyed, threads, BeginRound,
     KeeperTries, KeeperUnlocks
<1>6. ASSUME NEW t \in Caller, Begin(t) \/ ReadHandle(t) \/ Work(t) PROVE HandlesInUse'
  <2>1. CASE Begin(t) \/ ReadHandle(t) \/ Pick(t) \/ NoHandle(t) \/ CloseHandle(t)
             \/ ClearHandle(t) \/ ReconnectOk(t) \/ ReconnectAgain(t) \/ ReprepareFails(t)
             \/ GiveUp(t) \/ Unlock(t)
    BY <1>1, <2>1 DEF Begin, ReadHandle, Pick, NoHandle, CloseHandle, ClearHandle,
       ReconnectOk, ReconnectAgain, ReprepareFails, GiveUp, Unlock, Returns
  <2>2. CASE StatementOk(t) \/ StatementFails(t) \/ CommitRefused(t) \/ StatementIsFatal(t)
             \/ ConnectionLost(t)
    BY <1>2, <2>2 DEF StatementOk, StatementFails, CommitRefused, StatementIsFatal,
       ConnectionLost, At
  <2> QED BY <1>4, <1>6, <2>1, <2>2 DEF Work
<1> QED BY <1>3, <1>5, <1>6 DEF Next, Keep

\* Reconnection closes handles under the lock only: no statement is sent through a
\* closed handle, and no ping but that of a connection that was given up.
THEOREM HandlesSafe == ASSUME SyncAssumption PROVE Spec => []HandlesInUse
<1>1. Init => Inv /\ HandlesInUse
  <2>1. ASSUME Init PROVE OneUser
    BY <2>1 DEF Init, OneUser, Uses, Borrowing, SyncAssumption, Thread
  <2>2. ASSUME Init PROVE HandleInv
    <3>1. ASSUME NEW c \in Conn PROVE \E n \in 1 .. made[c] : mysql[c] = <<c, n>>
      <4>1. made[c] = 1 /\ mysql[c] = <<c, 1>> /\ 1 \in 1 .. 1
        BY <2>2 DEF Init
      <4> QED BY <4>1
    <3> QED BY <2>2, <3>1 DEF Init, HandleInv
  <2>3. Init => HandlesInUse
    BY DEF Init, HandlesInUse
  <2> QED BY <2>1, <2>2, <2>3, TypeInit DEF Inv
<1>2. Inv /\ HandlesInUse /\ [Next]_vars => (Inv /\ HandlesInUse)'
  BY TypeStep, OneUserStep, HandleStep, MisuseStep DEF Inv
<1> QED BY <1>1, <1>2, PTL DEF Spec

-----------------------------------------------------------------------------
(* Results. *)

\* Until its last statement has ended, a call was executed at most as often as
\* connections were lost under it, and has no result yet.
ResultInv ==
  \A t \in Caller :
    /\ pc[t] # "unlock" => applied[t] <= losses[t] /\ result[t] = "none"
    /\ result[t] # "ok" => applied[t] <= losses[t]
    /\ applied[t] <= losses[t] + 1
    /\ result[t] = "ok" => applied[t] >= 1 \/ (kind[t] = "commit" /\ blind[t])

LEMMA ResultStep ==
  ASSUME SyncAssumption, TypeInv, ResultInv, [Next]_vars
  PROVE  ResultInv'
<1> USE DEF At, Set, outcome, keeping, escaping, threads
<1>1. /\ pc \in [Thread -> {"idle", "pick", "escape"} \cup Borrowing]
      /\ applied \in [Thread -> Nat] /\ losses \in [Thread -> Nat]
      /\ result \in [Thread -> {"none", "ok", "failed"}]
      /\ blind \in [Thread -> BOOLEAN] /\ kind \in [Thread -> {"statement", "commit"}]
      /\ Keeper \in Thread \ Caller /\ Caller \subseteq Thread
  BY DEF TypeInv, TypeOK, Thread, SyncAssumption
<1>2. ASSUME UNCHANGED outcome,
             \A t \in Caller : pc[t] = "unlock" => pc'[t] = "unlock" /\ kind'[t] = kind[t]
      PROVE  ResultInv'
  BY <1>2 DEF ResultInv
<1>3. CASE UNCHANGED vars \/ PrepareOk \/ PrepareFails \/ Close
  BY <1>2, <1>3 DEF vars, PrepareOk, PrepareFails, Close, Destroyed, call
<1>4. CASE BeginRound \/ Keep
  BY <1>1, <1>2, <1>4 DEF BeginRound, Keep, KeeperTries, NextConnection, Ping, KeeperUnlocks, call
<1>5. ASSUME NEW t \in Caller, Begin(t) \/ ReadHandle(t) \/ Work(t) PROVE ResultInv'
  <2>1. CASE \/ Begin(t) \/ ReadHandle(t) \/ Escape(t) \/ Pick(t) \/ CloseHandle(t)
             \/ ClearHandle(t) \/ ReconnectAgain(t) \/ ReprepareFails(t)
             \/ StatementIsFatal(t)
    BY <1>1, <1>2, <2>1 DEF Begin, ReadHandle, Escape, Pick, CloseHandle, ClearHandle,
       ReconnectAgain, ReprepareFails, StatementIsFatal, call, statement
  <2>2. CASE NoHandle(t) \/ GiveUp(t)
    <3>1. /\ UNCHANGED <<applied, losses, kind>>
          /\ pc' = [pc EXCEPT ![t] = "unlock"] /\ pc[t] # "unlock"
          /\ blind' = [blind EXCEPT ![t] = (kind[t] = "commit")]
          /\ result' = [result EXCEPT ![t] = IF kind[t] = "commit" THEN "ok" ELSE "failed"]
      BY <2>2 DEF NoHandle, GiveUp, Unanswered, statement
    <3>2. ASSUME NEW u \in Caller, u # t
          PROVE  UNCHANGED <<pc[u], result[u], blind[u]>>
      BY <1>1, <3>1, <3>2
    <3>3. blind'[t] = (kind[t] = "commit")
          /\ result'[t] = IF kind[t] = "commit" THEN "ok" ELSE "failed"
      BY <1>1, <3>1
    <3>4. pc'[t] = "unlock"
      BY <1>1, <3>1
    <3> QED BY <1>1, <3>1, <3>2, <3>3, <3>4 DEF ResultInv
  <2>3. CASE StatementFails(t)
    <3>1. PICK code \in {"deadlock", "other"} : Fails(t, code)
      BY <2>3 DEF StatementFails
    <3>2. UNCHANGED <<applied, losses, blind, kind>> /\ pc[t] # "unlock"
      BY <2>3 DEF StatementFails, statement
    <3>3. \/ UNCHANGED <<pc, result>>
          \/ /\ pc' = [pc EXCEPT ![t] = "unlock"]
             /\ result' = [result EXCEPT ![t] = "failed"]
      BY <3>1 DEF Fails
    <3> QED BY <1>1, <3>2, <3>3 DEF ResultInv
  <2>7. CASE StatementOk(t)
    <3>1. /\ applied' = [applied EXCEPT ![t] = applied[t] + 1]
          /\ UNCHANGED <<losses, blind, kind>>
          /\ result' = [result EXCEPT ![t] = "ok"]
          /\ pc' = [pc EXCEPT ![t] = "unlock"] /\ pc[t] # "unlock"
      BY <2>7 DEF StatementOk, Succeeds, statement
    <3> QED BY <1>1, <3>1 DEF ResultInv
  <2>8. CASE CommitRefused(t)
    <3>1. /\ UNCHANGED <<applied, losses, kind>> /\ kind[t] = "commit"
          /\ result' = [result EXCEPT ![t] = "ok"] /\ blind' = [blind EXCEPT ![t] = TRUE]
          /\ pc' = [pc EXCEPT ![t] = "unlock"] /\ pc[t] # "unlock"
      BY <2>8 DEF CommitRefused, Succeeds, statement
    <3> QED BY <1>1, <3>1 DEF ResultInv
  <2>4. CASE ConnectionLost(t)
    <3>1. PICK k \in {0, 1} : applied' = [applied EXCEPT ![t] = applied[t] + k]
      BY <2>4 DEF ConnectionLost
    <3>2. /\ losses' = [losses EXCEPT ![t] = losses[t] + 1]
          /\ UNCHANGED <<result, blind, kind>>
          /\ pc' = [pc EXCEPT ![t] = "lost"] /\ pc[t] # "unlock"
      BY <2>4 DEF ConnectionLost, statement
    <3> QED BY <1>1, <3>1, <3>2 DEF ResultInv
  <2>5. CASE ReconnectOk(t)
    <3>1. UNCHANGED <<outcome, kind>> /\ pc' = [pc EXCEPT ![t] = "run"] /\ pc[t] # "unlock"
      BY <2>5 DEF ReconnectOk, Reconnected, statement
    <3> QED BY <1>1, <3>1 DEF ResultInv
  <2>6. CASE Unlock(t)
    <3>1. /\ applied' = [applied EXCEPT ![t] = 0] /\ losses' = [losses EXCEPT ![t] = 0]
          /\ result' = [result EXCEPT ![t] = "none"] /\ pc' = [pc EXCEPT ![t] = "idle"]
          /\ blind' = [blind EXCEPT ![t] = FALSE]
          /\ kind' = [kind EXCEPT ![t] = "statement"]
      BY <2>6 DEF Unlock, Returns
    <3> QED BY <1>1, <3>1 DEF ResultInv
  <2> QED BY <1>5, <2>1, <2>2, <2>3, <2>4, <2>5, <2>6, <2>7, <2>8 DEF Work
<1> QED BY <1>3, <1>4, <1>5 DEF Next

\* A call reports success only if the server has executed it, or if it is a commit that
\* was refused or has found no handle, a call that fails was executed under a lost
\* connection at most, and nothing is executed more often than once and once for every
\* connection lost.
THEOREM SuccessTold == ASSUME SyncAssumption PROVE Spec => []SuccessIsTrue
<1>1. Init => TypeInv /\ ResultInv
  <2>1. ASSUME Init PROVE ResultInv
    <3>1. Caller \subseteq Thread
      BY DEF Thread
    <3> QED BY <2>1, <3>1 DEF Init, ResultInv
  <2> QED BY <2>1, TypeInit
<1>2. TypeInv /\ ResultInv /\ [Next]_vars => (TypeInv /\ ResultInv)'
  BY TypeStep, ResultStep
<1>3. TypeInv /\ ResultInv => SuccessIsTrue
  <2>1. TypeInv => \A t \in Caller : applied[t] \in Nat /\ losses[t] \in Nat
    BY DEF TypeInv, TypeOK, Thread
  <2> QED BY <2>1 DEF ResultInv, SuccessIsTrue
<1> QED BY <1>1, <1>2, <1>3, PTL DEF Spec
=============================================================================
