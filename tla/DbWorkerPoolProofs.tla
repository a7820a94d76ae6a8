------------------------- MODULE DbWorkerPoolProofs -------------------------
(* Theorems about DbWorkerPool, for every number of connections and every   *)
(* set of operations.                                                       *)
EXTENDS DbWorkerPool, SequenceTheorems, TLAPS

-----------------------------------------------------------------------------
(* Lemmas about the operators of the model. *)

\* Moving the front of a queue to the end of a log leaves their concatenation.
LEMMA MoveFront ==
  ASSUME NEW S, NEW s \in Seq(S), NEW t \in Seq(S), t # <<>>
  PROVE  Append(s, Head(t)) \o Tail(t) = s \o t
<1>1. /\ Head(t) \in S /\ Tail(t) \in Seq(S) /\ Len(Tail(t)) = Len(t) - 1
      /\ \A i \in 1 .. Len(Tail(t)) : Tail(t)[i] = t[i + 1]
  BY HeadTailProperties
<1>2. Append(s, Head(t)) = s \o <<Head(t)>>
  BY <1>1, AppendIsConcat
<1>3. <<Head(t)>> \in Seq(S)
  BY <1>1
<1>4. <<Head(t)>> \o Tail(t) = t
  <2>1. /\ <<Head(t)>> \o Tail(t) \in Seq(S)
        /\ Len(<<Head(t)>> \o Tail(t)) = 1 + Len(Tail(t))
        /\ \A i \in 1 .. 1 + Len(Tail(t)) : (<<Head(t)>> \o Tail(t))[i]
              = IF i <= 1 THEN <<Head(t)>>[i] ELSE Tail(t)[i - 1]
    BY <1>1, <1>3, ConcatProperties, Len(<<Head(t)>>) = 1
  <2>2. Len(t) \in Nat /\ Len(<<Head(t)>> \o Tail(t)) = Len(t)
    BY <1>1, <2>1, LenProperties
  <2>3. ASSUME NEW i \in 1 .. Len(t) PROVE (<<Head(t)>> \o Tail(t))[i] = t[i]
    <3>1. CASE i = 1
      BY <2>1, <2>2, <3>1, <1>1, Head(t) = t[1], <<Head(t)>>[1] = Head(t)
    <3>2. CASE i # 1
      <4>1. i - 1 \in 1 .. Len(Tail(t))
        BY <1>1, <2>2, <3>2
      <4>2. Tail(t)[i - 1] = t[(i - 1) + 1]
        BY <4>1, <1>1
      <4> QED BY <2>1, <2>2, <1>1, <3>2, <4>2
    <3> QED BY <3>1, <3>2
  <2> QED BY <2>1, <2>2, <2>3, SeqEqual
<1> QED BY <1>1, <1>2, <1>3, <1>4, ConcatAssociative

\* Appending to the last of two concatenated sequences appends to the whole.
LEMMA AppendToConcat ==
  ASSUME NEW S, NEW s \in Seq(S), NEW t \in Seq(S), NEW e \in S
  PROVE  s \o Append(t, e) = Append(s \o t, e)
<1>1. <<e>> \in Seq(S)
  OBVIOUS
<1>2. s \o t \in Seq(S)
  BY ConcatProperties
<1> QED BY <1>1, <1>2, AppendIsConcat, ConcatAssociative

-----------------------------------------------------------------------------
(* Type correctness. *)

LEMMA NotifyType ==
  ASSUME TypeOK, NotifyOne
  PROVE  wpc' \in [Worker -> WorkerState]
BY DEF TypeOK, NotifyOne, Waiting, WorkerState

LEMMA CancelType ==
  ASSUME TypeOK, CancelQueue
  PROVE  /\ queue' \in Seq(Op) /\ shutdown' \in BOOLEAN /\ dropped' \in Seq(Op)
         /\ opst' \in [Op -> OpState] /\ future' \in [Op -> FutureState]
         /\ wpc' \in [Worker -> WorkerState]
<1>1. queue' \in Seq(Op) /\ shutdown' \in BOOLEAN
  BY DEF CancelQueue
<1>2. dropped' \in Seq(Op)
  BY ConcatProperties DEF CancelQueue, TypeOK
<1>3. opst' \in [Op -> OpState] /\ future' \in [Op -> FutureState]
  BY DEF CancelQueue, TypeOK, OpState, FutureState
<1>4. wpc' \in [Worker -> WorkerState]
  BY DEF CancelQueue, TypeOK, WorkerState
<1> QED BY <1>1, <1>2, <1>3, <1>4

\* What an operation's caller does keeps every variable in its type.
LEMMA CallerType ==
  ASSUME TypeOK, NEW o \in Op, Caller(o)
  PROVE  TypeOK'
<1>1. CASE NewOperation(o)
  BY <1>1 DEF NewOperation, TypeOK, OpState, poolVars, wrkVars, ownerVars, history
<1>2. CASE GetFuture(o)
  BY <1>2 DEF GetFuture, TypeOK, FutureState, poolVars, wrkVars, ownerVars, history
<1>3. CASE Enqueue(o)
  <2>1. queue' \in Seq(Op) /\ pushed' \in Seq(Op)
    BY <1>3, AppendProperties DEF Enqueue, TypeOK
  <2>2. wpc' \in [Worker -> WorkerState]
    BY <1>3, NotifyType DEF Enqueue
  <2>3. opst' \in [Op -> OpState]
    BY <1>3 DEF Enqueue, TypeOK, OpState
  <2> QED BY <1>3, <2>1, <2>2, <2>3 DEF Enqueue, TypeOK, ownerVars
<1> QED BY <1>1, <1>2, <1>3 DEF Caller

\* So does every step of a worker thread.
LEMMA WorkerType ==
  ASSUME TypeOK, OpAssumption, NEW w \in Worker, WorkerStep(w) \/ SpuriousWakeup(w)
  PROVE  TypeOK'
<1> USE DEF poolVars, ownerVars, history
<1>1. CASE EvaluateMember(w) \/ ReadQueueMember(w)
  BY <1>1 DEF EvaluateMember, ReadQueueMember, TypeOK, WorkerState
<1>2. CASE Wait(w)
  BY <1>2 DEF Wait, TypeOK, WorkerState
<1>3. CASE Pop(w)
  <2>1. Head(queue) \in Op /\ queue' \in Seq(Op)
    BY <1>3, HeadTailProperties DEF Pop, TypeOK
  <2>2. popped' \in Seq(Op)
    BY <1>3, <2>1, AppendProperties DEF Pop, TypeOK
  <2>3. opst' \in [Op -> OpState] /\ wop' \in [Worker -> Op \cup {NoOp}]
    BY <1>3, <2>1 DEF Pop, TypeOK, OpState
  <2>4. wpc' \in [Worker -> WorkerState]
    BY <1>3 DEF Pop, TypeOK, WorkerState
  <2> QED BY <1>3, <2>1, <2>2, <2>3, <2>4 DEF Pop, TypeOK
<1>4. CASE ReadToken(w)
  BY <1>4 DEF ReadToken, TypeOK, WorkerState, OpState
<1>5. CASE Execute(w)
  BY <1>5 DEF Execute, TypeOK, WorkerState, OpState, FutureState
<1>6. CASE DeleteOperation(w)
  BY <1>6 DEF DeleteOperation, TypeOK, WorkerState, OpState
<1>7. CASE SpuriousWakeup(w)
  BY <1>7 DEF SpuriousWakeup, TypeOK, WorkerState
<1> QED BY <1>1, <1>2, <1>3, <1>4, <1>5, <1>6, <1>7 DEF WorkerStep

\* So does the owner while it opens the pool or decides to close it.
LEMMA OpeningType ==
  ASSUME TypeOK, AsyncThreadsAssumption, Opening \/ Close
  PROVE  TypeOK'
<1> USE DEF poolVars, wrkVars, history
<1>1. CASE StartConnection
  BY <1>1 DEF StartConnection, TypeOK, WorkerState, ConnState, ownerVars
<1>2. CASE FinishConstructor
  BY <1>2 DEF FinishConstructor, TypeOK, ConnState, ownerVars
<1>3. CASE ConnectOk
  <2>1. cur' \in Worker
    BY <1>3, AsyncThreadsAssumption DEF ConnectOk, TypeOK, Worker
  <2> QED BY <1>3, <2>1 DEF ConnectOk, TypeOK
<1>4. CASE ConnectError
  <2>1. dying' \in SUBSET Worker
    BY <1>4, AsyncThreadsAssumption DEF ConnectError, TypeOK, Worker
  <2> QED BY <1>4, <2>1 DEF ConnectError, TypeOK
<1>5. CASE OldServer
  BY <1>5 DEF OldServer, TypeOK
<1>6. CASE Reopen
  BY <1>6, AsyncThreadsAssumption DEF Reopen, TypeOK, Worker
<1>7. CASE Close
  BY <1>7 DEF Close, TypeOK
<1> QED BY <1>1, <1>2, <1>3, <1>4, <1>5, <1>6, <1>7 DEF Opening

\* And so does every step of a teardown.
LEMMA TeardownType ==
  ASSUME TypeOK, Teardown
  PROVE  TypeOK'
<1>1. ASSUME NEW w \in Worker, SetToken(w) PROVE TypeOK'
  BY <1>1 DEF SetToken, TypeOK, ConnState, poolVars, wrkVars, ownerVars, history
<1>2. ASSUME NEW w \in Worker, CancelShared(w) PROVE TypeOK'
  BY <1>2, CancelType DEF CancelShared, TypeOK, ConnState, ownerVars
<1>3. ASSUME NEW w \in Worker, JoinAndClose(w) PROVE TypeOK'
  BY <1>3 DEF JoinAndClose, TypeOK, ConnState, WorkerState, poolVars, history
<1>4. CASE TornDown
  BY <1>4 DEF TornDown, TypeOK, poolVars, wrkVars, history
<1>5. CASE DestroyPool
  BY <1>5, CancelType DEF DestroyPool, TypeOK
<1> QED BY <1>1, <1>2, <1>3, <1>4, <1>5 DEF Teardown

\* Every variable keeps its type (database_worker_pool.h and database_worker.h).
THEOREM TypeCorrect == Spec => []TypeOK
<1>1. Init => TypeOK
  <2> SUFFICES ASSUME Init PROVE TypeOK
    OBVIOUS
  <2>1. <<>> \in Seq(Op)
    OBVIOUS
  <2>2. cur \in Worker
    BY AsyncThreadsAssumption DEF Init, Worker
  <2>3. mysql \in SUBSET Worker /\ dying \in SUBSET Worker
    BY DEF Init
  <2> QED BY <2>1, <2>2, <2>3 DEF Init, TypeOK, WorkerState, ConnState, OpState, FutureState
<1>2. TypeOK /\ [Next]_vars => TypeOK'
  <2> SUFFICES ASSUME TypeOK, [Next]_vars PROVE TypeOK'
    OBVIOUS
  <2>1. CASE UNCHANGED vars
    BY <2>1 DEF vars, TypeOK
  <2>2. CASE Next
    BY <2>2, CallerType, WorkerType, OpeningType, TeardownType,
       AsyncThreadsAssumption, OpAssumption DEF Next
  <2> QED BY <2>1, <2>2
<1> QED BY <1>1, <1>2, PTL DEF Spec

-----------------------------------------------------------------------------
(* Order.  FifoConservation is not inductive: a pop after cancel() had      *)
(* deleted something would break it, and shutdown forbids that pop.         *)

FifoInv == FifoConservation /\ (dropped # <<>> => shutdown)

LEMMA FifoPop ==
  ASSUME TypeOK, FifoInv, NEW w \in Worker, Pop(w)
  PROVE  FifoInv'
<1>1. dropped = <<>> /\ dropped' = <<>>
  BY DEF Pop, FifoInv
<1>2. popped \o dropped = popped /\ popped' \o dropped' = popped'
  <2>1. popped \in Seq(Op) /\ popped' \in Seq(Op)
    BY HeadTailProperties, AppendProperties DEF Pop, TypeOK
  <2> QED BY <1>1, <2>1, ConcatEmptySeq
<1>3. popped' \o queue' = popped \o queue
  BY MoveFront DEF Pop, TypeOK
<1> QED BY <1>1, <1>2, <1>3 DEF Pop, FifoInv, FifoConservation

LEMMA FifoEnqueue ==
  ASSUME TypeOK, FifoInv, NEW o \in Op, Enqueue(o)
  PROVE  FifoInv'
<1>1. popped \o dropped \in Seq(Op)
  BY ConcatProperties DEF TypeOK
<1>2. (popped \o dropped) \o Append(queue, o) = Append((popped \o dropped) \o queue, o)
  BY <1>1, AppendToConcat DEF TypeOK
<1> QED BY <1>2 DEF Enqueue, FifoInv, FifoConservation

LEMMA FifoCancel ==
  ASSUME TypeOK, FifoInv, CancelQueue, UNCHANGED <<pushed, popped>>
  PROVE  FifoInv'
<1>1. dropped \o queue \in Seq(Op)
  BY ConcatProperties DEF TypeOK
<1>2. popped \o (dropped \o queue) = (popped \o dropped) \o queue
  <2>1. popped \in Seq(Op) /\ dropped \in Seq(Op) /\ queue \in Seq(Op)
    BY DEF TypeOK
  <2> QED BY <2>1, ConcatAssociative
<1>3. (popped \o (dropped \o queue)) \o <<>> = popped \o (dropped \o queue)
  BY <1>1, ConcatProperties, ConcatEmptySeq DEF TypeOK
<1> QED BY <1>2, <1>3 DEF CancelQueue, FifoInv, FifoConservation

\* No other action touches the queue, its flag or the history.
LEMMA FifoFrame ==
  ASSUME FifoInv, UNCHANGED <<queue, shutdown, pushed, popped, dropped>>
  PROVE  FifoInv'
BY DEF FifoInv, FifoConservation

\* First-in first-out for every set of operations and every number of workers:
\* producer_consumer_queue loses, duplicates and reorders nothing.
THEOREM Fifo == Spec => []FifoConservation
<1>1. Init => FifoInv
  <2> SUFFICES ASSUME Init PROVE FifoInv
    OBVIOUS
  <2>1. <<>> \o <<>> \o <<>> = <<>>
    OBVIOUS
  <2> QED BY <2>1 DEF Init, FifoInv, FifoConservation
<1>2. TypeOK /\ FifoInv /\ [Next]_vars => FifoInv'
  <2> SUFFICES ASSUME TypeOK, FifoInv, [Next]_vars PROVE FifoInv'
    OBVIOUS
  <2> USE DEF poolVars, history
  <2>1. ASSUME NEW o \in Op, Caller(o) PROVE FifoInv'
    <3>1. CASE Enqueue(o)
      BY <3>1, FifoEnqueue
    <3>2. CASE NewOperation(o) \/ GetFuture(o)
      BY <3>2, FifoFrame DEF NewOperation, GetFuture
    <3> QED BY <2>1, <3>1, <3>2 DEF Caller
  <2>2. ASSUME NEW w \in Worker, WorkerStep(w) \/ SpuriousWakeup(w) PROVE FifoInv'
    <3>1. CASE Pop(w)
      BY <3>1, FifoPop
    <3>2. CASE EvaluateMember(w) \/ ReadQueueMember(w) \/ Wait(w) \/ SpuriousWakeup(w)
      BY <3>2, FifoFrame DEF EvaluateMember, ReadQueueMember, Wait, SpuriousWakeup
    <3>3. CASE ReadToken(w) \/ Execute(w) \/ DeleteOperation(w)
      BY <3>3, FifoFrame DEF ReadToken, Execute, DeleteOperation
    <3> QED BY <2>2, <3>1, <3>2, <3>3 DEF WorkerStep
  <2>3. CASE Opening \/ Close
    BY <2>3, FifoFrame DEF Opening, Close, StartConnection, FinishConstructor,
       ConnectOk, ConnectError, OldServer, Reopen
  <2>4. CASE Teardown
    <3>1. ASSUME NEW w \in Worker, CancelShared(w) PROVE FifoInv'
      BY <3>1, FifoCancel DEF CancelShared
    <3>2. CASE DestroyPool
      BY <3>2, FifoCancel DEF DestroyPool
    <3>3. ASSUME NEW w \in Worker, SetToken(w) \/ JoinAndClose(w) PROVE FifoInv'
      BY <3>3, FifoFrame DEF SetToken, JoinAndClose
    <3>4. CASE TornDown
      BY <3>4, FifoFrame DEF TornDown
    <3> QED BY <2>4, <3>1, <3>2, <3>3, <3>4 DEF Teardown
  <2>5. CASE UNCHANGED vars
    BY <2>5, FifoFrame DEF vars
  <2> QED BY <2>1, <2>2, <2>3, <2>4, <2>5 DEF Next
<1>3. FifoInv => FifoConservation
  BY DEF FifoInv
<1> QED BY <1>1, <1>2, <1>3, TypeCorrect, PTL DEF Spec

-----------------------------------------------------------------------------
(* Ownership.  SingleOwner needs to know that a fresh operation is neither  *)
(* queued nor held, which its own status conjuncts say, and is inductive    *)
(* with TypeOK.                                                             *)

LEMMA OwnerEnqueue ==
  ASSUME TypeOK, OpAssumption, SingleOwner, NEW o \in Op, Enqueue(o)
  PROVE  SingleOwner'
<1>1. /\ Len(queue) \in Nat /\ DOMAIN queue = 1 .. Len(queue)
      /\ DOMAIN queue' = 1 .. Len(queue) + 1
      /\ \A i \in 1 .. Len(queue) : queue'[i] = queue[i]
      /\ queue'[Len(queue) + 1] = o
  BY AppendProperties, LenProperties DEF Enqueue, TypeOK
<1>2. \A i \in DOMAIN queue : queue[i] # o /\ opst'[queue[i]] = "queued"
  BY ElementOfSeq DEF Enqueue, TypeOK, SingleOwner
<1>3. \A i, j \in DOMAIN queue' : queue'[i] = queue'[j] => i = j
  BY <1>1, <1>2 DEF SingleOwner
<1>4. \A i \in DOMAIN queue' : opst'[queue'[i]] = "queued"
  <2> SUFFICES ASSUME NEW i \in DOMAIN queue' PROVE opst'[queue'[i]] = "queued"
    OBVIOUS
  <2>1. CASE i = Len(queue) + 1
    BY <1>1, <2>1 DEF Enqueue, TypeOK
  <2>2. CASE i \in DOMAIN queue
    BY <1>1, <1>2, <2>2
  <2> QED BY <1>1, <2>1, <2>2
<1>5. \A w \in Worker : wop'[w] # NoOp =>
         /\ opst'[wop'[w]] \in {"held", "executed"}
         /\ \A v \in Worker : wop'[v] = wop'[w] => v = w
  BY DEF Enqueue, TypeOK, SingleOwner
<1> QED BY <1>3, <1>4, <1>5 DEF SingleOwner

LEMMA OwnerPop ==
  ASSUME TypeOK, OpAssumption, SingleOwner, NEW w \in Worker, Pop(w)
  PROVE  SingleOwner'
<1>1. /\ Len(queue) \in Nat \ {0} /\ DOMAIN queue = 1 .. Len(queue)
      /\ DOMAIN queue' = 1 .. Len(queue) - 1
      /\ \A i \in DOMAIN queue' : queue'[i] = queue[i + 1]
      /\ Head(queue) = queue[1] /\ Head(queue) \in Op
  BY HeadTailProperties, LenProperties, EmptySeq DEF Pop, TypeOK
<1>2. \A i \in DOMAIN queue' : i + 1 \in DOMAIN queue /\ i + 1 # 1
  BY <1>1
<1>3. \A i \in DOMAIN queue' : queue'[i] # Head(queue)
  BY <1>1, <1>2 DEF SingleOwner
<1>4. \A i, j \in DOMAIN queue' : queue'[i] = queue'[j] => i = j
  <2> SUFFICES ASSUME NEW i \in DOMAIN queue', NEW j \in DOMAIN queue',
                      queue'[i] = queue'[j]
               PROVE i = j
    OBVIOUS
  <2>1. i + 1 = j + 1
    BY <1>1, <1>2 DEF SingleOwner
  <2> QED BY <2>1, <1>1
<1>5. \A i \in DOMAIN queue' : opst'[queue'[i]] = "queued"
  BY <1>1, <1>2, <1>3, ElementOfSeq DEF Pop, TypeOK, SingleOwner
<1>6. \A v \in Worker : wop[v] # Head(queue)
  <2>1. opst[Head(queue)] = "queued" /\ Head(queue) # NoOp
    BY <1>1, OpAssumption DEF SingleOwner
  <2> QED BY <2>1 DEF SingleOwner
<1>7. \A v \in Worker : wop'[v] # NoOp =>
         /\ opst'[wop'[v]] \in {"held", "executed"}
         /\ \A u \in Worker : wop'[u] = wop'[v] => u = v
  BY <1>1, <1>6 DEF Pop, TypeOK, SingleOwner
<1> QED BY <1>4, <1>5, <1>7 DEF SingleOwner

LEMMA OwnerCancel ==
  ASSUME TypeOK, SingleOwner, CancelQueue, UNCHANGED wop
  PROVE  SingleOwner'
<1>1. DOMAIN queue' = {}
  BY DEF CancelQueue
<1>2. ASSUME NEW w \in Worker, wop[w] # NoOp PROVE opst'[wop[w]] = opst[wop[w]]
  <2>1. wop[w] \in Op
    BY <1>2 DEF TypeOK
  <2>2. \A i \in DOMAIN queue : queue[i] # wop[w]
    BY <1>2 DEF SingleOwner
  <2>3. wop[w] \notin Elements(queue)
    BY <2>2 DEF Elements
  <2> QED BY <2>1, <2>3 DEF CancelQueue
<1> QED BY <1>1, <1>2 DEF SingleOwner

LEMMA OwnerFrame ==
  ASSUME SingleOwner, UNCHANGED <<queue, wop, opst>>
  PROVE  SingleOwner'
BY DEF SingleOwner

\* A worker that changes the status of its own operation, and maybe lets go of it.
LEMMA OwnerSettle ==
  ASSUME TypeOK, OpAssumption, SingleOwner, NEW w \in Worker, UNCHANGED queue,
         NEW s \in OpState, opst' = [opst EXCEPT ![wop[w]] = s],
         \/ wop' = wop /\ s = "executed"
         \/ wop' = [wop EXCEPT ![w] = NoOp]
  PROVE  SingleOwner'
<1>1. ASSUME NEW i \in DOMAIN queue PROVE opst'[queue[i]] = "queued"
  <2>1. queue[i] \in Op /\ opst[queue[i]] = "queued"
    BY ElementOfSeq, LenProperties DEF TypeOK, SingleOwner
  <2>2. queue[i] # wop[w]
    BY <2>1, OpAssumption DEF SingleOwner
  <2> QED BY <2>1, <2>2 DEF TypeOK
<1>2. ASSUME NEW v \in Worker, wop'[v] # NoOp
      PROVE  /\ opst'[wop'[v]] \in {"held", "executed"}
             /\ \A u \in Worker : wop'[u] = wop'[v] => u = v
  <2>1. wop'[v] = wop[v] /\ wop[v] \in Op
    BY <1>2 DEF TypeOK
  <2>2. \A u \in Worker : wop'[u] = wop'[v] => u = v
    BY <1>2, <2>1 DEF TypeOK, SingleOwner
  <2>3. opst'[wop[v]] \in {"held", "executed"}
    BY <1>2, <2>1 DEF TypeOK, SingleOwner
  <2> QED BY <2>1, <2>2, <2>3
<1> QED BY <1>1, <1>2 DEF SingleOwner

\* No operation is run twice, used after it was deleted, or deleted by two
\* threads: at every moment it has one owner, the queue or one worker.
THEOREM OneOwner == Spec => []SingleOwner
<1>1. Init => SingleOwner
  BY DEF Init, SingleOwner
<1>2. TypeOK /\ SingleOwner /\ [Next]_vars => SingleOwner'
  <2> SUFFICES ASSUME TypeOK, SingleOwner, [Next]_vars PROVE SingleOwner'
    OBVIOUS
  <2> USE DEF poolVars, wrkVars
  <2>1. ASSUME NEW o \in Op, Caller(o) PROVE SingleOwner'
    <3>1. CASE NewOperation(o)
      <4>1. \A i \in DOMAIN queue : queue[i] # o
        BY <3>1 DEF NewOperation, SingleOwner
      <4>2. \A w \in Worker : wop[w] # NoOp => wop[w] # o
        BY <3>1 DEF NewOperation, SingleOwner
      <4> QED BY <3>1, <4>1, <4>2 DEF NewOperation, SingleOwner, TypeOK
    <3>2. CASE GetFuture(o)
      BY <3>2, OwnerFrame DEF GetFuture
    <3>3. CASE Enqueue(o)
      BY <3>3, OwnerEnqueue, OpAssumption
    <3> QED BY <2>1, <3>1, <3>2, <3>3 DEF Caller
  <2>2. ASSUME NEW w \in Worker, WorkerStep(w) \/ SpuriousWakeup(w) PROVE SingleOwner'
    <3>1. CASE Pop(w)
      BY <3>1, OwnerPop, OpAssumption
    <3>2. CASE EvaluateMember(w) \/ ReadQueueMember(w) \/ Wait(w) \/ SpuriousWakeup(w)
      BY <3>2, OwnerFrame DEF EvaluateMember, ReadQueueMember, Wait, SpuriousWakeup
    <3>3. CASE ReadToken(w)
      <4>1. CASE token[w]
        BY <3>3, <4>1, OwnerSettle, OpAssumption DEF ReadToken, OpState
      <4>2. CASE ~token[w]
        BY <3>3, <4>2, OwnerFrame DEF ReadToken
      <4> QED BY <4>1, <4>2
    <3>4. CASE Execute(w)
      BY <3>4, OwnerSettle, OpAssumption DEF Execute, OpState
    <3>5. CASE DeleteOperation(w)
      BY <3>5, OwnerSettle, OpAssumption DEF DeleteOperation, OpState
    <3> QED BY <2>2, <3>1, <3>2, <3>3, <3>4, <3>5 DEF WorkerStep
  <2>3. CASE Opening \/ Close
    BY <2>3, OwnerFrame DEF Opening, Close, StartConnection, FinishConstructor,
       ConnectOk, ConnectError, OldServer, Reopen
  <2>4. CASE Teardown
    <3>1. ASSUME NEW w \in Worker, CancelShared(w) PROVE SingleOwner'
      BY <3>1, OwnerCancel DEF CancelShared
    <3>2. CASE DestroyPool
      BY <3>2, OwnerCancel DEF DestroyPool
    <3>3. ASSUME NEW w \in Worker, SetToken(w) \/ JoinAndClose(w) PROVE SingleOwner'
      BY <3>3, OwnerFrame DEF SetToken, JoinAndClose
    <3>4. CASE TornDown
      BY <3>4, OwnerFrame DEF TornDown
    <3> QED BY <2>4, <3>1, <3>2, <3>3, <3>4 DEF Teardown
  <2>5. CASE UNCHANGED vars
    BY <2>5, OwnerFrame DEF vars
  <2> QED BY <2>1, <2>2, <2>3, <2>4, <2>5 DEF Next
<1> QED BY <1>1, <1>2, TypeCorrect, PTL DEF Spec

-----------------------------------------------------------------------------
(* Teardown.  A handle is freed only after cancel() shut the queue, so the  *)
(* invariant ties the handles to a queue that can still be popped.          *)

HandleInv ==
  /\ \A w \in Worker : wpc[w] \in {"popped", "running", "done"} => w \in mysql
  /\ queue # <<>> /\ ~shutdown => mysql = Worker
  /\ phase = "serving" => mysql = Worker
  /\ phase = "opening" => 1 .. cur - 1 \subseteq mysql
  /\ \A o \in Op : opst[o] = "made" => phase = "serving"
  /\ \A w \in Worker : conn[w] = "joining" => shutdown

LEMMA HandleCancel ==
  ASSUME TypeOK, HandleInv, CancelQueue, UNCHANGED mysql,
         phase \notin {"serving", "opening"}, phase' \notin {"serving", "opening"}
  PROVE  HandleInv'
<1>1. \A w \in Worker : wpc'[w] \in {"popped", "running", "done"} => wpc'[w] = wpc[w]
  BY DEF CancelQueue, TypeOK
<1>2. \A o \in Op : opst'[o] = "made" => opst[o] = "made"
  BY DEF CancelQueue, TypeOK
<1>3. shutdown' /\ queue' = <<>>
  BY DEF CancelQueue
<1> QED BY <1>1, <1>2, <1>3 DEF HandleInv

\* mysql_connection::close frees mysql_ only after the worker thread has left
\* every call that uses it, and no operation reaches a connection without one.
THEOREM HandleSafe == Spec => []HandleOutlivesUse
<1>1. Init => HandleInv
  BY AsyncThreadsAssumption DEF Init, HandleInv, Worker
<1>2. TypeOK /\ HandleInv /\ [Next]_vars => HandleInv'
  <2> SUFFICES ASSUME TypeOK, HandleInv, [Next]_vars PROVE HandleInv'
    OBVIOUS
  <2> USE DEF poolVars, ownerVars, wrkVars
  <2>1. ASSUME NEW o \in Op, Caller(o) PROVE HandleInv'
    <3>1. CASE NewOperation(o)
      BY <3>1 DEF NewOperation, HandleInv, TypeOK
    <3>2. CASE GetFuture(o)
      BY <3>2 DEF GetFuture, HandleInv
    <3>3. CASE Enqueue(o)
      <4>1. \A w \in Worker : wpc'[w] \in {"popped", "running", "done"} => wpc'[w] = wpc[w]
        BY <3>3 DEF Enqueue, NotifyOne, Waiting, TypeOK
      <4> QED BY <3>3, <4>1 DEF Enqueue, HandleInv, TypeOK
    <3> QED BY <2>1, <3>1, <3>2, <3>3 DEF Caller
  <2>2. ASSUME NEW w \in Worker, WorkerStep(w) \/ SpuriousWakeup(w) PROVE HandleInv'
    <3>1. CASE EvaluateMember(w) \/ ReadQueueMember(w)
      BY <3>1 DEF EvaluateMember, ReadQueueMember, HandleInv, TypeOK
    <3>2. CASE Wait(w) \/ SpuriousWakeup(w)
      BY <3>2 DEF Wait, SpuriousWakeup, HandleInv, TypeOK
    <3>3. CASE Pop(w)
      BY <3>3 DEF Pop, HandleInv, TypeOK
    <3>4. CASE ReadToken(w)
      BY <3>4 DEF ReadToken, HandleInv, TypeOK
    <3>5. CASE Execute(w) \/ DeleteOperation(w)
      BY <3>5 DEF Execute, DeleteOperation, HandleInv, TypeOK
    <3> QED BY <2>2, <3>1, <3>2, <3>3, <3>4, <3>5 DEF WorkerStep
  <2>3. CASE StartConnection
    BY <2>3 DEF StartConnection, HandleInv, TypeOK
  <2>4. CASE FinishConstructor
    BY <2>4 DEF FinishConstructor, HandleInv, TypeOK
  <2>5. CASE ConnectOk
    <3>1. 1 .. cur \subseteq mysql'
      BY <2>5, AsyncThreadsAssumption DEF ConnectOk, HandleInv, TypeOK, Worker
    <3>2. \A o \in Op : opst[o] # "made"
      BY <2>5 DEF ConnectOk, HandleInv
    <3>3. CASE cur = AsyncThreads
      BY <2>5, <3>1, <3>2, <3>3 DEF ConnectOk, HandleInv, TypeOK, Worker
    <3>4. CASE cur # AsyncThreads
      <4>1. cur' - 1 = cur
        BY <2>5, <3>4, AsyncThreadsAssumption DEF ConnectOk, TypeOK, Worker
      <4> QED BY <2>5, <3>1, <3>2, <3>4, <4>1 DEF ConnectOk, HandleInv, TypeOK
    <3> QED BY <3>3, <3>4
  <2>6. CASE ConnectError \/ OldServer
    <3>1. \A o \in Op : opst[o] # "made"
      BY <2>6 DEF ConnectError, OldServer, HandleInv
    <3>2. CASE ConnectError
      BY <3>1, <3>2 DEF ConnectError, HandleInv
    <3>3. CASE OldServer
      <4>1. mysql \subseteq mysql' /\ mysql' \subseteq Worker
        BY <3>3 DEF OldServer, TypeOK
      <4> QED BY <3>1, <3>3, <4>1 DEF OldServer, HandleInv
    <3> QED BY <2>6, <3>2, <3>3
  <2>7. CASE Reopen
    BY <2>7 DEF Reopen, HandleInv, TypeOK
  <2>8. CASE Close
    BY <2>8 DEF Close, HandleInv, TypeOK
  <2>9. ASSUME NEW w \in Worker, SetToken(w) PROVE HandleInv'
    BY <2>9 DEF SetToken, HandleInv, TypeOK
  <2>10. ASSUME NEW w \in Worker, CancelShared(w) PROVE HandleInv'
    BY <2>10, HandleCancel DEF CancelShared, Destroying
  <2>11. ASSUME NEW w \in Worker, JoinAndClose(w) PROVE HandleInv'
    BY <2>11 DEF JoinAndClose, Destroying, HandleInv, TypeOK
  <2>12. CASE TornDown
    BY <2>12 DEF TornDown, HandleInv, TypeOK
  <2>13. CASE DestroyPool
    BY <2>13, HandleCancel DEF DestroyPool
  <2>14. CASE UNCHANGED vars
    BY <2>14 DEF vars, HandleInv
  <2> QED BY <2>1, <2>2, <2>3, <2>4, <2>5, <2>6, <2>7, <2>8, <2>9, <2>10,
             <2>11, <2>12, <2>13, <2>14 DEF Next, Opening, Teardown
<1>3. HandleInv => HandleOutlivesUse
  BY DEF HandleInv, HandleOutlivesUse
<1> QED BY <1>1, <1>2, <1>3, TypeCorrect, PTL DEF Spec

-----------------------------------------------------------------------------
(* Futures.  The future of an operation follows from the status of the      *)
(* operation, and that of a worker's operation from where the worker is.    *)

OpFate(o) ==
  /\ opst[o] = "none" => future[o] = "none"
  /\ opst[o] = "made" => future[o] \in {"none", "pending"}
  /\ opst[o] \in {"queued", "held", "leaked"} => future[o] = "pending"
  /\ opst[o] \in {"executed", "freed"} => future[o] = "ready"
  /\ opst[o] = "discarded" => future[o] = "broken"

WorkerFate(w) ==
  /\ wpc[w] \in {"popped", "running"} => wop[w] \in Op /\ opst[wop[w]] = "held"
  /\ wpc[w] = "done" => wop[w] \in Op /\ opst[wop[w]] = "executed"

FateInv == (\A o \in Asks : OpFate(o)) /\ (\A w \in Worker : WorkerFate(w))

\* A thread that enters no call and no operation that changes.
LEMMA FateFrame ==
  ASSUME FateInv, UNCHANGED <<wop, opst, future>>,
         \A w \in Worker : wpc'[w] \in {"popped", "running", "done"} =>
           wpc'[w] = wpc[w] \/ (wpc[w] = "popped" /\ wpc'[w] = "running")
  PROVE  FateInv'
<1>1. \A o \in Asks : OpFate(o)'
  BY DEF FateInv, OpFate
<1>2. \A w \in Worker : WorkerFate(w)'
  BY DEF FateInv, WorkerFate
<1> QED BY <1>1, <1>2 DEF FateInv

\* A worker, and the status and the future of its own operation.
LEMMA FateSettle ==
  ASSUME TypeOK, OpAssumption, SingleOwner, FateInv, NEW w \in Worker, NEW p \in Op, wop[w] = p,
         NEW s \in OpState, opst' = [opst EXCEPT ![p] = s],
         p \in Asks => OpFate(p)', WorkerFate(w)',
         \A v \in Worker \ {w} : wop'[v] = wop[v] /\ wpc'[v] = wpc[v],
         \A o \in Op \ {p} : future'[o] = future[o]
  PROVE  FateInv'
<1>1. ASSUME NEW o \in Asks PROVE OpFate(o)'
  <2>1. CASE o # p
    <3>1. o \in Op /\ opst'[o] = opst[o] /\ future'[o] = future[o]
      BY <2>1, OpAssumption DEF TypeOK
    <3> QED BY <3>1 DEF FateInv, OpFate
  <2> QED BY <2>1
<1>2. ASSUME NEW v \in Worker PROVE WorkerFate(v)'
  <2>1. CASE v # w
    <3>1. wop[v] \in Op => wop[v] # p
      BY <2>1, OpAssumption DEF SingleOwner, OpAssumption
    <3>2. wop[v] \in Op => opst'[wop[v]] = opst[wop[v]]
      <4>1. DOMAIN opst = Op
        BY DEF TypeOK
      <4> QED BY <3>1, <4>1
    <3> QED BY <2>1, <3>1, <3>2 DEF FateInv, WorkerFate
  <2> QED BY <2>1
<1> QED BY <1>1, <1>2 DEF FateInv

LEMMA FateCancel ==
  ASSUME TypeOK, OpAssumption, SingleOwner, FateInv, CancelQueue, UNCHANGED wop
  PROVE  FateInv'
<1>1. \A o \in Elements(queue) : opst[o] = "queued"
  BY DEF Elements, SingleOwner
<1>2. ASSUME NEW o \in Asks PROVE OpFate(o)'
  <2>1. o \in Op
    BY OpAssumption
  <2>2. CASE o \in Elements(queue)
    <3>1. opst'[o] = "discarded" /\ future'[o] = "broken"
      BY <2>1, <2>2 DEF CancelQueue
    <3> QED BY <3>1 DEF OpFate
  <2>3. CASE o \notin Elements(queue)
    <3>1. opst'[o] = opst[o] /\ future'[o] = future[o]
      BY <2>1, <2>3 DEF CancelQueue
    <3> QED BY <3>1 DEF FateInv, OpFate
  <2> QED BY <2>2, <2>3
<1>3. ASSUME NEW w \in Worker PROVE WorkerFate(w)'
  <2>1. wpc'[w] \in {"popped", "running", "done"} => wpc'[w] = wpc[w]
    BY DEF CancelQueue
  <2>2. wop[w] \in Op /\ opst[wop[w]] \in {"held", "executed"} => opst'[wop[w]] = opst[wop[w]]
    BY <1>1 DEF CancelQueue
  <2> QED BY <2>1, <2>2 DEF FateInv, WorkerFate
<1> QED BY <1>2, <1>3 DEF FateInv

\* A caller's step: its operation is not a worker's.
LEMMA FateCaller ==
  ASSUME TypeOK, OpAssumption, SingleOwner, FateInv, NEW o \in Op, opst[o] \in {"none", "made"},
         NEW s \in OpState, opst' = [opst EXCEPT ![o] = s], o \in Asks => OpFate(o)',
         \A p \in Op \ {o} : future'[p] = future[p], UNCHANGED wop,
         \A w \in Worker : wpc'[w] \in {"popped", "running", "done"} => wpc'[w] = wpc[w]
  PROVE  FateInv'
<1>1. ASSUME NEW p \in Asks PROVE OpFate(p)'
  <2>1. CASE p # o
    <3>1. p \in Op /\ opst'[p] = opst[p] /\ future'[p] = future[p]
      BY <2>1, OpAssumption DEF TypeOK
    <3> QED BY <3>1 DEF FateInv, OpFate
  <2> QED BY <2>1
<1>2. ASSUME NEW w \in Worker PROVE WorkerFate(w)'
  <2>1. wop[w] \in Op /\ opst[wop[w]] \in {"held", "executed"} => opst'[wop[w]] = opst[wop[w]]
    BY DEF TypeOK
  <2> QED BY <2>1 DEF FateInv, WorkerFate
<1> QED BY <1>1, <1>2 DEF FateInv

\* FutureTellsFate: a future holds a value only if its statement ran, and an
\* exception only if its operation was deleted unexecuted (sql_operation.h, cancel()).
THEOREM FateTold == Spec => []FutureTellsFate
<1> USE OpAssumption
<1>1. Init => FateInv
  BY DEF Init, FateInv, OpFate, WorkerFate
<1>2. TypeOK /\ SingleOwner /\ FateInv /\ [Next]_vars => FateInv'
  <2> SUFFICES ASSUME TypeOK, SingleOwner, FateInv, [Next]_vars PROVE FateInv'
    OBVIOUS
  <2> USE DEF wrkVars
  <2>1. ASSUME NEW o \in Op, NewOperation(o) PROVE FateInv'
    <3>1. opst[o] = "none" /\ opst' = [opst EXCEPT ![o] = "made"] /\ "made" \in OpState
          /\ UNCHANGED <<wpc, wop, future>>
      BY <2>1 DEF NewOperation, OpState
    <3>2. o \in Asks => OpFate(o)'
      BY <3>1 DEF FateInv, OpFate, TypeOK
    <3> QED BY <3>1, <3>2, FateCaller
  <2>2. ASSUME NEW o \in Op, GetFuture(o) PROVE FateInv'
    <3>1. opst[o] = "made" /\ future' = [future EXCEPT ![o] = "pending"]
          /\ opst' = [opst EXCEPT ![o] = "made"] /\ "made" \in OpState
          /\ UNCHANGED <<wpc, wop>>
      BY <2>2 DEF GetFuture, OpState, TypeOK
    <3>2. OpFate(o)'
      BY <3>1 DEF OpFate, TypeOK
    <3> QED BY <3>1, <3>2, FateCaller DEF TypeOK
  <2>3. ASSUME NEW o \in Op, Enqueue(o) PROVE FateInv'
    <3>1. opst[o] = "made" /\ opst' = [opst EXCEPT ![o] = "queued"] /\ "queued" \in OpState
          /\ UNCHANGED <<wop, future>> /\ (o \in Asks => future[o] # "none")
      BY <2>3 DEF Enqueue, OpState
    <3>2. o \in Asks => OpFate(o)'
      BY <3>1 DEF FateInv, OpFate, TypeOK
    <3>3. \A w \in Worker : wpc'[w] \in {"popped", "running", "done"} => wpc'[w] = wpc[w]
      BY <2>3 DEF Enqueue, NotifyOne, Waiting, TypeOK
    <3> QED BY <3>1, <3>2, <3>3, FateCaller
  <2>4. ASSUME NEW w \in Worker, EvaluateMember(w) \/ ReadQueueMember(w) \/ Wait(w)
                                  \/ SpuriousWakeup(w)
        PROVE  FateInv'
    <3>1. \A v \in Worker : wpc'[v] \in {"popped", "running", "done"} => wpc'[v] = wpc[v]
      BY <2>4 DEF EvaluateMember, ReadQueueMember, Wait, SpuriousWakeup, TypeOK
    <3>2. UNCHANGED <<wop, opst, future>>
      BY <2>4 DEF EvaluateMember, ReadQueueMember, Wait, SpuriousWakeup
    <3> QED BY <3>1, <3>2, FateFrame
  <2>5. ASSUME NEW w \in Worker, Pop(w) PROVE FateInv'
    <3> DEFINE o == Head(queue)
    <3>1. o \in Op /\ opst[o] = "queued"
      <4>1. 1 \in DOMAIN queue /\ o = queue[1] /\ o \in Op
        BY <2>5, HeadTailProperties, LenProperties, EmptySeq DEF Pop, TypeOK
      <4> QED BY <4>1 DEF SingleOwner
    <3>2. /\ wop' = [wop EXCEPT ![w] = o] /\ opst' = [opst EXCEPT ![o] = "held"]
          /\ wpc' = [wpc EXCEPT ![w] = "popped"] /\ UNCHANGED future
      BY <2>5 DEF Pop
    <3> HIDE DEF o
    <3>3. ASSUME NEW p \in Asks PROVE OpFate(p)'
      BY <3>1, <3>2 DEF FateInv, OpFate, TypeOK
    <3>4. ASSUME NEW v \in Worker PROVE WorkerFate(v)'
      BY <3>1, <3>2 DEF FateInv, WorkerFate, TypeOK
    <3> QED BY <3>3, <3>4 DEF FateInv
  <2>6. ASSUME NEW w \in Worker, ReadToken(w) PROVE FateInv'
    <3>1. CASE ~token[w]
      <4>1. UNCHANGED <<wop, opst, future>> /\ wpc[w] = "popped" /\ wpc' = [wpc EXCEPT ![w] = "running"]
        BY <2>6, <3>1 DEF ReadToken
      <4> QED BY <4>1, FateFrame DEF TypeOK
    <3>2. CASE token[w]
      <4>1. /\ wpc[w] = "popped" /\ wpc' = [wpc EXCEPT ![w] = "exited"]
            /\ opst' = [opst EXCEPT ![wop[w]] = "leaked"] /\ "leaked" \in OpState
            /\ wop' = [wop EXCEPT ![w] = NoOp] /\ UNCHANGED future
        BY <2>6, <3>2 DEF ReadToken, OpState
      <4>2. PICK p \in Op : wop[w] = p /\ opst[p] = "held"
        BY <4>1 DEF FateInv, WorkerFate
      <4>3. p \in Asks => OpFate(p)'
        BY <4>1, <4>2 DEF FateInv, OpFate, TypeOK
      <4>4. WorkerFate(w)'
        BY <4>1 DEF WorkerFate, TypeOK
      <4>5. \A v \in Worker \ {w} : wop'[v] = wop[v] /\ wpc'[v] = wpc[v]
        BY <4>1 DEF TypeOK
      <4> QED BY <4>1, <4>2, <4>3, <4>4, <4>5, FateSettle
    <3> QED BY <3>1, <3>2
  <2>7. ASSUME NEW w \in Worker, Execute(w) PROVE FateInv'
    <3>1. /\ wpc[w] = "running" /\ wpc' = [wpc EXCEPT ![w] = "done"] /\ UNCHANGED wop
          /\ opst' = [opst EXCEPT ![wop[w]] = "executed"] /\ "executed" \in OpState
          /\ future' = IF wop[w] \in Asks THEN [future EXCEPT ![wop[w]] = "ready"] ELSE future
      BY <2>7 DEF Execute, OpState
    <3>2. PICK p \in Op : wop[w] = p
      BY <3>1 DEF FateInv, WorkerFate
    <3>3. opst'[p] = "executed" /\ (p \in Asks => future'[p] = "ready")
      BY <3>1, <3>2 DEF TypeOK
    <3>4. p \in Asks => OpFate(p)'
      BY <3>1, <3>3 DEF OpFate
    <3>5. WorkerFate(w)'
      BY <3>1, <3>2, <3>3 DEF WorkerFate, TypeOK
    <3>6. \A v \in Worker \ {w} : wop'[v] = wop[v] /\ wpc'[v] = wpc[v]
      BY <3>1 DEF TypeOK
    <3>7. \A o \in Op \ {p} : future'[o] = future[o]
      BY <3>1, <3>2 DEF TypeOK
    <3> QED BY <3>1, <3>2, <3>4, <3>5, <3>6, <3>7, FateSettle
  <2>8. ASSUME NEW w \in Worker, DeleteOperation(w) PROVE FateInv'
    <3>1. /\ wpc[w] = "done" /\ wpc' = [wpc EXCEPT ![w] = "pop"]
          /\ opst' = [opst EXCEPT ![wop[w]] = "freed"] /\ "freed" \in OpState
          /\ wop' = [wop EXCEPT ![w] = NoOp] /\ UNCHANGED future
      BY <2>8 DEF DeleteOperation, OpState
    <3>2. PICK p \in Op : wop[w] = p /\ opst[p] = "executed"
      BY <3>1 DEF FateInv, WorkerFate
    <3>3. p \in Asks => OpFate(p)'
      BY <3>1, <3>2 DEF FateInv, OpFate, TypeOK
    <3>4. WorkerFate(w)'
      BY <3>1 DEF WorkerFate, TypeOK
    <3>5. \A v \in Worker \ {w} : wop'[v] = wop[v] /\ wpc'[v] = wpc[v]
      BY <3>1 DEF TypeOK
    <3> QED BY <3>1, <3>2, <3>3, <3>4, <3>5, FateSettle
  <2>9. CASE Opening \/ Close
    <3>1. UNCHANGED <<wop, opst, future>>
      BY <2>9 DEF Opening, Close, StartConnection, FinishConstructor,
                  ConnectOk, ConnectError, OldServer, Reopen
    <3>2. \A v \in Worker : wpc'[v] = wpc[v] \/ wpc'[v] = "start"
      BY <2>9 DEF Opening, Close, StartConnection, FinishConstructor,
                  ConnectOk, ConnectError, OldServer, Reopen, TypeOK
    <3> QED BY <3>1, <3>2, FateFrame
  <2>10. ASSUME NEW w \in Worker, SetToken(w) \/ JoinAndClose(w) PROVE FateInv'
    <3>1. UNCHANGED <<wop, opst, future>>
      BY <2>10 DEF SetToken, JoinAndClose
    <3>2. \A v \in Worker : wpc'[v] = wpc[v] \/ wpc'[v] = "none"
      BY <2>10 DEF SetToken, JoinAndClose, TypeOK
    <3> QED BY <3>1, <3>2, FateFrame
  <2>11. CASE TornDown \/ UNCHANGED vars
    BY <2>11, FateFrame DEF TornDown, vars
  <2>12. CASE DestroyPool \/ \E w \in Worker : CancelShared(w)
    BY <2>12, FateCancel DEF DestroyPool, CancelShared
  <2> QED BY <2>1, <2>2, <2>3, <2>4, <2>5, <2>6, <2>7, <2>8, <2>9, <2>10, <2>11, <2>12
          DEF Next, Caller, WorkerStep, Teardown
<1>3. TypeOK /\ FateInv => FutureTellsFate
  <2> SUFFICES ASSUME TypeOK, FateInv, NEW o \in Asks
               PROVE  /\ future[o] = "ready" <=> opst[o] \in {"executed", "freed"}
                      /\ future[o] = "broken" <=> opst[o] = "discarded"
    BY DEF FutureTellsFate
  <2>1. opst[o] \in OpState
    BY DEF TypeOK
  <2> QED BY <2>1 DEF FateInv, OpFate, OpState
<1> QED BY <1>1, <1>2, <1>3, TypeCorrect, OneOwner, PTL DEF Spec

-----------------------------------------------------------------------------
(* What the source's own thread entry makes of the pool. *)

\* No operation has reached a worker and none has been carried out.
Untouched ==
  /\ \A w \in Worker : wpc[w] \in {"none", "start", "exited"}
  /\ \A o \in Op : opst[o] \in {"none", "made", "queued", "discarded"}

\* With the member worker_thread_ as the entry of every thread, as database_worker.cpp has
\* it, no operation is executed whatever its callers and the owner of the pool do: one that
\* is enqueued stays in the queue until cancel() deletes it, and with as many threads as
\* one likes no promise is ever fulfilled.
THEOREM NothingExecuted ==
  ASSUME ThreadEntry = {"worker_thread_"}
  PROVE  Spec => [](Untouched /\ \A o \in Asks : future[o] # "ready")
<1>1. Init => Untouched
  BY DEF Init, Untouched
<1>2. TypeOK /\ SingleOwner /\ Untouched /\ [Next]_vars => Untouched'
  <2> SUFFICES ASSUME TypeOK, SingleOwner, Untouched, [Next]_vars PROVE Untouched'
    OBVIOUS
  <2> USE DEF poolVars, wrkVars, ownerVars, history
  <2>1. CASE UNCHANGED vars
    BY <2>1 DEF vars, Untouched
  <2>2. ASSUME NEW o \in Op, Caller(o) PROVE Untouched'
    <3>1. wpc' = wpc
      BY <2>2 DEF Caller, NewOperation, GetFuture, Enqueue, NotifyOne, Waiting, Untouched
    <3> QED BY <2>2, <3>1 DEF Caller, NewOperation, GetFuture, Enqueue, Untouched, TypeOK
  <2>3. ASSUME NEW w \in Worker, WorkerStep(w) \/ SpuriousWakeup(w) PROVE Untouched'
    <3>1. EvaluateMember(w)
      BY <2>3 DEF WorkerStep, ReadQueueMember, Wait, Pop, ReadToken, Execute, DeleteOperation,
         SpuriousWakeup, Untouched
    <3> QED BY <3>1 DEF EvaluateMember, Untouched, TypeOK
  <2>4. CASE Opening \/ Close \/ TornDown
    BY <2>4 DEF Opening, StartConnection, FinishConstructor, ConnectOk, ConnectError, OldServer,
       Reopen, Close, TornDown, Untouched, TypeOK
  <2>5. ASSUME CancelQueue PROVE Untouched'
    BY <2>5 DEF CancelQueue, Untouched
  <2>6. ASSUME NEW w \in Worker, SetToken(w) \/ JoinAndClose(w) PROVE Untouched'
    BY <2>6 DEF SetToken, JoinAndClose, Untouched, TypeOK
  <2> QED BY <2>1, <2>2, <2>3, <2>4, <2>5, <2>6 DEF Next, Teardown, CancelShared, DestroyPool
<1>3. Untouched /\ FutureTellsFate => \A o \in Asks : future[o] # "ready"
  BY OpAssumption DEF Untouched, FutureTellsFate
<1> QED BY <1>1, <1>2, <1>3, TypeCorrect, OneOwner, FateTold, PTL DEF Spec
=============================================================================
