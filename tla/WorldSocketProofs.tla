-------------------------- MODULE WorldSocketProofs -------------------------
(* Proofs about WorldSocket, for any number of senders, packets, chains and  *)
(* queries: whatever the socket does with its queue is a step of MpscQueue,  *)
(* so that the theorems about the queue hold in the composition; and query   *)
(* results reach the callbacks of their own chain in order.                  *)
EXTENDS WorldSocket, MpscQueueProofs, SequenceTheorems, WellFoundedInduction

LEMMA SendIsQueueStep ==
  ASSUME NEW p \in Producers, Sends(p) \/ Enqueues(p)
  PROVE  QueueNext
  <1>1. CASE Sends(p)
    BY <1>1 DEF Sends, QueueNext
  <1>2. CASE Enqueues(p)
    BY <1>2 DEF Enqueues, QueueNext
  <1> QED BY <1>1, <1>2

(* Every step of the socket is a step of its queue, or leaves it alone. *)
LEMMA QueueStep == [Next]_vars => [QueueNext]_queueVars
  <1> SUFFICES ASSUME [Next]_vars PROVE QueueNext \/ UNCHANGED queueVars
    OBVIOUS
  <1>1. CASE UNCHANGED vars
    BY <1>1 DEF vars
  <1>2. ASSUME NEW p \in Producers, ForeignSends(p) PROVE QueueNext
    BY <1>2, SendIsQueueStep DEF ForeignSends
  <1>3. CASE NetSends
    BY <1>3, SendIsQueueStep, NetAssumption DEF NetSends
  <1>4. CASE NetStep
    <2>1. CASE Drain
      BY <2>1 DEF Drain, QueueNext
    <2>2. CASE \/ AddNewSocket \/ EndDrain \/ Poll \/ Visit \/ EndUpdate
               \/ \E ok \in BOOLEAN : BaseUpdate(ok)
      BY <2>2 DEF AddNewSocket, EndDrain, Poll, Visit, EndUpdate, BaseUpdate
    <2> QED BY <1>4, <2>1, <2>2 DEF NetStep
  <1>5. CASE \/ NetAsks \/ IoAsks \/ IoAdded \/ IoCorrupts
             \/ delayed_close_socket \/ close_socket \/ Answers
    BY <1>5 DEF NetAsks, IoAsks, IoAdded, IoCorrupts, delayed_close_socket, close_socket, Answers
  <1>6. CASE Start \/ BeginUpdate \/ RunEnds \/ Destroy
    BY <1>6 DEF Start, BeginUpdate, RunEnds, Destroy
  <1>7. CASE DestroyQueue
    BY <1>7 DEF DestroyQueue, QueueNext
  <1> QED
    BY <1>1, <1>2, <1>3, <1>4, <1>5, <1>6, <1>7 DEF Next

LEMMA UsesQueue == Spec => QueueSpec
  <1>1. Init => QueueInit
    BY DEF Init
  <1> QED BY <1>1, QueueStep, PTL DEF Spec, QueueSpec

(* world_socket.cpp:207-247, 129-133: the socket's queue is a FIFO queue for
   the threads that send and the network thread, down to its destruction. *)
THEOREM SocketQueueIsFifo == Spec => ImplementsFifo
  BY UsesQueue, Implementation

(* world_socket.cpp:207-247: no use of the queue by the socket stores into a
   deleted node, or leaves one behind. *)
THEOREM SocketNodesSafe == Spec => []MemorySafe
  BY UsesQueue, NodesSafe

(* world_socket.cpp:215: update() stops dequeuing only when nothing is left
   that a producer has linked. *)
THEOREM SocketEmptySaysTrue == Spec => []EmptyIsTrue
  BY UsesQueue, EmptySaysTrue
-----------------------------------------------------------------------------
(* Sequences without repetition, and what they hold. *)
LEMMA AppendHolds ==
  ASSUME NEW S, NEW s \in Seq(S), NEW x \in S
  PROVE  /\ ToSet(Append(s, x)) = ToSet(s) \cup {x}
         /\ IsInjective(s) /\ x \notin ToSet(s) => IsInjective(Append(s, x))
  <1>1. /\ DOMAIN s = 1..Len(s) /\ DOMAIN Append(s, x) = 1..Len(s) + 1 /\ Len(s) \in Nat
        /\ \A i \in 1..Len(s) : Append(s, x)[i] = s[i]
        /\ Append(s, x)[Len(s) + 1] = x
    OBVIOUS
  <1>2. \A i \in 1..Len(s) + 1 : i \in 1..Len(s) \/ i = Len(s) + 1
    BY <1>1
  <1>3. 1..Len(s) \subseteq 1..Len(s) + 1 /\ Len(s) + 1 \in 1..Len(s) + 1
    BY <1>1
  <1> QED
    BY <1>1, <1>2, <1>3 DEF ToSet, IsInjective

LEMMA TailHolds ==
  ASSUME NEW S, NEW s \in Seq(S), s # <<>>
  PROVE  /\ Head(s) \in S /\ Tail(s) \in Seq(S)
         /\ ToSet(s) = ToSet(Tail(s)) \cup {Head(s)}
         /\ IsInjective(s) => IsInjective(Tail(s)) /\ Head(s) \notin ToSet(Tail(s))
  <1>1. /\ Len(s) \in Nat \ {0} /\ DOMAIN s = 1..Len(s) /\ Tail(s) \in Seq(S)
        /\ Len(Tail(s)) = Len(s) - 1 /\ DOMAIN Tail(s) = 1..Len(s) - 1
        /\ \A i \in 1..Len(s) - 1 : Tail(s)[i] = s[i + 1]
        /\ Head(s) = s[1] /\ Head(s) \in S
    OBVIOUS
  <1>2. \A i \in 1..Len(s) : i = 1 \/ (i - 1 \in 1..Len(s) - 1 /\ s[i] = Tail(s)[i - 1])
    BY <1>1
  <1>3. ToSet(s) = ToSet(Tail(s)) \cup {Head(s)}
    <2>1. ASSUME NEW i \in 1..Len(s)
          PROVE  s[i] \in ToSet(Tail(s)) \cup {Head(s)}
      <3>1. CASE i = 1
        BY <1>1, <3>1
      <3>2. CASE i # 1
        BY <1>1, <1>2, <3>2 DEF ToSet
      <3> QED BY <3>1, <3>2
    <2>2. 1 \in 1..Len(s) /\ \A i \in 1..Len(s) - 1 : i + 1 \in 1..Len(s)
      BY <1>1
    <2>3. ToSet(Tail(s)) \cup {Head(s)} \subseteq ToSet(s)
      BY <1>1, <2>2 DEF ToSet
    <2> QED BY <1>1, <2>1, <2>3 DEF ToSet
  <1>4. ASSUME IsInjective(s)
        PROVE  IsInjective(Tail(s)) /\ Head(s) \notin ToSet(Tail(s))
    BY <1>1, <1>4 DEF ToSet, IsInjective
  <1> QED BY <1>1, <1>3, <1>4

LEMMA ConcatHolds ==
  ASSUME NEW S, NEW s \in Seq(S), NEW t \in Seq(S)
  PROVE  /\ ToSet(s \o t) = ToSet(s) \cup ToSet(t)
         /\ IsInjective(s) /\ IsInjective(t) /\ ToSet(s) \cap ToSet(t) = {} => IsInjective(s \o t)
  <1>1. /\ DOMAIN s = 1..Len(s) /\ DOMAIN t = 1..Len(t) /\ Len(s) \in Nat /\ Len(t) \in Nat
        /\ DOMAIN (s \o t) = 1..Len(s) + Len(t)
        /\ \A i \in 1..Len(s) : (s \o t)[i] = s[i]
        /\ \A i \in 1..Len(t) : (s \o t)[Len(s) + i] = t[i]
    OBVIOUS
  <1>2. \A i \in 1..Len(s) + Len(t) :
          \/ i \in 1..Len(s) /\ (s \o t)[i] = s[i]
          \/ /\ i \notin 1..Len(s) /\ i - Len(s) \in 1..Len(t)
             /\ (s \o t)[i] = t[i - Len(s)]
    BY <1>1
  <1>3. ToSet(s \o t) = ToSet(s) \cup ToSet(t)
    <2>1. \A i \in 1..Len(s) : i \in 1..Len(s) + Len(t)
      BY <1>1
    <2>2. \A i \in 1..Len(t) : Len(s) + i \in 1..Len(s) + Len(t)
      BY <1>1
    <2> QED BY <1>1, <1>2, <2>1, <2>2 DEF ToSet
  <1>4. ASSUME IsInjective(s), IsInjective(t), ToSet(s) \cap ToSet(t) = {},
               NEW i \in 1..Len(s) + Len(t), NEW j \in 1..Len(s) + Len(t),
               (s \o t)[i] = (s \o t)[j]
        PROVE  i = j
    <2>1. CASE i \in 1..Len(s) /\ j \in 1..Len(s)
      BY <1>1, <1>4, <2>1 DEF IsInjective
    <2>2. CASE i \notin 1..Len(s) /\ j \notin 1..Len(s)
      <3> DEFINE a == i - Len(s)
                 b == j - Len(s)
      <3>1. a \in 1..Len(t) /\ b \in 1..Len(t) /\ t[a] = t[b]
        BY <1>2, <1>4, <2>2
      <3>2. \A x, y \in 1..Len(t) : t[x] = t[y] => x = y
        BY <1>1, <1>4 DEF IsInjective
      <3>3. a = b
        BY <3>1, <3>2
      <3> QED BY <1>1, <3>3
    <2>3. ASSUME NEW k \in 1..Len(s) + Len(t), NEW m \in 1..Len(s) + Len(t),
                 k \in 1..Len(s), m \notin 1..Len(s), (s \o t)[k] = (s \o t)[m]
          PROVE  FALSE
      <3>1. s[k] \in ToSet(s)
        BY <1>1, <2>3 DEF ToSet
      <3>2. t[m - Len(s)] \in ToSet(t)
        BY <1>1, <1>2, <2>3 DEF ToSet
      <3>3. s[k] = t[m - Len(s)]
        BY <1>2, <2>3
      <3> QED BY <1>4, <3>1, <3>2, <3>3
    <2> QED BY <1>4, <2>1, <2>2, <2>3
  <1> QED BY <1>1, <1>3, <1>4 DEF IsInjective

LEMMA AppendNotEmpty ==
  ASSUME NEW S, NEW s \in Seq(S), NEW x \in S
  PROVE  Append(s, x) # <<>>
  <1>1. Len(Append(s, x)) = Len(s) + 1 /\ Len(s) \in Nat /\ Len(<<>>) = 0
    OBVIOUS
  <1> QED BY <1>1

LEMMA EmptyHolds == ToSet(<<>>) = {} /\ IsInjective(<<>>)
  BY DEF ToSet, IsInjective
-----------------------------------------------------------------------------
(* What can happen to the chains. *)
ChainNext ==
  \/ \E c \in Chains, n \in 1..MaxSteps, q \in Queries : AddQuery(c, n, q)
  \/ \E c \in Chains, n \in 1..MaxSteps, q \in Queries : BeginAdd(c, n, q)
  \/ EndAdd \/ NothingToProcess
  \/ \E q \in Queries : SetNextQuery(q)
  \/ \E q \in Queries, how \in {"ready", "broken"} : Settle(q, how)
  \/ ProcessReadyQueries \/ NotReady \/ Invoke \/ InvokeThrows \/ Return \/ EndRound
  \/ DestroyProcessor

(* When chains are dropped, and when a callback runs. *)
Phase == /\ dropped => pc \in {"destructor", "destroyed", "terminated"}
         /\ current # None => pc \in {"round", "undefined"}

LEMMA NewOnes == /\ CanAsk => Unasked \in Queries
                 /\ CanAdd => Unasked \in Queries /\ NewChain \in Chains
                 /\ 1 \in 1..MaxSteps
  BY ChainsAssumption DEF CanAsk, CanAdd, Unasked, NewChain

LEMMA ChainStep == [Next]_vars => [ChainNext]_chainVars
  <1> SUFFICES ASSUME [Next]_vars PROVE ChainNext \/ UNCHANGED chainVars
    OBVIOUS
  <1>1. CASE UNCHANGED vars
    BY <1>1 DEF vars
  <1>2. CASE (\E p \in Producers : ForeignSends(p)) \/ NetSends
    BY <1>2 DEF ForeignSends, NetSends
  <1>3. CASE NetStep
    <2>1. CASE AddNewSocket \/ Drain \/ EndDrain \/ \E ok \in BOOLEAN : BaseUpdate(ok)
      BY <2>1 DEF AddNewSocket, Drain, EndDrain, BaseUpdate
    <2>2. CASE Poll \/ Visit \/ EndUpdate
      BY <2>2 DEF Poll, Visit, EndUpdate, ChainNext
    <2> QED BY <1>3, <2>1, <2>2 DEF NetStep
  <1>4. CASE NetAsks
    <2>1. CASE CanAsk /\ SetNextQuery(Unasked)
      BY <2>1, NewOnes DEF ChainNext
    <2>2. ASSUME CanAdd, NEW n \in 1..MaxSteps, AddQuery(NewChain, n, Unasked)
          PROVE  ChainNext
      BY <2>2, NewOnes DEF ChainNext
    <2> QED BY <1>4, <2>1, <2>2 DEF NetAsks
  <1>5. CASE Start
    BY <1>5, NewOnes DEF Start, ChainNext
  <1>6. CASE IoAsks
    BY <1>6, NewOnes DEF IoAsks, ChainNext
  <1>7. CASE delayed_close_socket \/ close_socket \/ BeginUpdate \/ RunEnds \/ IoCorrupts
    BY <1>7 DEF delayed_close_socket, close_socket, BeginUpdate, RunEnds, IoCorrupts
  <1>8. CASE IoAdded \/ Answers \/ Destroy \/ DestroyQueue
    BY <1>8 DEF IoAdded, Answers, Destroy, DestroyQueue, ChainNext
  <1> QED
    BY <1>1, <1>2, <1>3, <1>4, <1>5, <1>6, <1>7, <1>8 DEF Next

LEMMA PhaseStays == Phase /\ [Next]_vars => Phase'
  <1> SUFFICES ASSUME Phase, [Next]_vars PROVE Phase'
    OBVIOUS
  <1>1. CASE UNCHANGED <<chainVars, pc>>
    BY <1>1 DEF Phase, chainVars
  <1>2. CASE UNCHANGED vars
    BY <1>1, <1>2 DEF vars, socketVars
  <1>3. CASE (\E p \in Producers : ForeignSends(p)) \/ NetSends
    BY <1>1, <1>3 DEF ForeignSends, NetSends, socketVars
  <1>4. CASE NetStep
    <2>1. CASE AddNewSocket \/ Drain \/ EndDrain \/ \E ok \in BOOLEAN : BaseUpdate(ok)
      BY <2>1 DEF AddNewSocket, Drain, EndDrain, BaseUpdate, Phase, chainVars
    <2>2. CASE Poll
      BY <2>2 DEF Poll, NothingToProcess, ProcessReadyQueries, Phase, InRound
    <2>3. CASE Visit
      <3>1. CASE (NotReady \/ Invoke \/ Return) /\ UNCHANGED pc
        <4>1. pc' = "round" /\ UNCHANGED dropped
          BY <2>3, <3>1 DEF Visit, NotReady, Invoke, Return
        <4> QED BY <2>3, <4>1 DEF Visit, Phase
      <3>2. CASE InvokeThrows /\ pc' = "terminated"
        BY <3>2 DEF InvokeThrows, Phase
      <3> QED BY <2>3, <3>1, <3>2 DEF Visit
    <2>4. CASE EndUpdate
      BY <2>4 DEF EndUpdate, EndRound, Phase
    <2> QED BY <1>4, <2>1, <2>2, <2>3, <2>4 DEF NetStep
  <1>5. CASE NetAsks \/ IoAsks \/ IoAdded \/ Start
    <2>1. \A c, n, q : AddQuery(c, n, q) \/ BeginAdd(c, n, q) \/ SetNextQuery(q) \/ EndAdd
                        => UNCHANGED <<current, dropped>>
      BY DEF AddQuery, BeginAdd, SetNextQuery, EndAdd
    <2>2. CASE Start
      BY <2>1, <2>2 DEF Start, Phase
    <2>3. CASE NetAsks \/ IoAsks \/ IoAdded
      <3>1. UNCHANGED <<current, dropped, pc>>
        BY <2>1, <2>3 DEF NetAsks, IoAsks, IoAdded, socketVars
      <3> QED BY <3>1 DEF Phase
    <2> QED BY <1>5, <2>2, <2>3
  <1>6. CASE delayed_close_socket \/ close_socket
    BY <1>1, <1>6 DEF delayed_close_socket, close_socket
  <1>7. CASE Answers
    BY <1>7 DEF Answers, Settle, Phase, socketVars
  <1>8. CASE AddNewSocket \/ BeginUpdate \/ RunEnds \/ Destroy \/ DestroyQueue
    BY <1>8 DEF AddNewSocket, BeginUpdate, RunEnds, Destroy, DestroyProcessor, DestroyQueue,
       Phase, chainVars
  <1>9. CASE IoCorrupts
    BY <1>9 DEF IoCorrupts, Phase, chainVars, Held
  <1> QED
    BY <1>2, <1>3, <1>4, <1>5, <1>6, <1>7, <1>8, <1>9 DEF Next
-----------------------------------------------------------------------------
(* The types of what ResultsInOrder and NoneForgotten are about. *)
ChainTypes ==
  /\ answer \in [Queries -> {"unused", "pending", "ready", "broken"}]
  /\ future \in [Chains -> Queries \cup {None}]
  /\ callbacks \in Seq(Chains) /\ round \in Seq(Chains) /\ kept \in Seq(Chains)
  /\ adding \in Chains \cup {None} /\ torn \subseteq Chains
  /\ current \in Chains \cup {None} /\ dropped \in BOOLEAN
  /\ asked \in [Chains -> Seq(Queries)] /\ called \in [Chains -> Seq(Queries)]
  /\ finished \subseteq Chains

LEMMA ChainTypesStay == ChainTypes /\ [ChainNext]_chainVars => ChainTypes'
  <1> SUFFICES ASSUME ChainTypes, [ChainNext]_chainVars PROVE ChainTypes'
    OBVIOUS
  <1> USE DEF ChainTypes
  <1>0. round # <<>> => Head(round) \in Chains /\ Tail(round) \in Seq(Chains)
    OBVIOUS
  <1>a. Touches => adding' \in Chains \cup {None} /\ torn' \subseteq Chains
    BY DEF Touches
  <1>b. UNCHANGED others => adding' \in Chains \cup {None} /\ torn' \subseteq Chains
    BY DEF others
  <1>c. ASSUME NEW c \in Chains, NEW q \in Queries, Ask(c, q)
        PROVE  /\ answer' \in [Queries -> {"unused", "pending", "ready", "broken"}]
               /\ future' \in [Chains -> Queries \cup {None}]
               /\ asked' \in [Chains -> Seq(Queries)]
    <2>1. Append(asked[c], q) \in Seq(Queries)
      OBVIOUS
    <2>2. asked' \in [Chains -> Seq(Queries)]
      BY <1>c, <2>1 DEF Ask
    <2> QED BY <1>c, <2>2 DEF Ask
  <1>1. CASE UNCHANGED chainVars
    BY <1>1 DEF chainVars
  <1>2. ASSUME NEW c \in Chains, NEW n \in 1..MaxSteps, NEW q \in Queries, AddQuery(c, n, q)
        PROVE  ChainTypes'
    <2>1. callbacks' \in Seq(Chains)
      BY <1>2 DEF AddQuery
    <2>2. Ask(c, q) /\ Touches /\ UNCHANGED <<round, kept, current, dropped, called, finished>>
      BY <1>2 DEF AddQuery
    <2> QED BY <1>a, <1>c, <2>1, <2>2
  <1>3. ASSUME NEW c \in Chains, NEW n \in 1..MaxSteps, NEW q \in Queries, BeginAdd(c, n, q)
        PROVE  ChainTypes'
    <2>1. /\ Ask(c, q) /\ adding' = c
          /\ UNCHANGED <<callbacks, torn, round, kept, current, dropped, called, finished>>
      BY <1>3 DEF BeginAdd
    <2> QED BY <1>c, <2>1
  <1>4. CASE EndAdd
    <2>1. adding \in Chains /\ adding' = None
      BY <1>4 DEF EndAdd
    <2>2. callbacks' \in Seq(Chains)
      <3>1. Append(callbacks, adding) \in Seq(Chains)
        BY <2>1
      <3> QED BY <1>4, <3>1 DEF EndAdd
    <2>3. UNCHANGED <<answer, future, torn, round, kept, current, dropped, asked, called,
                      finished>>
      BY <1>4 DEF EndAdd
    <2> QED BY <2>1, <2>2, <2>3
  <1>5. ASSUME NEW q \in Queries, SetNextQuery(q) PROVE ChainTypes'
    <2>1. current \in Chains /\ Ask(current, q) /\ UNCHANGED others
      BY <1>5 DEF SetNextQuery
    <2>2. UNCHANGED <<callbacks, round, kept, current, dropped, called, finished>>
      BY <1>5 DEF SetNextQuery
    <2> QED BY <1>b, <1>c, <2>1, <2>2
  <1>6. ASSUME NEW q \in Queries, NEW how \in {"ready", "broken"}, Settle(q, how)
        PROVE  ChainTypes'
    BY <1>b, <1>6 DEF Settle
  <1>7. CASE ProcessReadyQueries \/ NothingToProcess
    <2>1. <<>> \in Seq(Chains)
      OBVIOUS
    <2>2. CASE ProcessReadyQueries
      BY <1>a, <2>1, <2>2 DEF ProcessReadyQueries
    <2>3. CASE NothingToProcess
      BY <1>a, <2>3 DEF NothingToProcess
    <2> QED BY <1>7, <2>2, <2>3
  <1>8. CASE NotReady
    BY <1>0, <1>b, <1>8 DEF NotReady
  <1>9. CASE Invoke
    <2> DEFINE h == Head(round)
    <2>1. h \in Chains /\ future[h] \in Queries
      BY <1>0, <1>9 DEF Invoke, Ready
    <2>2. Append(called[h], future[h]) \in Seq(Queries)
      BY <2>1
    <2>3. called' \in [Chains -> Seq(Queries)]
      BY <1>9, <2>2 DEF Invoke
    <2>4. future' \in [Chains -> Queries \cup {None}]
      BY <1>9, <2>1 DEF Invoke
    <2> HIDE DEF h
    <2> QED BY <1>0, <1>b, <1>9, <2>1, <2>3, <2>4 DEF Invoke, h
  <1>10. CASE InvokeThrows
    <2>1. future' \in [Chains -> Queries \cup {None}]
      BY <1>0, <1>10 DEF InvokeThrows
    <2>2. round' \in Seq(Chains) /\ kept' \in Seq(Chains) /\ dropped' \in BOOLEAN
      BY <1>10 DEF InvokeThrows
    <2> QED BY <1>b, <1>10, <2>1, <2>2 DEF InvokeThrows
  <1>11. CASE Return
    <2>1. current \in Chains
      BY <1>11 DEF Return
    <2>2. kept' \in Seq(Chains)
      <3>1. Append(kept, current) \in Seq(Chains)
        BY <2>1
      <3>2. kept' = kept \/ kept' = Append(kept, current)
        BY <1>11 DEF Return
      <3> QED BY <3>1, <3>2
    <2>3. finished' \subseteq Chains /\ current' \in Chains \cup {None}
      BY <1>11, <2>1 DEF Return
    <2> QED BY <1>b, <1>11, <2>2, <2>3 DEF Return
  <1>12. CASE EndRound \/ DestroyProcessor
    <2>1. callbacks' \in Seq(Chains) /\ kept' \in Seq(Chains) /\ dropped' \in BOOLEAN
      <3>1. callbacks \o kept \in Seq(Chains) /\ <<>> \in Seq(Chains)
        OBVIOUS
      <3> QED BY <1>12, <3>1 DEF EndRound, DestroyProcessor
    <2> QED BY <1>a, <1>b, <1>12, <2>1 DEF EndRound, DestroyProcessor
  <1> QED
    BY <1>1, <1>2, <1>3, <1>4, <1>5, <1>6, <1>7, <1>8, <1>9, <1>10, <1>11, <1>12 DEF ChainNext

LEMMA OrderStays ==
  ChainTypes /\ ResultsInOrder /\ [ChainNext]_chainVars => ResultsInOrder'
  <1> SUFFICES ASSUME ChainTypes, ResultsInOrder, [ChainNext]_chainVars, ~dropped'
               PROVE  \A c \in Chains :
                        asked'[c] = IF future'[c] = None THEN called'[c]
                                    ELSE Append(called'[c], future'[c])
    BY DEF ResultsInOrder
  <1> USE DEF ChainTypes
  <1>1. CASE UNCHANGED chainVars
    BY <1>1 DEF chainVars, ResultsInOrder
  <1>a. ~dropped
    BY <1>1 DEF chainVars, ChainNext, AddQuery, BeginAdd, EndAdd, NothingToProcess, SetNextQuery,
       Settle, ProcessReadyQueries, NotReady, Invoke, InvokeThrows, Return, EndRound,
       DestroyProcessor
  <1>b. \A c \in Chains : asked[c] = IF future[c] = None THEN called[c]
                                     ELSE Append(called[c], future[c])
    BY <1>a DEF ResultsInOrder
  <1>2. ASSUME NEW d \in Chains, NEW n \in 1..MaxSteps, NEW q \in Queries,
               AddQuery(d, n, q) \/ BeginAdd(d, n, q), NEW c \in Chains
        PROVE  asked'[c] = IF future'[c] = None THEN called'[c]
                           ELSE Append(called'[c], future'[c])
    <2>a. asked[d] = <<>> /\ Ask(d, q) /\ UNCHANGED called
      BY <1>2 DEF AddQuery, BeginAdd
    <2>1. CASE c = d
      <3>1. called[d] = <<>>
        BY <2>a, <1>b
      <3> QED BY <2>a, <2>1, <3>1, ChainsAssumption DEF Ask
    <2>2. CASE c # d
      BY <2>a, <1>b, <2>2 DEF Ask
    <2> QED BY <2>1, <2>2
  <1>3. ASSUME NEW q \in Queries, SetNextQuery(q), NEW c \in Chains
        PROVE  asked'[c] = IF future'[c] = None THEN called'[c]
                           ELSE Append(called'[c], future'[c])
    <2>1. current \in Chains /\ asked[current] = called[current]
      BY <1>3, <1>b DEF SetNextQuery
    <2> QED BY <1>3, <1>b, <2>1, ChainsAssumption DEF SetNextQuery, Ask
  <1>4. CASE Invoke
    <2> TAKE c \in Chains
    <2> DEFINE h == Head(round)
    <2>1. h \in Chains /\ future[h] # None
      BY <1>4 DEF Invoke, Ready
    <2>2. CASE c = h
      BY <1>4, <1>b, <2>1, <2>2 DEF Invoke
    <2>3. CASE c # h
      BY <1>4, <1>b, <2>1, <2>3 DEF Invoke
    <2> QED BY <2>2, <2>3
  <1>5. CASE UNCHANGED <<asked, future, called>>
    BY <1>5, <1>b
  <1>6. CASE \E q \in Queries, how \in {"ready", "broken"} : Settle(q, how)
    BY <1>5, <1>6 DEF Settle
  <1>7. CASE \/ EndAdd \/ NothingToProcess \/ ProcessReadyQueries \/ NotReady \/ InvokeThrows
             \/ Return \/ EndRound \/ DestroyProcessor
    <2>1. CASE EndAdd \/ NothingToProcess \/ ProcessReadyQueries \/ NotReady \/ Return
      BY <1>5, <2>1 DEF EndAdd, NothingToProcess, ProcessReadyQueries, NotReady, Return
    <2>2. CASE InvokeThrows \/ EndRound \/ DestroyProcessor
      BY <1>5, <2>2 DEF InvokeThrows, EndRound, DestroyProcessor
    <2> QED BY <1>7, <2>1, <2>2
  <1> QED
    BY <1>1, <1>2, <1>3, <1>4, <1>6, <1>7 DEF ChainNext

LEMMA ChainTypesAlways == Spec => []ChainTypes
  <1>1. Init => ChainTypes
    <2> SUFFICES ASSUME ChainsInit PROVE ChainTypes
      BY DEF Init
    <2>1. /\ answer \in [Queries -> {"unused", "pending", "ready", "broken"}]
          /\ future \in [Chains -> Queries \cup {None}]
      BY DEF ChainsInit
    <2>2. asked \in [Chains -> Seq(Queries)] /\ called \in [Chains -> Seq(Queries)]
      <3>1. <<>> \in Seq(Queries)
        OBVIOUS
      <3> QED BY <3>1 DEF ChainsInit
    <2>3. callbacks \in Seq(Chains) /\ round \in Seq(Chains) /\ kept \in Seq(Chains)
      BY DEF ChainsInit
    <2>4. adding \in Chains \cup {None} /\ torn \subseteq Chains
      BY DEF ChainsInit
    <2> QED BY <2>1, <2>2, <2>3, <2>4 DEF ChainsInit, ChainTypes
  <1> QED BY <1>1, ChainTypesStay, ChainStep, PTL DEF Spec

(* query_callback.cpp:187-219: whatever is asked, answered and moved in the
   meantime, a chain's callbacks get the results of the queries given to the
   chain, each once and in their order. *)
THEOREM SocketResultsInOrder == Spec => []ResultsInOrder
  <1>1. Init => ResultsInOrder
    BY DEF Init, ChainsInit, ResultsInOrder
  <1> QED BY <1>1, OrderStays, ChainTypesAlways, ChainStep, PTL DEF Spec
-----------------------------------------------------------------------------
(* NoneForgotten without its hypothesis: where the unfinished chains are. *)
Running == {current} \ {None}
Elsewhere == {adding} \ {None}

Places ==
  /\ IsInjective(callbacks) /\ IsInjective(round) /\ IsInjective(kept)
  /\ ToSet(callbacks) \cap (ToSet(round) \cup ToSet(kept) \cup Running \cup Elsewhere) = {}
  /\ ToSet(round) \cap (ToSet(kept) \cup Running \cup Elsewhere) = {}
  /\ ToSet(kept) \cap (Running \cup Elsewhere) = {} /\ Running \cap Elsewhere = {}

Waiting == ToSet(callbacks) \cup ToSet(round) \cup ToSet(kept) \cup Running \cup Elsewhere

Begun == {c \in Chains : asked[c] # <<>>}

(* Only a chain that was begun is finished. *)
AllHeld == /\ Waiting \subseteq Begun \ finished /\ (Begun \ finished) \ torn \subseteq Waiting
           /\ finished \subseteq Begun

PlaceInv == ~dropped => Places /\ AllHeld

LEMMA PlacesStay ==
  ChainTypes /\ PlaceInv /\ [ChainNext]_chainVars => PlaceInv'
  <1> SUFFICES ASSUME ChainTypes, PlaceInv, [ChainNext]_chainVars, ~dropped'
               PROVE  Places' /\ AllHeld'
    BY DEF PlaceInv
  <1> DEFINE Kept == Places' /\ AllHeld'
  <1>a. ~dropped
    BY DEF chainVars, ChainNext, AddQuery, BeginAdd, EndAdd, NothingToProcess, SetNextQuery,
       Settle, ProcessReadyQueries, NotReady, Invoke, InvokeThrows, Return, EndRound,
       DestroyProcessor
  <1>b. Places /\ AllHeld
    BY <1>a DEF PlaceInv
  <1>c. /\ callbacks \in Seq(Chains) /\ round \in Seq(Chains) /\ kept \in Seq(Chains)
        /\ current \in Chains \cup {None} /\ finished \subseteq Chains
        /\ adding \in Chains \cup {None}
        /\ asked \in [Chains -> Seq(Queries)] /\ None \notin Chains
    BY ChainsAssumption DEF ChainTypes
  <1>d. /\ Touches => torn \subseteq torn' /\ Elsewhere' = Elsewhere
        /\ UNCHANGED others => torn' = torn /\ Elsewhere' = Elsewhere
    BY DEF Touches, others, Elsewhere
  <1>1. ASSUME UNCHANGED <<callbacks, round, kept, current, asked, finished>>,
               torn \subseteq torn', Elsewhere' = Elsewhere
        PROVE  Kept
    BY <1>1, <1>b DEF Places, AllHeld, Waiting, Begun, Running
  <1>e. ASSUME NEW c \in Chains, NEW q \in Queries, Ask(c, q)
        PROVE  Begun' = Begun \cup {c}
    <2>1. asked[c] \in Seq(Queries)
      BY <1>c
    <2>2. Append(asked[c], q) # <<>>
      BY <2>1, AppendNotEmpty
    <2>3. asked' = [asked EXCEPT ![c] = Append(@, q)]
      BY <1>e DEF Ask
    <2> QED BY <1>c, <2>2, <2>3 DEF Begun
  <1>2. ASSUME NEW c \in Chains, NEW n \in 1..MaxSteps, NEW q \in Queries, AddQuery(c, n, q)
        PROVE  Kept
    <2>1. c \notin Begun /\ c \notin Waiting
      BY <1>2, <1>b DEF AddQuery, Begun, AllHeld
    <2>2. /\ ToSet(callbacks') = ToSet(callbacks) \cup {c} /\ IsInjective(callbacks')
          /\ UNCHANGED <<round, kept, current, finished>>
      BY <1>2, <1>b, <1>c, <2>1, AppendHolds DEF AddQuery, Places, Waiting
    <2>3. Begun' = Begun \cup {c} /\ torn \subseteq torn' /\ Elsewhere' = Elsewhere
      BY <1>2, <1>d, <1>e DEF AddQuery
    <2>4. Running' = Running /\ Waiting' = Waiting \cup {c}
      BY <2>2, <2>3 DEF Running, Waiting
    <2>5. Places'
      BY <1>b, <2>1, <2>2, <2>3, <2>4 DEF Places, Waiting
    <2>6. AllHeld'
      BY <1>b, <2>1, <2>2, <2>3, <2>4 DEF AllHeld
    <2> QED BY <2>5, <2>6
  <1>3. ASSUME NEW c \in Chains, NEW n \in 1..MaxSteps, NEW q \in Queries, BeginAdd(c, n, q)
        PROVE  Kept
    <2>1. c \notin Begun /\ c \notin Waiting
      BY <1>3, <1>b DEF BeginAdd, Begun, AllHeld
    <2>2. Elsewhere = {} /\ Elsewhere' = {c}
      BY <1>3, <1>c DEF BeginAdd, Elsewhere
    <2>3. UNCHANGED <<callbacks, round, kept, current, finished, torn>>
      BY <1>3 DEF BeginAdd
    <2>4. Begun' = Begun \cup {c}
      BY <1>3, <1>e DEF BeginAdd
    <2>5. Running' = Running /\ Waiting' = Waiting \cup {c}
      BY <2>2, <2>3 DEF Running, Waiting
    <2>6. Places'
      BY <1>b, <2>1, <2>2, <2>3, <2>5 DEF Places, Waiting
    <2>7. AllHeld'
      BY <1>b, <2>1, <2>3, <2>4, <2>5 DEF AllHeld
    <2> QED BY <2>6, <2>7
  <1>4. CASE EndAdd
    <2>1. adding \in Chains /\ Elsewhere = {adding} /\ Elsewhere' = {}
      BY <1>4, <1>c DEF EndAdd, Elsewhere
    <2>2. UNCHANGED <<round, kept, current, asked, finished, torn>> /\ Begun' = Begun
      BY <1>4 DEF EndAdd, Begun
    <2>3. Running' = Running
      BY <2>2 DEF Running
    <2>4. CASE callbacks' = Append(callbacks, adding)
      <3>1. adding \notin ToSet(callbacks)
        BY <1>b, <2>1 DEF Places
      <3>2. ToSet(callbacks') = ToSet(callbacks) \cup {adding} /\ IsInjective(callbacks')
        BY <1>b, <1>c, <2>1, <2>4, <3>1, AppendHolds DEF Places
      <3>3. Waiting' = Waiting
        BY <2>1, <2>2, <2>3, <3>2 DEF Waiting
      <3>4. Places'
        BY <1>b, <2>1, <2>2, <2>3, <3>2 DEF Places
      <3> QED BY <1>b, <2>2, <3>3, <3>4 DEF AllHeld
    <2>5. CASE adding \in torn /\ UNCHANGED callbacks
      <3>1. Waiting' \cup {adding} = Waiting
        BY <2>1, <2>2, <2>3, <2>5 DEF Waiting
      <3>2. Places'
        BY <1>b, <2>1, <2>2, <2>3, <2>5 DEF Places
      <3> QED BY <1>b, <2>2, <2>5, <3>1, <3>2 DEF AllHeld
    <2> QED BY <1>4, <2>4, <2>5 DEF EndAdd
  <1>5. ASSUME NEW q \in Queries, SetNextQuery(q) PROVE Kept
    <2>1. current \in Chains /\ current \in Begun
      BY <1>5, <1>b, <1>c DEF SetNextQuery, Waiting, Running, AllHeld
    <2>2. Begun' = Begun
      BY <1>5, <1>e, <2>1 DEF SetNextQuery
    <2>3. torn' = torn /\ Elsewhere' = Elsewhere
      BY <1>5, <1>d DEF SetNextQuery
    <2>4. UNCHANGED <<callbacks, round, kept, current, finished>>
      BY <1>5 DEF SetNextQuery
    <2>5. Running' = Running /\ Waiting' = Waiting
      BY <2>3, <2>4 DEF Running, Waiting
    <2> QED BY <1>b, <2>2, <2>3, <2>4, <2>5 DEF Places, AllHeld
  <1>6. CASE \/ NothingToProcess \/ \E q \in Queries, how \in {"ready", "broken"} : Settle(q, how)
    BY <1>1, <1>d, <1>6 DEF Settle, NothingToProcess
  <1>7. CASE ProcessReadyQueries
    <2>1. /\ round' = callbacks /\ callbacks' = <<>> /\ round = <<>> /\ kept = <<>>
          /\ UNCHANGED <<kept, current, asked, finished>>
      BY <1>7 DEF ProcessReadyQueries, InRound
    <2>2. torn \subseteq torn' /\ Elsewhere' = Elsewhere
      BY <1>7, <1>d DEF ProcessReadyQueries
    <2>3. Running' = Running /\ Begun' = Begun
      BY <2>1 DEF Running, Begun
    <2>4. Waiting' = Waiting
      BY <2>1, <2>2, <2>3, EmptyHolds DEF Waiting
    <2>5. Places'
      BY <1>b, <2>1, <2>2, <2>3, EmptyHolds DEF Places
    <2> QED BY <1>b, <2>1, <2>2, <2>3, <2>4, <2>5 DEF AllHeld
  <1>8. ASSUME round # <<>>, current = None, round' = Tail(round),
               UNCHANGED <<callbacks, asked, finished, others>>,
               \/ kept' = Append(kept, Head(round)) /\ UNCHANGED current
               \/ current' = Head(round) /\ UNCHANGED kept
        PROVE  Kept
    <2> DEFINE h == Head(round)
    <2>1. /\ h \in Chains /\ ToSet(round) = ToSet(round') \cup {h}
          /\ IsInjective(round') /\ h \notin ToSet(round')
      BY <1>8, <1>b, <1>c, TailHolds DEF Places
    <2>2. torn' = torn /\ Elsewhere' = Elsewhere /\ Begun' = Begun /\ Running = {}
      BY <1>8, <1>d DEF Begun, Running
    <2>3. h \notin ToSet(kept) /\ h \notin ToSet(callbacks) /\ h \notin Elsewhere
      <3> HIDE DEF h
      <3> QED BY <1>b, <2>1 DEF Places
    <2>4. CASE kept' = Append(kept, h) /\ UNCHANGED current
      <3>1. ToSet(kept') = ToSet(kept) \cup {h} /\ IsInjective(kept')
        BY <1>c, <1>b, <2>1, <2>3, <2>4, AppendHolds DEF Places
      <3>2. Running' = {} /\ UNCHANGED <<callbacks, finished>>
        BY <1>8, <2>2, <2>4 DEF Running
      <3> HIDE DEF h
      <3>3. Waiting' = Waiting
        BY <2>1, <2>2, <3>1, <3>2 DEF Waiting
      <3>4. Places'
        BY <1>b, <2>1, <2>2, <2>3, <3>1, <3>2 DEF Places
      <3> QED BY <1>b, <2>2, <3>2, <3>3, <3>4 DEF AllHeld
    <2>5. CASE current' = h /\ UNCHANGED kept
      <3>1. Running' = {h} /\ UNCHANGED <<callbacks, finished>>
        BY <1>8, <1>c, <2>1, <2>5 DEF Running
      <3> HIDE DEF h
      <3>2. Waiting' = Waiting
        BY <2>1, <2>2, <2>5, <3>1 DEF Waiting
      <3>3. Places'
        BY <1>b, <2>1, <2>2, <2>3, <2>5, <3>1 DEF Places
      <3> QED BY <1>b, <2>2, <3>1, <3>2, <3>3 DEF AllHeld
    <2> QED BY <1>8, <2>4, <2>5
  <1>9. CASE NotReady \/ Invoke
    BY <1>8, <1>9 DEF NotReady, Invoke
  <1>10. CASE Return
    <2>1. current \in Chains /\ Running = {current} /\ Running' = {}
      BY <1>10, <1>c DEF Return, Running
    <2>2. current \in Begun /\ current \notin finished
      BY <1>b, <2>1 DEF Waiting, AllHeld
    <2>3. UNCHANGED <<callbacks, round, asked>> /\ Begun' = Begun
      BY <1>10 DEF Return, Begun
    <2>4. torn' = torn /\ Elsewhere' = Elsewhere
      BY <1>10, <1>d DEF Return
    <2>5. /\ current \notin ToSet(callbacks) /\ current \notin ToSet(round)
          /\ current \notin ToSet(kept) /\ current \notin Elsewhere
      BY <1>b, <2>1 DEF Places
    <2>6. CASE finished' = finished \cup {current} /\ UNCHANGED kept
      <3>1. Waiting = Waiting' \cup {current} /\ current \notin Waiting'
        BY <2>1, <2>3, <2>4, <2>5, <2>6 DEF Waiting
      <3>2. Places'
        BY <1>b, <2>1, <2>3, <2>4, <2>6 DEF Places
      <3> QED BY <1>b, <2>2, <2>3, <2>4, <2>6, <3>1, <3>2 DEF AllHeld
    <2>7. CASE kept' = Append(kept, current) /\ UNCHANGED finished
      <3>1. ToSet(kept') = ToSet(kept) \cup {current} /\ IsInjective(kept')
        BY <1>b, <1>c, <2>1, <2>5, <2>7, AppendHolds DEF Places
      <3>2. Waiting' = Waiting
        BY <2>1, <2>3, <2>4, <3>1 DEF Waiting
      <3>3. Places'
        BY <1>b, <2>1, <2>3, <2>4, <2>5, <3>1 DEF Places
      <3> QED BY <1>b, <2>3, <2>4, <2>7, <3>2, <3>3 DEF AllHeld
    <2> QED BY <1>10, <2>6, <2>7 DEF Return
  <1>11. CASE EndRound
    <2>1. ToSet(callbacks') = ToSet(callbacks) \cup ToSet(kept) /\ IsInjective(callbacks')
      BY <1>11, <1>b, <1>c, ConcatHolds DEF EndRound, Places
    <2>2. kept' = <<>> /\ UNCHANGED <<round, current, asked, finished>>
      BY <1>11 DEF EndRound
    <2>3. torn \subseteq torn' /\ Elsewhere' = Elsewhere
      BY <1>11, <1>d DEF EndRound
    <2>4. Running' = Running /\ Begun' = Begun
      BY <2>2 DEF Running, Begun
    <2>5. Waiting' = Waiting
      BY <2>1, <2>2, <2>3, <2>4, EmptyHolds DEF Waiting
    <2>6. Places'
      BY <1>b, <2>1, <2>2, <2>3, <2>4, EmptyHolds DEF Places
    <2> QED BY <1>b, <2>2, <2>3, <2>4, <2>5, <2>6 DEF AllHeld
  <1>12. CASE InvokeThrows \/ DestroyProcessor
    BY <1>12 DEF InvokeThrows, DestroyProcessor
  <1>13. CASE UNCHANGED chainVars
    BY <1>1, <1>13 DEF chainVars, Elsewhere
  <1> QED
    BY <1>2, <1>3, <1>4, <1>5, <1>6, <1>7, <1>9, <1>10, <1>11, <1>12, <1>13 DEF ChainNext

LEMMA PlacesAlways == Spec => []PlaceInv
  <1>1. Init => PlaceInv
    BY EmptyHolds
       DEF Init, ChainsInit, PlaceInv, Places, AllHeld, Waiting, Begun, Running, Elsewhere
  <1> QED BY <1>1, PlacesStay, ChainTypesAlways, ChainStep, PTL DEF Spec

(* query_callback_processor.cpp:19-26: no chain that waits is lost or doubled
   between the processor's vector and a round's, whatever callbacks and the io
   thread add, but for a chain whose add_query the network thread tore. *)
THEOREM SocketForgetsNone == Spec => []NoneForgotten
  <1>1. PlaceInv => NoneForgotten
    BY DEF PlaceInv, Places, AllHeld, Waiting, Begun, Running, Elsewhere, NoneForgotten
  <1> QED BY <1>1, PlacesAlways, PTL
-----------------------------------------------------------------------------
(* A chain that waits has a callback left: what check_state_and_return_completion
   relies on when it pops one. *)
StepsInv == /\ steps \in [Chains -> 0..MaxSteps]
            /\ \A c \in Begun \ finished : steps[c] > 0

LEMMA StepsStay ==
  ChainTypes /\ PlaceInv /\ Phase /\ StepsInv /\ [Next]_vars => StepsInv'
  <1> SUFFICES ASSUME ChainTypes, PlaceInv, Phase, StepsInv, [Next]_vars
               PROVE  StepsInv'
    OBVIOUS
  <1>a. /\ steps \in [Chains -> 0..MaxSteps] /\ MaxSteps \in Nat \ {0} /\ None \notin Chains
        /\ current \in Chains \cup {None} /\ asked \in [Chains -> Seq(Queries)]
    BY ChainsAssumption DEF StepsInv, ChainTypes
  <1>1. CASE UNCHANGED <<steps, asked, finished>>
    BY <1>1 DEF StepsInv, Begun
  <1>2. ASSUME NEW c \in Chains, NEW n \in 1..MaxSteps, NEW q \in Queries,
               AddQuery(c, n, q) \/ BeginAdd(c, n, q)
        PROVE  StepsInv'
    <2>1. steps' = [steps EXCEPT ![c] = n] /\ n \in 0..MaxSteps /\ n > 0
      BY <1>2, <1>a DEF AddQuery, BeginAdd
    <2>2. Begun' \subseteq Begun \cup {c} /\ UNCHANGED finished
      <3>1. Ask(c, q) /\ UNCHANGED finished
        BY <1>2 DEF AddQuery, BeginAdd
      <3> QED BY <1>a, <3>1 DEF Ask, Begun
    <2> QED BY <1>a, <2>1, <2>2 DEF StepsInv
  <1>3. ASSUME NEW q \in Queries, SetNextQuery(q) PROVE StepsInv'
    <2>1. current \in Chains /\ UNCHANGED <<steps, finished>> /\ steps[current] > 0
      BY <1>3, <1>a DEF SetNextQuery
    <2>2. Begun' \subseteq Begun \cup {current}
      BY <1>3, <1>a, <2>1 DEF SetNextQuery, Ask, Begun
    <2> QED BY <2>1, <2>2 DEF StepsInv
  <1>4. CASE Return
    <2>1. current \in Chains /\ UNCHANGED asked /\ steps' = [steps EXCEPT ![current] = @ - 1]
      BY <1>4, <1>a DEF Return
    <2>2. ~dropped
      BY <1>4 DEF Return, Phase
    <2>3. steps[current] \in 1..MaxSteps
      <3>1. current \in Begun \ finished
        BY <1>4, <2>1, <2>2 DEF Return, PlaceInv, AllHeld, Waiting, Running
      <3> QED BY <1>a, <2>1, <3>1 DEF StepsInv
    <2>4. steps' \in [Chains -> 0..MaxSteps]
      BY <1>a, <2>1, <2>3
    <2>5. finished' = finished \cup {current} \/ (steps[current] # 1 /\ UNCHANGED finished)
      BY <1>4 DEF Return
    <2> QED BY <1>a, <2>1, <2>3, <2>4, <2>5 DEF StepsInv, Begun
  <1>5. CASE \E q \in Queries, how \in {"ready", "broken"} : Settle(q, how)
    BY <1>1, <1>5 DEF Settle
  <1>6. CASE \/ EndAdd \/ NothingToProcess \/ ProcessReadyQueries \/ NotReady \/ Invoke
             \/ InvokeThrows \/ EndRound \/ DestroyProcessor
    <2>1. CASE EndAdd \/ NothingToProcess \/ ProcessReadyQueries \/ NotReady
      BY <1>1, <2>1 DEF EndAdd, NothingToProcess, ProcessReadyQueries, NotReady
    <2>2. CASE Invoke \/ InvokeThrows \/ EndRound \/ DestroyProcessor
      BY <1>1, <2>2 DEF Invoke, InvokeThrows, EndRound, DestroyProcessor
    <2> QED BY <1>6, <2>1, <2>2
  <1>7. CASE UNCHANGED chainVars
    BY <1>1, <1>7 DEF chainVars
  <1> QED
    BY <1>2, <1>3, <1>4, <1>5, <1>6, <1>7, ChainStep DEF ChainNext

(* The buffers of update(), given that what is dequeued is a packet. *)
SocketTypes ==
  /\ pc \in {"starting", "new", "outside", "drain", "base", "queries", "round", "removed",
             "destructor", "destroyed", "terminated", "undefined"}
  /\ closed \in BOOLEAN /\ closing \in BOOLEAN
  /\ batch \in Seq(Packets) /\ write_queue \in Seq(Seq(Packets))

LEMMA SocketTypesInit == Init => SocketTypes
  <1>1. <<>> \in Seq(Packets) /\ <<>> \in Seq(Seq(Packets))
    OBVIOUS
  <1> QED BY <1>1 DEF Init, SocketTypes

LEMMA SocketTypesStay == Inv /\ SocketTypes /\ [Next]_vars => SocketTypes'
  <1> SUFFICES ASSUME Inv, SocketTypes, [Next]_vars PROVE SocketTypes'
    OBVIOUS
  <1> USE DEF SocketTypes
  <1>1. CASE UNCHANGED socketVars
    BY <1>1 DEF socketVars
  <1>2. CASE \/ (\E p \in Producers : ForeignSends(p)) \/ NetSends \/ NetAsks \/ IoAsks
             \/ IoAdded \/ Answers
    BY <1>1, <1>2 DEF ForeignSends, NetSends, NetAsks, IoAsks, IoAdded, Answers
  <1>3. CASE Drain
    <2> DEFINE e == next[tail]
    <2>1. e \in Packets
      <3>1. Visible
        BY <1>3 DEF Drain, Dequeue
      <3>2. e = order[Len(taken) + 1] /\ Len(taken) + 1 \in 1..Len(order)
        BY <3>1, NextInOrder DEF Inv, QueueTypeOK
      <3> QED BY <3>2 DEF Inv, QueueTypeOK
    <2>2. Append(batch, e) \in Seq(Packets) /\ <<e>> \in Seq(Packets)
      BY <2>1
    <2>3. /\ write_queue \o <<batch>> \in Seq(Seq(Packets))
          /\ write_queue \o <<batch, <<e>>>> \in Seq(Seq(Packets))
      BY <2>2
    <2>4. UNCHANGED <<pc, closed, closing>> /\ (Fits(e) \/ FlushThenFits(e) \/ FlushThenOwn(e))
      BY <1>3 DEF Drain
    <2> HIDE DEF e
    <2>5. write_queue' \in Seq(Seq(Packets))
      BY <2>3, <2>4 DEF Fits, FlushThenFits, FlushThenOwn, QueuePacket
    <2>6. batch' \in Seq(Packets)
      <3>1. <<>> \in Seq(Packets)
        OBVIOUS
      <3> QED BY <2>2, <2>4, <3>1 DEF Fits, FlushThenFits, FlushThenOwn
    <2> QED BY <2>4, <2>5, <2>6
  <1>4. CASE EndDrain
    <2>1. /\ write_queue \o <<batch>> \in Seq(Seq(Packets))
          /\ write_queue \o <<>> \in Seq(Seq(Packets))
      OBVIOUS
    <2>2. write_queue' \in Seq(Seq(Packets))
      BY <1>4, <2>1 DEF EndDrain, QueuePacket
    <2>3. batch' \in Seq(Packets) /\ pc' = "base" /\ UNCHANGED <<closed, closing>>
      BY <1>4 DEF EndDrain
    <2> QED BY <2>2, <2>3
  <1>5. CASE \E ok \in BOOLEAN : BaseUpdate(ok)
    BY <1>5 DEF BaseUpdate
  <1>6. CASE Poll \/ Visit \/ EndUpdate
    BY <1>6 DEF Poll, Visit, EndUpdate
  <1>7. CASE delayed_close_socket \/ close_socket
    BY <1>7 DEF delayed_close_socket, close_socket
  <1>8. CASE Start \/ AddNewSocket \/ BeginUpdate \/ RunEnds
    BY <1>8 DEF Start, AddNewSocket, BeginUpdate, RunEnds
  <1>10. CASE IoCorrupts \/ Destroy \/ DestroyQueue
    BY <1>10 DEF IoCorrupts, Destroy, DestroyQueue
  <1>9. CASE UNCHANGED vars
    BY <1>1, <1>9 DEF vars
  <1> QED
    BY <1>2, <1>3, <1>4, <1>5, <1>6, <1>7, <1>8, <1>9, <1>10 DEF Next, NetStep

(* world_socket.h and query_callback.h: every variable stays in the range of
   its declaration, and no chain that waits is without a callback. *)
THEOREM TypeCorrect == Spec => []TypeOK
  <1>1. Init => Phase /\ StepsInv /\ SocketTypes
    <2>1. Init => Phase /\ StepsInv
      BY ChainsAssumption DEF Init, ChainsInit, Phase, StepsInv, Begun
    <2> QED BY <2>1, SocketTypesInit
  <1>2. Spec => []Phase
    BY <1>1, PhaseStays, PTL DEF Spec
  <1>3. Spec => []StepsInv
    BY <1>1, <1>2, StepsStay, ChainTypesAlways, PlacesAlways, PTL DEF Spec
  <1>4. Spec => []SocketTypes
    BY <1>1, SocketTypesStay, UsesQueue, Always, PTL DEF Spec
  <1>5. ChainTypes /\ StepsInv => ChainsTypeOK
    BY DEF ChainTypes, StepsInv, ChainsTypeOK
  <1>6. QueueTypeOK /\ ChainsTypeOK /\ SocketTypes => TypeOK
    BY DEF SocketTypes, TypeOK
  <1> QED
    BY <1>3, <1>4, <1>5, <1>6, ChainTypesAlways, UsesQueue, QueueTypeCorrect, PTL
-----------------------------------------------------------------------------
(* f[i] is the concatenation of the first i sequences of s: the function that
   FlattenSeq takes the last value of. *)
IsFlat(f, s) == f = [i \in 1..Len(s) |-> IF i = 1 THEN s[i] ELSE f[i-1] \o s[i]]

(* The least of a set of natural numbers. *)
LEMMA LeastOf == ASSUME NEW T, T \subseteq Nat, T # {}
                 PROVE  \E m \in T : \A k \in T : m <= k
  <1> DEFINE R == OpToRel(<, Nat)
  <1>1. IsWellFoundedOn(R, Nat)
    BY NatLessThanWellFounded
  <1>2. \A x, y \in Nat : <<y, x>> \notin R => x <= y
    BY DEF OpToRel
  <1> HIDE DEF R
  <1>3. PICK m \in T : \A k \in T : <<k, m>> \notin R
    BY <1>1, WFMin
  <1>4. \A k \in T : m <= k
    <2> SUFFICES ASSUME NEW k \in T PROVE m <= k
      OBVIOUS
    <2>1. m \in Nat /\ k \in Nat /\ <<k, m>> \notin R
      BY <1>3
    <2> QED BY <1>2, <2>1
  <1> QED BY <1>4

Flat(f, s) == \A i \in 1..Len(s) : f[i] = IF i = 1 THEN s[i] ELSE f[i-1] \o s[i]

LEMMA FlatPoints == ASSUME NEW f, NEW s, IsFlat(f, s) PROVE Flat(f, s)
  BY DEF IsFlat, Flat

(* Two such functions agree as far as their sequences do. *)
LEMMA FlatAgree ==
  ASSUME NEW f, NEW s, NEW g, NEW t, Flat(f, s), Flat(g, t), Len(s) \in Nat, Len(t) \in Nat,
         Len(s) <= Len(t), \A i \in 1..Len(s) : s[i] = t[i],
         NEW j \in 1..Len(s)
  PROVE  f[j] = g[j]
  <1> DEFINE T == {i \in 1..Len(s) : f[i] # g[i]}
  <1> SUFFICES ASSUME T # {} PROVE FALSE
    OBVIOUS
  <1>1. T \subseteq 1..Len(s) /\ \A i \in 1..Len(s) : i \notin T => f[i] = g[i]
    OBVIOUS
  <1>2. \A i \in T : f[i] # g[i]
    OBVIOUS
  <1> HIDE DEF T
  <1>3. PICK m \in T : \A k \in T : m <= k
    <2>1. T \subseteq Nat
      BY <1>1
    <2> QED BY <2>1, LeastOf
  <1>4. m \in 1..Len(s) /\ m \in 1..Len(t) /\ s[m] = t[m]
    BY <1>1, <1>3
  <1>5. m # 1
    BY <1>2, <1>4 DEF Flat
  <1>6. m - 1 \in 1..Len(s) /\ m - 1 \notin T
    BY <1>3, <1>4, <1>5
  <1>7. f[m - 1] = g[m - 1]
    BY <1>1, <1>6
  <1>8. f[m] = f[m - 1] \o s[m] /\ g[m] = g[m - 1] \o t[m]
    <2>1. f[m] = IF m = 1 THEN s[m] ELSE f[m - 1] \o s[m]
      BY <1>4 DEF Flat
    <2>2. g[m] = IF m = 1 THEN t[m] ELSE g[m - 1] \o t[m]
      BY <1>4 DEF Flat
    <2> QED BY <1>5, <2>1, <2>2
  <1> QED BY <1>2, <1>4, <1>7, <1>8

(* There is one for every sequence of sequences: a shortest prefix without one
   would extend a prefix that has one. *)
LEMMA FlatExists ==
  ASSUME NEW S, NEW s \in Seq(Seq(S))
  PROVE  \E f : IsFlat(f, s) /\ \A i \in 1..Len(s) : f[i] \in Seq(S)
  <1> DEFINE Upto(f, n) == /\ f = [i \in 1..n |-> IF i = 1 THEN s[i] ELSE f[i-1] \o s[i]]
                           /\ \A i \in 1..n : f[i] \in Seq(S)
             T == {n \in 0..Len(s) : \A f : ~Upto(f, n)}
  <1>1. Len(s) \in Nat /\ \A i \in 1..Len(s) : s[i] \in Seq(S)
    OBVIOUS
  <1>2. T = {}
    <2> SUFFICES ASSUME T # {} PROVE FALSE
      OBVIOUS
    <2>1. T \subseteq 0..Len(s) /\ \A n \in 0..Len(s) : n \notin T => \E f : Upto(f, n)
      OBVIOUS
    <2>2. \A n \in T : \A f : ~Upto(f, n)
      OBVIOUS
    <2> HIDE DEF T
    <2>3. PICK m \in T : \A k \in T : m <= k
      <3>1. T \subseteq Nat
        BY <2>1, <1>1
      <3> QED BY <3>1, LeastOf
    <2>4. m # 0
      <3>1. Upto([i \in 1..0 |-> s[i]], 0)
        OBVIOUS
      <3> QED BY <2>2, <2>3, <3>1
    <2>5. m \in 1..Len(s) /\ m - 1 \in 0..Len(s) /\ m - 1 \notin T
      BY <1>1, <2>1, <2>3, <2>4
    <2>6. PICK g : Upto(g, m - 1)
      BY <2>1, <2>5
    <2> DEFINE h == [i \in 1..m |-> IF i < m THEN g[i]
                                    ELSE IF i = 1 THEN s[i] ELSE g[i-1] \o s[i]]
    <2>7. \A i \in 1..m - 1 : /\ g[i] = IF i = 1 THEN s[i] ELSE g[i-1] \o s[i]
                              /\ g[i] \in Seq(S)
      BY <2>6
    <2>8. \A i \in 1..m : h[i] = IF i = 1 THEN s[i] ELSE h[i-1] \o s[i]
      <3> SUFFICES ASSUME NEW i \in 1..m PROVE h[i] = IF i = 1 THEN s[i] ELSE h[i-1] \o s[i]
        OBVIOUS
      <3>1. i \in Nat /\ m \in Nat
        BY <2>5
      <3>2. i # 1 => i - 1 \in 1..m /\ i - 1 < m
        BY <3>1
      <3>3. i # 1 => h[i - 1] = g[i - 1]
        BY <3>2
      <3>4. CASE i < m
        <4>1. i \in 1..m - 1
          BY <3>1, <3>4
        <4> QED BY <2>7, <3>3, <3>4, <4>1
      <3>5. CASE ~(i < m)
        BY <3>3, <3>5
      <3> QED BY <3>4, <3>5
    <2>9. \A i \in 1..m : h[i] \in Seq(S)
      <3> SUFFICES ASSUME NEW i \in 1..m PROVE h[i] \in Seq(S)
        OBVIOUS
      <3>1. i \in Nat /\ m \in Nat /\ s[i] \in Seq(S)
        BY <1>1, <2>5
      <3>2. CASE i < m
        <4>1. i \in 1..m - 1
          BY <3>1, <3>2
        <4> QED BY <2>7, <3>2, <4>1
      <3>3. CASE ~(i < m) /\ i # 1
        <4>1. i - 1 \in 1..m - 1
          BY <3>1, <3>3
        <4>2. g[i - 1] \in Seq(S)
          BY <2>7, <4>1
        <4>3. g[i - 1] \o s[i] \in Seq(S)
          BY <3>1, <4>2
        <4> QED BY <3>3, <4>3
      <3>4. CASE ~(i < m) /\ i = 1
        BY <3>1, <3>4
      <3> QED BY <3>2, <3>3, <3>4
    <2>10. h = [i \in 1..m |-> IF i = 1 THEN s[i] ELSE h[i-1] \o s[i]]
      <3>1. h = [i \in 1..m |-> h[i]]
        OBVIOUS
      <3> HIDE DEF h
      <3> QED BY <2>8, <3>1
    <2> HIDE DEF h
    <2> QED BY <2>2, <2>3, <2>9, <2>10
  <1>3. \A n \in 0..Len(s) : \E f : Upto(f, n)
    <2> HIDE DEF Upto
    <2> QED BY <1>2
  <1>4. PICK f : Upto(f, Len(s))
    <2>1. Len(s) \in 0..Len(s)
      BY <1>1
    <2> HIDE DEF Upto
    <2> QED BY <1>3, <2>1
  <1> QED BY <1>4 DEF IsFlat

(* FlattenSeq is computed by such a function, and so appends what is appended. *)
LEMMA FlattenDef ==
  ASSUME NEW S, NEW s \in Seq(Seq(S)), s # <<>>
  PROVE  \E f : /\ Flat(f, s) /\ FlattenSeq(s) = f[Len(s)]
                /\ f[Len(s)] \in Seq(S)
  <1> DEFINE F == CHOOSE f : IsFlat(f, s)
  <1>1. Len(s) \in Nat \ {0}
    BY EmptySeq
  <1>2. FlattenSeq(s) = F[Len(s)]
    BY <1>1 DEF FlattenSeq, IsFlat
  <1>3. PICK g : IsFlat(g, s) /\ \A i \in 1..Len(s) : g[i] \in Seq(S)
    BY FlatExists
  <1>4. IsFlat(F, s)
    BY <1>3
  <1> HIDE DEF F
  <1>5. F[Len(s)] = g[Len(s)]
    BY <1>1, <1>3, <1>4, FlatPoints, FlatAgree
  <1> QED BY <1>1, <1>2, <1>3, <1>4, <1>5, FlatPoints

LEMMA FlattenEmpty == FlattenSeq(<<>>) = <<>>
  BY DEF FlattenSeq

LEMMA FlattenType ==
  ASSUME NEW S, NEW s \in Seq(Seq(S)) PROVE FlattenSeq(s) \in Seq(S)
  <1>1. CASE s = <<>>
    <2>1. <<>> \in Seq(S)
      OBVIOUS
    <2> QED BY <1>1, <2>1, FlattenEmpty
  <1>2. CASE s # <<>>
    BY <1>2, FlattenDef
  <1> QED BY <1>1, <1>2

LEMMA FlattenAppend ==
  ASSUME NEW S, NEW s \in Seq(Seq(S)), NEW b \in Seq(S)
  PROVE  FlattenSeq(Append(s, b)) = FlattenSeq(s) \o b
  <1> DEFINE t == Append(s, b)
             n == Len(s)
  <1>1. /\ t \in Seq(Seq(S)) /\ n \in Nat /\ Len(t) = n + 1 /\ t[n + 1] = b
        /\ \A i \in 1..n : t[i] = s[i]
    OBVIOUS
  <1>2. t # <<>>
    <2>1. Len(<<>>) = 0 /\ n + 1 # 0
      BY <1>1
    <2> QED BY <1>1, <2>1
  <1> HIDE DEF t
  <1>3. PICK g : Flat(g, t) /\ FlattenSeq(t) = g[Len(t)]
    BY <1>1, <1>2, FlattenDef
  <1>4. g[n + 1] = IF n + 1 = 1 THEN b ELSE g[n] \o b
    <2>1. n + 1 \in 1..Len(t) /\ (n + 1) - 1 = n
      BY <1>1
    <2> QED BY <1>1, <1>3, <2>1 DEF Flat
  <1>5. CASE s = <<>>
    <2>1. n = 0
      BY <1>5
    <2>2. <<>> \o b = b
      OBVIOUS
    <2> QED BY <1>1, <1>3, <1>4, <1>5, <2>1, <2>2, FlattenEmpty DEF t
  <1>6. CASE s # <<>>
    <2>1. n # 0
      BY <1>6, EmptySeq
    <2>2. PICK f : Flat(f, s) /\ FlattenSeq(s) = f[n]
      BY <1>6, FlattenDef
    <2>3. f[n] = g[n]
      <3>1. Len(s) \in 1..Len(s) /\ Len(s) <= Len(t) /\ Len(t) \in Nat /\ Len(s) \in Nat
        BY <1>1, <2>1
      <3>2. \A i \in 1..Len(s) : s[i] = t[i]
        BY <1>1
      <3>3. Flat(f, s) /\ Flat(g, t)
        BY <1>3, <2>2
      <3> HIDE <1>3, <2>2
      <3> QED BY <3>1, <3>2, <3>3, FlatAgree, SMTT(30)
    <2> QED BY <1>1, <1>3, <1>4, <2>1, <2>2, <2>3 DEF t
  <1> QED BY <1>5, <1>6

LEMMA ConcatAssoc ==
  ASSUME NEW S, NEW r \in Seq(S), NEW s \in Seq(S), NEW x \in S
  PROVE  r \o Append(s, x) = Append(r \o s, x)
  OBVIOUS

LEMMA AppendOne ==
  ASSUME NEW S, NEW s \in Seq(S), NEW x \in S, NEW y \in S
  PROVE  /\ s \o <<x>> = Append(s, x)
         /\ s \o <<x, y>> = Append(Append(s, x), y)
  OBVIOUS

LEMMA AppendNone ==
  ASSUME NEW S, NEW s \in Seq(S) PROVE s \o <<>> = s
  OBVIOUS

LEMMA PrefixSelf ==
  ASSUME NEW S, NEW s \in Seq(S) PROVE IsPrefix(s, s)
  BY DEF IsPrefix

LEMMA PrefixHolds ==
  ASSUME NEW S, NEW s \in Seq(S), NEW t \in Seq(S), NEW x \in S
  PROVE  IsPrefix(s, t) => IsPrefix(s, Append(t, x))
  <1>1. Len(s) \in Nat /\ Len(t) \in Nat /\ Len(Append(t, x)) = Len(t) + 1
    OBVIOUS
  <1>3. ASSUME Len(s) <= Len(t)
        PROVE  SubSeq(Append(t, x), 1, Len(s)) = SubSeq(t, 1, Len(s))
    <2>1. \A i \in 1..Len(s) : i \in 1..Len(t) /\ Append(t, x)[i] = t[i]
      BY <1>1, <1>3
    <2> QED BY <1>1, <1>3, <2>1
  <1>4. ASSUME IsPrefix(s, t) PROVE IsPrefix(s, Append(t, x))
    <2>1. Len(s) <= Len(t) /\ SubSeq(s, 1, Len(s)) = SubSeq(t, 1, Len(s))
      BY <1>4 DEF IsPrefix
    <2>2. Len(s) <= Len(Append(t, x))
      BY <1>1, <2>1
    <2> QED BY <1>3, <2>1, <2>2 DEF IsPrefix
  <1> QED BY <1>4
-----------------------------------------------------------------------------
(* What is dequeued next is a packet, and update() takes it. *)
LEMMA DequeuesPacket ==
  ASSUME Inv, Dequeue
  PROVE  next[tail] \in Packets /\ taken' = Append(taken, next[tail])
  <1>1. Visible /\ taken' = Append(taken, next[tail])
    BY DEF Dequeue
  <1>2. next[tail] = order[Len(taken) + 1] /\ Len(taken) + 1 \in 1..Len(order)
    BY <1>1, NextInOrder DEF Inv, QueueTypeOK
  <1> QED BY <1>1, <1>2 DEF Inv, QueueTypeOK

(* The packets that update() has written, in the order of the buffers. *)
Written == FlattenSeq(write_queue) \o batch

LEMMA WrittenStays ==
  Inv /\ SocketTypes /\ WrittenInOrder /\ [Next]_vars => WrittenInOrder'
  <1> SUFFICES ASSUME Inv, SocketTypes, WrittenInOrder, [Next]_vars PROVE WrittenInOrder'
    OBVIOUS
  <1> DEFINE Ending == pc \in {"destructor", "destroyed"}
  <1>a. /\ batch \in Seq(Packets) /\ write_queue \in Seq(Seq(Packets)) /\ taken \in Seq(Packets)
        /\ FlattenSeq(write_queue) \in Seq(Packets) /\ Written \in Seq(Packets)
    <2>1. batch \in Seq(Packets) /\ write_queue \in Seq(Seq(Packets)) /\ taken \in Seq(Packets)
      BY DEF SocketTypes, Inv, QueueTypeOK
    <2>2. FlattenSeq(write_queue) \in Seq(Packets)
      BY <2>1, FlattenType
    <2> QED BY <2>1, <2>2 DEF Written
  <1>b. IsPrefix(Written, taken) /\ (~Ending => Written = taken)
    BY DEF WrittenInOrder, Written
  <1>c. ASSUME IsPrefix(Written', taken'), ~Ending' => Written' = taken'
        PROVE  WrittenInOrder'
    BY <1>c DEF WrittenInOrder, Written
  <1>1. ASSUME UNCHANGED <<write_queue, batch, taken>>, ~Ending' => ~Ending
        PROVE  WrittenInOrder'
    <2>1. Written' = Written
      BY <1>1 DEF Written
    <2> QED BY <1>1, <1>b, <1>c, <2>1
  <1>3. CASE Drain
    <2> DEFINE e == next[tail]
    <2>1. e \in Packets /\ taken' = Append(taken, e)
      BY <1>3, DequeuesPacket DEF Drain
    <2>2. UNCHANGED pc /\ (Fits(e) \/ FlushThenFits(e) \/ FlushThenOwn(e)) /\ Written = taken
      BY <1>3, <1>b DEF Drain
    <2> HIDE DEF e
    <2>3. Written' = Append(Written, e)
      <3>1. CASE Fits(e)
        BY <1>a, <2>1, <3>1, ConcatAssoc DEF Fits, Written
      <3>2. FlattenSeq(Append(write_queue, batch)) = Written
        BY <1>a, FlattenAppend DEF Written
      <3>3. <<e>> \in Seq(Packets) /\ Written \o <<e>> = Append(Written, e)
        BY <1>a, <2>1, AppendOne
      <3>4. CASE FlushThenFits(e)
        <4>1. write_queue' = Append(write_queue, batch) /\ batch' = <<e>>
          BY <1>a, <3>4, AppendOne DEF FlushThenFits, QueuePacket
        <4> QED BY <3>2, <3>3, <4>1 DEF Written
      <3>5. CASE FlushThenOwn(e)
        <4>1. write_queue' = Append(Append(write_queue, batch), <<e>>) /\ batch' = <<>>
          BY <1>a, <3>3, <3>5, AppendOne DEF FlushThenOwn, QueuePacket
        <4>2. Append(write_queue, batch) \in Seq(Seq(Packets))
          BY <1>a
        <4>3. FlattenSeq(write_queue') = Written \o <<e>>
          BY <3>2, <3>3, <4>1, <4>2, FlattenAppend
        <4>4. Append(Written, e) \o <<>> = Append(Written, e)
          <5>1. Append(Written, e) \in Seq(Packets)
            BY <1>a, <2>1
          <5> QED BY <5>1, AppendNone
        <4> QED BY <3>3, <4>1, <4>3, <4>4 DEF Written
      <3> QED BY <2>2, <3>1, <3>4, <3>5
    <2>4. taken' \in Seq(Packets) /\ Written' = taken'
      BY <1>a, <2>1, <2>2, <2>3
    <2>5. IsPrefix(Written', taken')
      BY <2>4, PrefixSelf
    <2> QED BY <1>c, <2>4, <2>5
  <1>4. CASE EndDrain
    <2>1. UNCHANGED taken /\ batch' = <<>> /\ Written = taken
      BY <1>4, <1>b DEF EndDrain, queueVars
    <2>2. write_queue' = IF batch = <<>> THEN write_queue ELSE Append(write_queue, batch)
      BY <1>4, <1>a, AppendOne DEF EndDrain, QueuePacket
    <2>3. FlattenSeq(write_queue') = Written
      <3>1. CASE batch = <<>>
        BY <1>a, <2>2, <3>1, AppendNone DEF Written
      <3>2. CASE batch # <<>>
        BY <1>a, <2>2, <3>2, FlattenAppend DEF Written
      <3> QED BY <3>1, <3>2
    <2>4. Written' = Written
      BY <1>a, <2>1, <2>3, AppendNone DEF Written
    <2> QED BY <1>b, <1>c, <2>1, <2>4
  <1>5. CASE DestroyQueue
    <2>1. UNCHANGED <<write_queue, batch>> /\ Ending' /\ Written' = Written
      BY <1>5 DEF DestroyQueue, Written
    <2>2. CASE Dequeue
      <3>1. next[tail] \in Packets /\ taken' = Append(taken, next[tail])
        BY <2>2, DequeuesPacket
      <3>2. IsPrefix(Written', taken')
        BY <1>a, <1>b, <2>1, <3>1, PrefixHolds
      <3> QED BY <1>c, <2>1, <3>2
    <2>3. CASE DeleteFront
      BY <1>b, <1>c, <2>1, <2>3 DEF DeleteFront
    <2> QED BY <1>5, <2>2, <2>3 DEF DestroyQueue
  <1>6. CASE UNCHANGED vars
    BY <1>1, <1>6 DEF vars, queueVars, socketVars
  <1>7. ASSUME NEW p \in Producers, Sends(p) \/ Enqueues(p) PROVE UNCHANGED taken
    BY <1>7 DEF Sends, Enqueues, Allocate, Exchange, Link
  <1>8. CASE (\E p \in Producers : ForeignSends(p)) \/ NetSends
    BY <1>1, <1>7, <1>8, NetAssumption DEF ForeignSends, NetSends, socketVars
  <1>9. CASE NetAsks \/ IoAsks \/ IoAdded \/ Answers
    BY <1>1, <1>9 DEF NetAsks, IoAsks, IoAdded, Answers, queueVars, socketVars
  <1>2. CASE delayed_close_socket \/ close_socket
    BY <1>1, <1>2 DEF delayed_close_socket, close_socket, queueVars
  <1>10. CASE Start \/ AddNewSocket \/ BeginUpdate \/ RunEnds \/ IoCorrupts \/ Destroy
    BY <1>1, <1>10
       DEF Start, AddNewSocket, BeginUpdate, RunEnds, IoCorrupts, Held, Destroy, queueVars
  <1>11. CASE Poll \/ Visit \/ EndUpdate \/ \E ok \in BOOLEAN : BaseUpdate(ok)
    BY <1>1, <1>11 DEF Poll, Visit, EndUpdate, BaseUpdate, queueVars
  <1> QED
    BY <1>2, <1>3, <1>4, <1>5, <1>6, <1>8, <1>9, <1>10, <1>11 DEF Next, NetStep

(* world_socket.cpp:210-235: what update() hands to the base socket is what was
   dequeued, in that order, whichever buffer a packet was written to. *)
THEOREM SocketWritesInOrder == Spec => []WrittenInOrder
  <1>1. Init => SocketTypes /\ WrittenInOrder
    <2>1. Init => SocketTypes
      BY SocketTypesInit
    <2>2. Init => WrittenInOrder
      <3>1. <<>> \o <<>> = <<>> /\ IsPrefix(<<>>, <<>>)
        BY DEF IsPrefix
      <3> QED BY <3>1, FlattenEmpty DEF Init, QueueInit, WrittenInOrder
    <2> QED BY <2>1, <2>2
  <1> QED
    BY <1>1, SocketTypesStay, WrittenStays, UsesQueue, Always, PTL DEF Spec
=============================================================================
