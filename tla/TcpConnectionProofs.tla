------------------------ MODULE TcpConnectionProofs ------------------------
(* Theorems about TcpConnection, for every set of callers and messages and  *)
(* every size of a message: of the byte stream, whatever the users of a     *)
(* connection call; and of its life, under the use that OrderlyUse names.   *)
EXTENDS TcpConnection, SequenceTheorems, TLAPS

-----------------------------------------------------------------------------
(* Lemmas about prefixes and about the operators of the model. *)

Prefix(s, t) == Len(s) <= Len(t) /\ s = SubSeq(t, 1, Len(s))

\* A sequence is a prefix of itself, and stays one when the other grows.
LEMMA PrefixRefl ==
  ASSUME NEW S, NEW s \in Seq(S)
  PROVE  Prefix(s, s)
BY SubSeqFull, LenProperties DEF Prefix

LEMMA PrefixGrows ==
  ASSUME NEW S, NEW s \in Seq(S), NEW t \in Seq(S), NEW u \in Seq(S), Prefix(s, t)
  PROVE  Prefix(s, t \o u)
<1>1. /\ Len(s) \in Nat /\ Len(t) \in Nat /\ Len(u) \in Nat
      /\ Len(t \o u) = Len(t) + Len(u)
  BY LenProperties, ConcatProperties
<1>2. Len(s) <= Len(t \o u)
  BY <1>1 DEF Prefix
<1>3. CASE Len(s) = 0
  BY <1>1, <1>2, <1>3, SubSeqEmpty DEF Prefix
<1>4. CASE Len(s) # 0
  <2>1. 1 \in 1 .. Len(t) /\ Len(s) \in 1 .. Len(t)
    BY <1>1, <1>4 DEF Prefix
  <2>2. SubSeq(t \o u, 1, Len(s)) = SubSeq(t, 1, Len(s))
    BY <2>1, SubSeqOfConcat1
  <2> QED BY <1>2, <2>2 DEF Prefix
<1> QED BY <1>3, <1>4

\* A part of a sequence is a sequence over the same set.
LEMMA PartType ==
  ASSUME NEW S, NEW t \in Seq(S), NEW m \in Nat \ {0}, NEW n \in 0 .. Len(t)
  PROVE  SubSeq(t, m, n) \in Seq(S)
<1>1. Len(t) \in Nat /\ \A i \in 1 .. Len(t) : t[i] \in S
  BY LenProperties, ElementOfSeq
<1>2. m \in Int /\ n \in Int /\ m .. n \subseteq 1 .. Len(t)
  BY <1>1
<1>3. \A i \in m .. n : t[i] \in S
  BY <1>1, <1>2
<1> QED BY <1>2, <1>3, SubSeqProperties

\* Concatenation is associative, in the form in which the proofs below use it.
LEMMA Regroup ==
  ASSUME NEW S, NEW s \in Seq(S), NEW a \in Seq(S), NEW b \in Seq(S), NEW t, t = a \o b
  PROVE  (s \o a) \o b = s \o t
<1>1. (s \o a) \o b = s \o (a \o b)
  BY ConcatAssociative
<1>2. s \o (a \o b) = s \o t
  OBVIOUS
<1> QED BY <1>1, <1>2

\* Moving a front of a sequence to the end of another leaves their concatenation.
LEMMA MoveSeveral ==
  ASSUME NEW S, NEW s \in Seq(S), NEW t \in Seq(S), NEW k \in 0 .. Len(t)
  PROVE  /\ SubSeq(t, 1, k) \in Seq(S) /\ SubSeq(t, k + 1, Len(t)) \in Seq(S)
         /\ (s \o SubSeq(t, 1, k)) \o SubSeq(t, k + 1, Len(t)) = s \o t
<1>1. Len(t) \in Nat
  BY LenProperties
<1>2. SubSeq(t, 1, k) \in Seq(S)
  BY PartType
<1>3. SubSeq(t, k + 1, Len(t)) \in Seq(S)
  <2>1. k + 1 \in Nat \ {0} /\ Len(t) \in 0 .. Len(t)
    BY <1>1
  <2> QED BY <2>1, PartType
<1>4. SubSeq(t, 1, k) \o SubSeq(t, k + 1, Len(t)) = t
  <2>1. SubSeq(t, 1, k) \o SubSeq(t, k + 1, Len(t)) = SubSeq(t, 1, Len(t))
    BY <1>1, 1 \in 1 .. Len(t) + 1, k \in 1 - 1 .. Len(t), Len(t) \in k .. Len(t),
       ConcatAdjacentSubSeq
  <2> QED BY <2>1, SubSeqFull
<1>5. PICK a \in Seq(S) : a = SubSeq(t, 1, k)
  BY <1>2
<1>6. PICK b \in Seq(S) : b = SubSeq(t, k + 1, Len(t))
  BY <1>3
<1>7. t = a \o b
  BY <1>4, <1>5, <1>6
<1>8. (s \o a) \o b = s \o t
  <2>1. (s \o a) \o b = s \o (a \o b)
    BY ConcatAssociative, SMTT(30)
  <2> QED BY <1>7, <2>1
<1> QED BY <1>2, <1>3, <1>5, <1>6, <1>8

Unit == Msg \X (1 .. Parts)

LEMMA UnitsType ==
  ASSUME NEW m \in Msg
  PROVE  Units(m) \in Seq(Unit) /\ Len(Units(m)) = Parts
<1>1. Parts \in Nat
  BY ConnectionAssumption DEF ConnectionAssumption
<1>2. Units(m) \in [1 .. Parts -> Unit]
  BY DEF Units, Unit
<1> QED BY <1>1, <1>2, SeqDef DEF Units

\* A send functor carries a message.
LEMMA FunctorMessage ==
  ASSUME NEW f \in Functors, f.op = "send"
  PROVE  f.msg \in Msg
BY DEF Functors, Owning, Raw

-----------------------------------------------------------------------------
(* The byte stream.  What was written, followed by what waits, is what the  *)
(* loop took; once a write has failed nothing waits, nothing is polled for  *)
(* and nothing more is written, so what was written stays a prefix.         *)

StreamType ==
  /\ sent \in Seq(Unit) /\ output \in Seq(Unit) /\ accepted \in Seq(Unit)
  /\ ioq \in Seq(Functors)

StreamInv ==
  \/ sent \o output = accepted
  \/ Broken /\ Idle /\ Prefix(sent, accepted)

\* The functors that are queued without a message.
LEMMA QueueType ==
  ASSUME NEW q \in Seq(Functors), NEW op \in Owning \cup Raw
  PROVE  Append(q, F(op)) \in Seq(Functors)
<1>1. F(op) \in Functors
  BY DEF F, Functors
<1> QED BY <1>1, AppendProperties

\* Both ways of a message into the loop: a call of send() on it, and a functor.
LEMMA StreamSend ==
  ASSUME StreamType, StreamInv, NEW m \in Msg, NEW q \in Seq(Functors),
         send_in_loop(m, q), UNCHANGED <<peer, wrShut>>
  PROVE  StreamType' /\ StreamInv'
<1>1. Units(m) \in Seq(Unit) /\ Len(Units(m)) = Parts /\ Parts \in Nat \ {0}
  BY UnitsType, ConnectionAssumption DEF ConnectionAssumption
<1>2. Broken' = Broken
  BY DEF Broken
<1>3. CASE ioq' = q /\ UNCHANGED <<stream, channel>>
  <2>1. UNCHANGED <<sent, output, accepted, events>>
    BY <1>3 DEF stream, channel
  <2>2. StreamType'
    BY <1>3, <2>1 DEF StreamType
  <2>3. StreamInv'
    BY <1>2, <2>1 DEF StreamInv, Idle
  <2> QED BY <2>2, <2>3
<1>4. CASE ~Idle /\ accepted' = accepted \o Units(m) /\ buffer(m) /\ ioq' = q /\ UNCHANGED sent
  <2>1. sent \o output = accepted
    BY <1>4 DEF StreamInv
  <2>2. sent' \o output' = accepted'
    <3>1. (sent \o output) \o Units(m) = sent \o output'
      <4>1. sent \in Seq(Unit) /\ output \in Seq(Unit) /\ output' = output \o Units(m)
        BY <1>4 DEF StreamType, buffer
      <4>2. (sent \o output) \o Units(m) = sent \o (output \o Units(m))
        BY <1>1, <4>1, ConcatAssociative
      <4> QED BY <4>1, <4>2
    <3>2. accepted' = (sent \o output) \o Units(m) /\ sent' = sent
      BY <1>4, <2>1
    <3> QED BY <3>1, <3>2
  <2>3. output' \in Seq(Unit) /\ accepted' \in Seq(Unit)
    BY <1>1, <1>4, ConcatProperties DEF StreamType, buffer
  <2>4. StreamType'
    BY <1>4, <2>3 DEF StreamType
  <2> QED BY <2>2, <2>4 DEF StreamInv
<1>5. ASSUME Idle, ~Broken, accepted' = accepted \o Units(m),
             NEW k \in 0 .. Parts,
             sent' = sent \o SubSeq(Units(m), 1, k),
             output' = output \o SubSeq(Units(m), k + 1, Parts),
             ioq' = q \/ ioq' = Append(q, F("complete"))
      PROVE  StreamType' /\ StreamInv'
  <2>1. sent \o output = accepted /\ output = <<>>
    BY <1>5 DEF StreamInv, Idle
  <2>2. /\ SubSeq(Units(m), 1, k) \in Seq(Unit) /\ SubSeq(Units(m), k + 1, Parts) \in Seq(Unit)
        /\ (sent \o SubSeq(Units(m), 1, k)) \o SubSeq(Units(m), k + 1, Parts) = sent \o Units(m)
    <3>1. PICK u \in Seq(Unit) : u = Units(m) /\ Len(u) = Parts
      BY <1>1
    <3>2. k \in 0 .. Len(u) /\ sent \in Seq(Unit)
      BY <1>1, <1>5, <3>1 DEF StreamType
    <3>3. \A s, t \in Seq(Unit) : \A n \in 0 .. Len(t) :
            /\ SubSeq(t, 1, n) \in Seq(Unit) /\ SubSeq(t, n + 1, Len(t)) \in Seq(Unit)
            /\ (s \o SubSeq(t, 1, n)) \o SubSeq(t, n + 1, Len(t)) = s \o t
      BY MoveSeveral
    <3>4. /\ SubSeq(u, 1, k) \in Seq(Unit) /\ SubSeq(u, k + 1, Len(u)) \in Seq(Unit)
          /\ (sent \o SubSeq(u, 1, k)) \o SubSeq(u, k + 1, Len(u)) = sent \o u
      BY <3>2, <3>3
    <3> QED BY <3>1, <3>4
  <2>3. sent = accepted /\ output' = SubSeq(Units(m), k + 1, Parts)
    BY <1>5, <2>1, <2>2, ConcatEmptySeq DEF StreamType
  <2>4. sent' \o output' = accepted'
    BY <1>5, <2>2, <2>3
  <2>5. ioq' \in Seq(Functors)
    BY <1>5, QueueType DEF Owning
  <2>6. StreamType'
    BY <1>1, <1>5, <2>2, <2>3, <2>5, ConcatProperties DEF StreamType
  <2> QED BY <2>4, <2>6 DEF StreamInv
<1>6. CASE Idle /\ Broken /\ accepted' = accepted \o Units(m)
           /\ ioq' = q /\ UNCHANGED <<output, sent, channel>>
  <2>1. Prefix(sent, accepted)
    <3>1. CASE sent \o output = accepted
      BY <1>6, <3>1, ConcatEmptySeq, PrefixRefl DEF Idle, StreamType
    <3>2. CASE Prefix(sent, accepted)
      BY <3>2
    <3> QED BY <3>1, <3>2 DEF StreamInv
  <2>2. Prefix(sent', accepted')
    BY <1>1, <1>6, <2>1, PrefixGrows DEF StreamType
  <2>3. Broken' /\ Idle'
    BY <1>2, <1>6 DEF Idle, channel
  <2>4. StreamType'
    BY <1>1, <1>6, ConcatProperties DEF StreamType
  <2> QED BY <2>2, <2>3, <2>4 DEF StreamInv
<1>7. \/ ioq' = q /\ UNCHANGED <<stream, channel>>
      \/ ~Idle /\ accepted' = accepted \o Units(m) /\ buffer(m) /\ ioq' = q /\ UNCHANGED sent
      \/ /\ Idle /\ ~Broken /\ accepted' = accepted \o Units(m)
         /\ \E k \in 0 .. Parts :
              /\ sent' = sent \o SubSeq(Units(m), 1, k)
              /\ output' = output \o SubSeq(Units(m), k + 1, Parts)
              /\ ioq' = q \/ ioq' = Append(q, F("complete"))
      \/ Idle /\ Broken /\ accepted' = accepted \o Units(m)
         /\ ioq' = q /\ UNCHANGED <<output, sent, channel>>
  BY DEF send_in_loop
<1> QED BY <1>3, <1>4, <1>5, <1>6, <1>7

LEMMA StreamWrite ==
  ASSUME StreamType, StreamInv, HandleWrite
  PROVE  StreamType' /\ StreamInv'
<1>1. sent \o output = accepted /\ UNCHANGED accepted
  BY DEF HandleWrite, StreamInv
<1>2. PICK k \in 1 .. Len(output) :
         /\ sent' = sent \o SubSeq(output, 1, k)
         /\ output' = SubSeq(output, k + 1, Len(output))
         /\ ioq' = ioq \/ ioq' = Append(ioq, F("complete"))
  BY DEF HandleWrite
<1>3. Len(output) \in Nat /\ k \in 0 .. Len(output)
  BY LenProperties DEF StreamType
<1>4. /\ SubSeq(output, 1, k) \in Seq(Unit) /\ SubSeq(output, k + 1, Len(output)) \in Seq(Unit)
      /\ sent' \o output' = sent \o output
  <2>1. sent \in Seq(Unit) /\ output \in Seq(Unit)
    BY DEF StreamType
  <2>2. /\ SubSeq(output, 1, k) \in Seq(Unit) /\ SubSeq(output, k + 1, Len(output)) \in Seq(Unit)
        /\ (sent \o SubSeq(output, 1, k)) \o SubSeq(output, k + 1, Len(output)) = sent \o output
    BY <1>3, <2>1, MoveSeveral, ZenonT(60)
  <2> QED BY <1>2, <2>2
<1>5. ioq' \in Seq(Functors)
  BY <1>2, QueueType DEF StreamType, Owning
<1>6. StreamType'
  BY <1>1, <1>2, <1>4, <1>5, ConcatProperties DEF StreamType
<1> QED BY <1>1, <1>4, <1>6 DEF StreamInv

\* The functors that a step other than a send may leave in the queue.
LEMMA TailType ==
  ASSUME StreamType, ioq # <<>>
  PROVE  Head(ioq) \in Functors /\ Tail(ioq) \in Seq(Functors)
BY HeadTailProperties DEF StreamType

\* Every step but a send and a write: the stream is left alone, the queue keeps
\* functors, and neither is a broken socket repaired nor is writing enabled.
Quiet == /\ ioq' \in Seq(Functors) /\ UNCHANGED stream
         /\ "write" \notin events => "write" \notin events'

LEMMA StreamQuiet ==
  ASSUME StreamType, StreamInv, Quiet, Broken => Broken'
  PROVE  StreamType' /\ StreamInv'
<1>1. UNCHANGED <<sent, output, accepted>>
  BY DEF Quiet, stream
<1>2. StreamType'
  BY <1>1 DEF StreamType, Quiet
<1>3. StreamInv'
  BY <1>1 DEF StreamInv, Quiet, Idle
<1> QED BY <1>2, <1>3

LEMMA CloseQuiet ==
  ASSUME NEW q \in Seq(Functors), handle_close(q), UNCHANGED stream
  PROVE  Quiet
<1>1. ioq' \in Seq(Functors)
  BY QueueType DEF handle_close, remove_connection, Owning
<1>2. events' = {}
  BY DEF handle_close, SetEvents
<1> QED BY <1>1, <1>2 DEF Quiet

LEMMA DestroyedQuiet ==
  ASSUME NEW q \in Seq(Functors), connect_destroyed(q)
  PROVE  Quiet /\ UNCHANGED wrShut
<1>1. ioq' = q /\ UNCHANGED <<stream, wrShut>>
  BY DEF connect_destroyed
<1>2. events' = {} \/ events' = events
  BY DEF connect_destroyed
<1> QED BY <1>1, <1>2 DEF Quiet

LEMMA ReadingQuiet ==
  ASSUME NEW q \in Seq(Functors), start_read_in_loop(q) \/ stop_read_in_loop(q),
         UNCHANGED stream
  PROVE  Quiet
<1>1. ioq' = q
  BY DEF start_read_in_loop, stop_read_in_loop
<1>2. events' \in {events, events \cup {"read"}, events \ {"read"}}
  BY DEF start_read_in_loop, stop_read_in_loop, SetEvents, channel
<1> QED BY <1>1, <1>2 DEF Quiet

LEMMA FunctorStep ==
  ASSUME StreamType, StreamInv, RunFunctor
  PROVE  StreamType' /\ StreamInv'
<1>1. ioq # <<>> /\ Head(ioq) \in Functors /\ Tail(ioq) \in Seq(Functors)
  BY TailType DEF RunFunctor, RunEstablished, RunSend, RunShutdown, RunForceClose,
                  RunReading, RunComplete, RunDestroyed, Functor
<1>2. CASE RunSend
  <2>1. Head(ioq).msg \in Msg
    BY <1>1, <1>2, FunctorMessage DEF RunSend, Functor
  <2> QED BY <1>1, <1>2, <2>1, StreamSend DEF RunSend
<1>3. CASE RunEstablished
  <2>1. Quiet /\ UNCHANGED <<peer, wrShut>>
    BY <1>1, <1>3 DEF RunEstablished, connect_established, SetEvents, Quiet
  <2> QED BY <2>1, StreamQuiet DEF Broken
<1>4. CASE RunShutdown
  <2>1. Quiet /\ UNCHANGED peer /\ (wrShut => wrShut')
    BY <1>1, <1>4 DEF RunShutdown, shutdown_in_loop, channel, Quiet
  <2> QED BY <2>1, StreamQuiet DEF Broken
<1>5. CASE RunForceClose
  <2>1. UNCHANGED <<stream, peer, wrShut>>
    BY <1>5 DEF RunForceClose
  <2>2. Quiet
    <3>1. CASE handle_close(Tail(ioq))
      BY <1>1, <2>1, <3>1, CloseQuiet
    <3>2. CASE ioq' = Tail(ioq) /\ UNCHANGED channel
      BY <1>1, <2>1, <3>2 DEF Quiet, channel
    <3> QED BY <1>5, <3>1, <3>2 DEF RunForceClose, force_close_in_loop
  <2> QED BY <2>1, <2>2, StreamQuiet DEF Broken
<1>6. CASE RunReading
  <2>1. UNCHANGED <<stream, peer, wrShut>>
    BY <1>6 DEF RunReading
  <2>2. Quiet
    BY <1>1, <1>6, <2>1, ReadingQuiet DEF RunReading
  <2> QED BY <2>1, <2>2, StreamQuiet DEF Broken
<1>7. CASE RunComplete
  <2>1. Quiet /\ UNCHANGED <<peer, wrShut>>
    BY <1>1, <1>7 DEF RunComplete, channel, Quiet
  <2> QED BY <2>1, StreamQuiet DEF Broken
<1>8. CASE RunDestroyed
  <2>1. Quiet /\ UNCHANGED <<peer, wrShut>>
    BY <1>1, <1>8, DestroyedQuiet DEF RunDestroyed
  <2> QED BY <2>1, StreamQuiet DEF Broken
<1> QED BY <1>2, <1>3, <1>4, <1>5, <1>6, <1>7, <1>8 DEF RunFunctor

LEMMA EventStep ==
  ASSUME StreamType, StreamInv, HandleEvent
  PROVE  StreamType' /\ StreamInv'
<1>1. ioq \in Seq(Functors)
  BY DEF StreamType
<1>2. CASE HandleRead
  <2>1. UNCHANGED <<stream, peer, wrShut>>
    BY <1>2 DEF HandleRead
  <2>2. Quiet
    <3>1. CASE handle_close(ioq)
      BY <1>1, <2>1, <3>1, CloseQuiet
    <3>2. CASE UNCHANGED <<channel, ioq>>
      BY <1>1, <2>1, <3>2 DEF Quiet, channel
    <3> QED BY <1>2, <3>1, <3>2 DEF HandleRead
  <2> QED BY <2>1, <2>2, StreamQuiet DEF Broken
<1>3. CASE HandleHangup
  <2>1. UNCHANGED <<stream, peer, wrShut>> /\ handle_close(ioq)
    BY <1>3 DEF HandleHangup
  <2>2. Quiet
    BY <1>1, <2>1, CloseQuiet
  <2> QED BY <2>1, <2>2, StreamQuiet DEF Broken
<1>4. CASE HandleWrite
  BY <1>4, StreamWrite
<1> QED BY <1>2, <1>3, <1>4 DEF HandleEvent

LEMMA UserCallStep ==
  ASSUME StreamType, StreamInv, UserStep
  PROVE  StreamType' /\ StreamInv'
<1>1. ioq \in Seq(Functors)
  BY DEF StreamType
<1>2. ASSUME NEW m \in Msg, LoopSend(m)
      PROVE  StreamType' /\ StreamInv'
  <2>1. send_in_loop(m, ioq) /\ UNCHANGED <<peer, wrShut>>
    BY <1>2 DEF LoopSend
  <2> QED BY <1>1, <2>1, StreamSend
<1>3. CASE LoopShutdown
  <2>1. Quiet /\ UNCHANGED peer /\ (wrShut => wrShut')
    BY <1>1, <1>3 DEF LoopShutdown, shutdown_in_loop, channel, Quiet
  <2> QED BY <2>1, StreamQuiet DEF Broken
<1>4. CASE LoopForceClose
  <2>1. ioq' \in Seq(Functors)
    BY <1>1, <1>4, QueueType DEF LoopForceClose, Owning
  <2>2. Quiet /\ UNCHANGED <<peer, wrShut>>
    BY <1>4, <2>1 DEF LoopForceClose, channel, Quiet
  <2> QED BY <2>2, StreamQuiet DEF Broken
<1>5. CASE LoopReading
  <2>1. UNCHANGED <<stream, peer, wrShut>>
    BY <1>5 DEF LoopReading
  <2>2. Quiet
    BY <1>1, <1>5, <2>1, ReadingQuiet DEF LoopReading
  <2> QED BY <2>1, <2>2, StreamQuiet DEF Broken
<1> QED BY <1>2, <1>3, <1>4, <1>5 DEF UserStep

LEMMA ServerStep ==
  ASSUME StreamType, StreamInv, BaseStep
  PROVE  StreamType' /\ StreamInv'
<1>1. ioq \in Seq(Functors) /\ Append(ioq, F("destroyed")) \in Seq(Functors)
  BY QueueType DEF StreamType, Owning
<1>2. CASE Remove
  <2>1. Quiet /\ UNCHANGED <<peer, wrShut>>
    BY <1>1, <1>2 DEF Remove, channel, Quiet
  <2> QED BY <2>1, StreamQuiet DEF Broken
<1>3. CASE DestroyServer
  <2>1. UNCHANGED peer
    BY <1>3 DEF DestroyServer
  <2>2. Quiet /\ UNCHANGED wrShut
    <3>1. CASE connect_destroyed(ioq)
      BY <1>1, <3>1, DestroyedQuiet
    <3>2. CASE /\ ioq' = Append(ioq, F("destroyed")) \/ ioq' = ioq
               /\ UNCHANGED <<channel, stream, wrShut>>
      BY <1>1, <3>2 DEF Quiet, channel
    <3>3. \/ connect_destroyed(ioq)
          \/ /\ ioq' = Append(ioq, F("destroyed")) \/ ioq' = ioq
             /\ UNCHANGED <<channel, stream, wrShut>>
      BY <1>3, Zenon DEF DestroyServer
    <3> QED BY <3>1, <3>2, <3>3
  <2> QED BY <2>1, <2>2, StreamQuiet DEF Broken
<1> QED BY <1>2, <1>3 DEF BaseStep

LEMMA CallerStep ==
  ASSUME StreamType, StreamInv, NEW c \in Caller, StartCall(c) \/ FinishCall(c)
  PROVE  StreamType' /\ StreamInv'
<1>1. UNCHANGED <<channel, stream, peer, wrShut>>
  BY DEF StartCall, FinishCall, HandOver, Release, StartSend, StartShutdown,
         StartForceClose, QueueReading, QueueSend, SetDisconnecting, QueueClose, loops
<1>2. ioq' \in Seq(Functors)
  <2>1. ioq \in Seq(Functors)
    BY DEF StreamType
  <2>2. \A m \in Msg : Append(ioq, Send(m)) \in Seq(Functors)
    <3>1. \A m \in Msg : Send(m) \in Functors
      BY DEF Send, Functors
    <3> QED BY <2>1, <3>1, AppendProperties
  <2>3. \A op \in Owning \cup Raw : Append(ioq, F(op)) \in Seq(Functors)
    BY <2>1, QueueType
  <2>4. CASE StartCall(c)
    <3>1. ioq' = ioq \/ \E call \in {"start_read", "stop_read"} : ioq' = Append(ioq, F(call))
      BY <2>4 DEF StartCall, HandOver, Release, StartSend, StartShutdown,
                  StartForceClose, QueueReading
    <3> QED BY <2>1, <2>3, <3>1 DEF Raw
  <2>5. CASE FinishCall(c)
    <3>1. \/ ioq' = ioq \/ (\E m \in Msg : ioq' = Append(ioq, Send(m)))
          \/ ioq' = Append(ioq, F("shutdown")) \/ ioq' = Append(ioq, F("force_close"))
      BY <2>5 DEF FinishCall, QueueSend, SetDisconnecting, QueueClose
    <3> QED BY <2>1, <2>2, <2>3, <3>1 DEF Raw, Owning
  <2> QED BY <2>4, <2>5
<1>3. Quiet
  BY <1>1, <1>2 DEF Quiet, channel
<1> QED BY <1>1, <1>3, StreamQuiet DEF Broken

LEMMA StreamStep ==
  ASSUME StreamType, StreamInv, [Next]_vars
  PROVE  StreamType' /\ StreamInv'
<1>1. CASE UNCHANGED vars
  <2>1. UNCHANGED <<sent, output, accepted, room, ioq, events, peer, wrShut>>
    BY <1>1 DEF vars
  <2>2. Quiet
    BY <2>1 DEF Quiet, stream, StreamType
  <2> QED BY <2>1, <2>2, StreamQuiet DEF Broken
<1>2. CASE PeerCloses \/ PeerResets
  <2>1. Quiet
    BY <1>2 DEF PeerCloses, PeerResets, Quiet, channel, StreamType
  <2>2. Broken => Broken'
    BY <1>2 DEF PeerCloses, PeerResets, Broken
  <2> QED BY <2>1, <2>2, StreamQuiet
<1>3. CASE \E c \in Caller : StartCall(c) \/ FinishCall(c)
  BY <1>3, CallerStep
<1>4. CASE RunFunctor \/ HandleEvent \/ UserStep \/ BaseStep
  BY <1>4, FunctorStep, EventStep, UserCallStep, ServerStep
<1>5. CASE PeerReads
  <2>1. UNCHANGED <<sent, output, accepted, ioq, events, peer, wrShut>>
    BY <1>5 DEF PeerReads, channel
  <2> QED BY <2>1 DEF StreamType, StreamInv, Idle, Broken
<1> QED BY <1>1, <1>2, <1>3, <1>4, <1>5 DEF Next, Step

LEMMA StreamStarts == Init => StreamType /\ StreamInv
<1>1. ASSUME Init PROVE StreamType
  <2>1. F("established") \in Functors
    BY DEF F, Functors, Owning
  <2> QED BY <1>1, <2>1 DEF Init, StreamType
<1>2. ASSUME Init PROVE StreamInv
  BY <1>2 DEF Init, StreamInv
<1> QED BY <1>1, <1>2

\* StreamIntact: the units of the messages reach the socket in the order in which
\* the connection's loop took them, none twice, none left out while the socket can
\* be written to, whatever is called and whatever the peer does.
THEOREM Stream == Spec => []StreamIntact
<1>1. Init => StreamType /\ StreamInv
  BY StreamStarts
<1>2. StreamType /\ StreamInv /\ [Next]_vars => StreamType' /\ StreamInv'
  BY StreamStep
<1>3. StreamType /\ StreamInv => StreamIntact
  <2> SUFFICES ASSUME StreamType, StreamInv PROVE StreamIntact
    OBVIOUS
  <2>1. CASE sent \o output = accepted
    <3>1. Len(accepted) <= Len(accepted) /\ accepted = SubSeq(accepted, 1, Len(accepted))
      BY LenProperties, SubSeqFull DEF StreamType
    <3> QED BY <2>1, <3>1 DEF StreamIntact
  <2>2. CASE Broken /\ Idle /\ Prefix(sent, accepted)
    <3>1. sent \o output = sent
      BY <2>2, ConcatEmptySeq DEF Idle, StreamType
    <3> QED BY <2>2, <3>1 DEF StreamIntact, Prefix
  <2> QED BY <2>1, <2>2 DEF StreamInv
<1> QED BY <1>1, <1>2, <1>3, PTL DEF Spec

-----------------------------------------------------------------------------
(* Type correctness; the stream and the queue are typed above.              *)

States == {"connecting", "connected", "disconnecting", "disconnected"}
Assertions == {"handle_close", "remove", "erase", "server"}

LoopType ==
  /\ state \in States /\ events \subseteq {"read", "write"}
  /\ index \in {"new", "added", "deleted"} /\ reading \in BOOLEAN /\ wrShut \in BOOLEAN
  /\ baseq \in Nat /\ inMap \in BOOLEAN /\ server \in BOOLEAN /\ (inMap => server)
  /\ up \in Nat /\ down \in Nat /\ failed \subseteq Assertions

OtherType ==
  /\ room \in BOOLEAN /\ error \in BOOLEAN /\ peer \in {"open", "fin", "rst"} /\ dead \in BOOLEAN
  /\ cpc \in [Caller -> {"none", "idle", "gone", "send", "shutdown", "force_close",
                         "shutdown_set", "force_close_set"}]
  /\ called \subseteq (Caller \cup {"loop"}) \X Calls /\ used \subseteq Msg

LEMMA EventsType ==
  ASSUME LoopType, NEW E, E \subseteq {"read", "write"}, SetEvents(E)
  PROVE  events' \subseteq {"read", "write"} /\ index' \in {"new", "added", "deleted"}
BY DEF SetEvents

LEMMA SendType ==
  ASSUME LoopType, NEW m, NEW q, send_in_loop(m, q),
         UNCHANGED <<state, reading, wrShut, owner, up, down, failed>>
  PROVE  LoopType'
<1>1. UNCHANGED channel \/ SetEvents(events \cup {"write"})
  BY DEF send_in_loop, enable_write
<1>2. events \cup {"write"} \subseteq {"read", "write"}
  BY DEF LoopType
<1>3. events' \subseteq {"read", "write"} /\ index' \in {"new", "added", "deleted"}
  BY <1>1, <1>2, EventsType DEF LoopType, channel
<1> QED BY <1>3 DEF LoopType, owner

LEMMA CloseType ==
  ASSUME LoopType, NEW q, handle_close(q), UNCHANGED <<reading, wrShut, server, up>>
  PROVE  LoopType'
<1>1. state' = "disconnected" /\ down' = down + 1 /\ failed' \subseteq Assertions
  BY DEF handle_close, Fails, LoopType, Assertions
<1>2. events' \subseteq {"read", "write"} /\ index' \in {"new", "added", "deleted"}
  BY EventsType DEF handle_close
<1>3. /\ baseq' = baseq \/ baseq' = baseq + 1
      /\ inMap' = inMap \/ inMap' = FALSE
  BY DEF handle_close, remove_connection
<1>4. baseq' \in Nat /\ inMap' \in BOOLEAN /\ (inMap' => server')
  <2>1. baseq' \in Nat
    BY <1>3 DEF LoopType
  <2>2. inMap' \in BOOLEAN /\ server' = server
    BY <1>3, Zenon DEF LoopType
  <2>3. inMap' => server'
    <3>1. inMap' => inMap
      <4>1. CASE inMap' = inMap
        BY <4>1
      <4>2. CASE inMap' = FALSE
        BY <4>2
      <4> QED BY <1>3, <4>1, <4>2
    <3>2. inMap => server
      BY DEF LoopType
    <3> QED BY <2>2, <3>1, <3>2
  <2> QED BY <2>1, <2>2, <2>3
<1>5. down' \in Nat
  BY <1>1 DEF LoopType
<1> QED BY <1>1, <1>2, <1>4, <1>5 DEF LoopType, States

LEMMA DestroyedType ==
  ASSUME LoopType, NEW q, connect_destroyed(q)
  PROVE  /\ state' \in States /\ events' \subseteq {"read", "write"} /\ index' = "new"
         /\ UNCHANGED <<reading, wrShut, up>> /\ down' \in Nat /\ failed' \subseteq Assertions
<1>1. /\ state' \in {state, "disconnected"} /\ events' \in {events, {}} /\ index' = "new"
      /\ down' \in {down, down + 1} /\ UNCHANGED <<reading, wrShut, up>>
  BY DEF connect_destroyed
<1>2. failed' \subseteq Assertions
  BY DEF connect_destroyed, Fails, LoopType, Assertions
<1>3. down' \in Nat
  BY <1>1 DEF LoopType
<1> QED BY <1>1, <1>2, <1>3 DEF LoopType, States

LEMMA ReadingType ==
  ASSUME LoopType, NEW q, start_read_in_loop(q) \/ stop_read_in_loop(q),
         UNCHANGED <<state, wrShut, owner, up, down, failed>>
  PROVE  LoopType'
<1>1. /\ UNCHANGED channel \/ SetEvents(events \cup {"read"}) \/ SetEvents(events \ {"read"})
      /\ reading' \in BOOLEAN
  BY DEF start_read_in_loop, stop_read_in_loop, LoopType
<1>2. /\ events \cup {"read"} \subseteq {"read", "write"}
      /\ events \ {"read"} \subseteq {"read", "write"}
  BY DEF LoopType
<1>3. events' \subseteq {"read", "write"} /\ index' \in {"new", "added", "deleted"}
  BY <1>1, <1>2, EventsType DEF LoopType, channel
<1> QED BY <1>1, <1>3 DEF LoopType, owner

LEMMA LoopTypeStep ==
  ASSUME LoopType, Step
  PROVE  LoopType'
<1> USE DEF States
<1>1. ASSUME NEW c \in Caller, FinishCall(c) \/ StartCall(c) PROVE LoopType'
  <2>1. UNCHANGED loops
    BY <1>1 DEF StartCall, FinishCall, HandOver, Release, StartSend, StartShutdown,
                StartForceClose, QueueReading, QueueSend, SetDisconnecting, QueueClose
  <2>2. state' \in {state, "disconnecting"}
    BY <1>1 DEF StartCall, FinishCall, HandOver, Release, StartSend, StartShutdown,
                StartForceClose, QueueReading, QueueSend, SetDisconnecting, QueueClose
  <2> QED BY <2>1, <2>2 DEF LoopType, loops, channel, owner
<1>2. CASE RunEstablished
  <2>1. events \cup {"read"} \subseteq {"read", "write"}
    BY DEF LoopType
  <2>2. events' \subseteq {"read", "write"} /\ index' \in {"new", "added", "deleted"}
    BY <1>2, <2>1, EventsType DEF RunEstablished, connect_established
  <2> QED BY <1>2, <2>2 DEF RunEstablished, connect_established, LoopType, owner
<1>3. CASE RunSend \/ \E m \in Msg : LoopSend(m)
  BY <1>3, SendType DEF RunSend, LoopSend
<1>4. CASE \/ RunShutdown \/ LoopShutdown \/ LoopForceClose \/ RunComplete
           \/ PeerReads \/ PeerCloses \/ PeerResets
  <2>1. wrShut' \in BOOLEAN /\ state' \in {state, "disconnecting"}
    BY <1>4 DEF RunShutdown, LoopShutdown, LoopForceClose, RunComplete,
                PeerReads, PeerCloses, PeerResets, shutdown_in_loop, LoopType
  <2>2. UNCHANGED <<channel, reading, owner, up, down, failed>>
    BY <1>4 DEF RunShutdown, LoopShutdown, LoopForceClose, RunComplete,
                PeerReads, PeerCloses, PeerResets
  <2> QED BY <2>1, <2>2 DEF LoopType, channel, owner
<1>5. CASE RunForceClose
  <2>1. CASE handle_close(Tail(ioq))
    BY <1>5, <2>1, CloseType DEF RunForceClose
  <2>2. CASE ioq' = Tail(ioq) /\ UNCHANGED <<state, channel, down, failed, baseq, inMap>>
    BY <1>5, <2>2 DEF RunForceClose, LoopType, channel
  <2> QED BY <1>5, <2>1, <2>2 DEF RunForceClose, force_close_in_loop
<1>6. CASE RunReading \/ LoopReading
  BY <1>6, ReadingType DEF RunReading, LoopReading
<1>7. CASE RunDestroyed
  BY <1>7, DestroyedType DEF RunDestroyed, LoopType, owner
<1>8. CASE HandleRead \/ HandleHangup
  <2>1. CASE handle_close(ioq)
    BY <1>8, <2>1, CloseType DEF HandleRead, HandleHangup
  <2>2. CASE HandleRead /\ error
    BY <2>2 DEF HandleRead, LoopType, channel
  <2> QED BY <1>8, <2>1, <2>2 DEF HandleRead, HandleHangup
<1>9. CASE HandleWrite
  <2>1. UNCHANGED channel \/ SetEvents(events \ {"write"})
    BY <1>9 DEF HandleWrite
  <2>2. events \ {"write"} \subseteq {"read", "write"}
    BY DEF LoopType
  <2>3. events' \subseteq {"read", "write"} /\ index' \in {"new", "added", "deleted"}
    BY <2>1, <2>2, EventsType DEF LoopType, channel
  <2>4. wrShut' \in BOOLEAN
    BY <1>9 DEF HandleWrite, LoopType
  <2> QED BY <1>9, <2>3, <2>4 DEF HandleWrite, LoopType, owner
<1>10. CASE Remove
  <2>1. baseq' = baseq - 1 /\ baseq > 0 /\ inMap' = FALSE /\ failed' \subseteq Assertions
    BY <1>10 DEF Remove, Fails, LoopType, Assertions
  <2>2. UNCHANGED <<state, channel, reading, wrShut, server, up, down>>
    BY <1>10 DEF Remove
  <2>3. baseq' \in Nat
    BY <2>1 DEF LoopType
  <2> QED BY <2>1, <2>2, <2>3 DEF LoopType, channel
<1>11. CASE DestroyServer
  <2>1. ~server' /\ ~inMap' /\ UNCHANGED baseq /\ server' = FALSE /\ inMap' = FALSE
    BY <1>11 DEF DestroyServer
  <2>2. \/ inMap /\ SameLoop /\ connect_destroyed(ioq)
        \/ UNCHANGED <<state, channel, reading, wrShut, up, down, failed>>
    BY <1>11, Zenon DEF DestroyServer, stream
  <2>3. CASE connect_destroyed(ioq)
    BY <2>1, <2>3, DestroyedType DEF LoopType
  <2> QED BY <2>1, <2>2, <2>3 DEF LoopType, channel
<1> QED
  BY <1>1, <1>2, <1>3, <1>4, <1>5, <1>6, <1>7, <1>8, <1>9, <1>10, <1>11
     DEF Step, RunFunctor, HandleEvent, UserStep, BaseStep

LEMMA RoomType ==
  ASSUME OtherType, Next
  PROVE  room' \in BOOLEAN
<1>1. UNCHANGED room => room' \in BOOLEAN
  BY DEF OtherType
<1>2. ASSUME NEW k, NEW n, Takes(k, n) PROVE room' \in BOOLEAN
  BY <1>2 DEF Takes, OtherType
<1>3. ASSUME NEW m, NEW q, send_in_loop(m, q) PROVE room' \in BOOLEAN
  BY <1>1, <1>2, <1>3 DEF send_in_loop, stream
<1>4. CASE RunSend \/ \E m \in Msg : LoopSend(m)
  BY <1>3, <1>4 DEF RunSend, LoopSend
<1>5. CASE HandleWrite
  BY <1>2, <1>5 DEF HandleWrite
<1>6. CASE PeerReads
  BY <1>6 DEF PeerReads
<1>7. CASE DestroyServer
  <2>1. connect_destroyed(ioq) \/ UNCHANGED stream
    BY <1>7, Zenon DEF DestroyServer
  <2> QED BY <1>1, <2>1 DEF connect_destroyed, stream
<1>8. ASSUME NEW c \in Caller, StartCall(c) \/ FinishCall(c) PROVE UNCHANGED room
  BY <1>8 DEF StartCall, FinishCall, HandOver, Release, StartSend, StartShutdown, StartForceClose,
         QueueReading, QueueSend, SetDisconnecting, QueueClose, loops, stream
<1>9. CASE \/ RunEstablished \/ RunShutdown \/ RunForceClose \/ RunReading \/ RunComplete
           \/ RunDestroyed \/ HandleRead \/ HandleHangup \/ LoopShutdown \/ LoopForceClose
           \/ LoopReading \/ Remove \/ PeerCloses \/ PeerResets
  <2>1. UNCHANGED room
    BY <1>9 DEF RunEstablished, RunShutdown, RunForceClose, RunReading, RunComplete, RunDestroyed,
           HandleRead, HandleHangup, LoopShutdown, LoopForceClose, LoopReading, Remove,
           PeerCloses, PeerResets, connect_established, connect_destroyed, stream
  <2> QED BY <1>1, <2>1
<1> QED BY <1>1, <1>4, <1>5, <1>6, <1>7, <1>8, <1>9
        DEF Next, Step, RunFunctor, HandleEvent, UserStep, BaseStep

LEMMA OtherTypeStep ==
  ASSUME LoopType, OtherType, Next
  PROVE  OtherType'
<1>1. error' \in BOOLEAN /\ peer' \in {"open", "fin", "rst"}
  BY DEF OtherType, Next, Step, RunFunctor, HandleEvent, UserStep, BaseStep, StartCall, FinishCall,
         RunEstablished, RunSend, RunShutdown, RunForceClose, RunReading, RunComplete, RunDestroyed,
         HandleRead, HandleHangup, HandleWrite, LoopSend, LoopShutdown, LoopForceClose, LoopReading,
         Remove, DestroyServer, HandOver, Release, StartSend, StartShutdown, StartForceClose,
         QueueReading, QueueSend, SetDisconnecting, QueueClose, PeerReads, PeerCloses, PeerResets,
         loops
<1>2. dead' \in BOOLEAN /\ room' \in BOOLEAN
  BY RoomType DEF OtherType, Next, Destructor
<1>3. CASE UNCHANGED callers
  BY <1>1, <1>2, <1>3 DEF OtherType, callers
<1>4. ASSUME NEW c \in Caller, StartCall(c) \/ FinishCall(c) PROVE OtherType'
  <2>1. cpc' \in [Caller -> {"none", "idle", "gone", "send", "shutdown", "force_close",
                             "shutdown_set", "force_close_set"}]
    BY <1>4 DEF OtherType, StartCall, FinishCall, HandOver, Release, StartSend, StartShutdown,
                StartForceClose, QueueReading, QueueSend, SetDisconnecting, QueueClose, At
  <2>2. called' \subseteq (Caller \cup {"loop"}) \X Calls
    BY <1>4 DEF OtherType, StartCall, FinishCall, HandOver, Release, StartSend, StartShutdown,
                StartForceClose, QueueReading, QueueSend, SetDisconnecting, QueueClose, Calls
  <2>3. used' \subseteq Msg
    BY <1>4 DEF OtherType, StartCall, FinishCall, HandOver, Release, StartSend, StartShutdown,
                StartForceClose, QueueReading, QueueSend, SetDisconnecting, QueueClose
  <2> QED BY <1>1, <1>2, <2>1, <2>2, <2>3 DEF OtherType
<1>5. CASE UserStep
  <2>1. UNCHANGED cpc
    BY <1>5 DEF UserStep, LoopSend, LoopShutdown, LoopForceClose, LoopReading
  <2>2. called' \subseteq (Caller \cup {"loop"}) \X Calls /\ used' \subseteq Msg
    BY <1>5 DEF OtherType, UserStep, LoopSend, LoopShutdown, LoopForceClose, LoopReading, Once,
                Calls
  <2> QED BY <1>1, <1>2, <2>1, <2>2 DEF OtherType
<1>6. \/ UNCHANGED callers \/ UserStep
      \/ \E c \in Caller : StartCall(c) \/ FinishCall(c)
  BY DEF Next, Step, RunFunctor, HandleEvent, BaseStep, RunEstablished, RunSend, RunShutdown,
         RunForceClose, RunReading, RunComplete, RunDestroyed, HandleRead, HandleHangup,
         HandleWrite, Remove, DestroyServer, PeerReads, PeerCloses, PeerResets
<1> QED BY <1>3, <1>4, <1>5, <1>6

LEMMA TypesStart == Init => LoopType /\ OtherType
<1>1. Init => LoopType
  <2> SUFFICES ASSUME Init PROVE LoopType
    OBVIOUS
  <2>1. baseq \in Nat /\ up \in Nat /\ down \in Nat
    BY DEF Init
  <2>2. /\ inMap \in BOOLEAN /\ server \in BOOLEAN /\ (inMap => server)
        /\ reading \in BOOLEAN /\ wrShut \in BOOLEAN
    BY Zenon DEF Init
  <2>3. /\ state \in States /\ events \subseteq {"read", "write"} /\ index = "new"
        /\ failed \subseteq Assertions
    BY DEF Init, States, Assertions
  <2> QED BY <2>1, <2>2, <2>3 DEF LoopType
<1>2. Init => OtherType
  BY DEF Init, OtherType
<1> QED BY <1>1, <1>2

LEMMA TypesStay == LoopType /\ OtherType /\ [Next]_vars => LoopType' /\ OtherType'
<1>1. CASE Next
  BY <1>1, LoopTypeStep, OtherTypeStep DEF Next
<1>2. CASE UNCHANGED vars
  BY <1>2 DEF vars, LoopType, OtherType, channel, owner, callers
<1> QED BY <1>1, <1>2

\* Types and stream together, as the proofs below use them.
Types == StreamType /\ StreamInv /\ LoopType /\ OtherType

LEMMA AllTypes == Spec => []Types
<1>1. Init => Types
  BY StreamStarts, TypesStart DEF Types
<1>2. Types /\ [Next]_vars => Types'
  BY StreamStep, TypesStay DEF Types
<1> QED BY <1>1, <1>2, PTL DEF Spec

\* TypeOK: every variable keeps its type, and the server's map belongs to a server.
THEOREM TypeCorrect == Spec => []TypeOK
<1>1. Types => TypeOK
  BY DEF Types, TypeOK, StreamType, LoopType, OtherType, States, Assertions, Unit
<1> QED BY <1>1, AllTypes, PTL

-----------------------------------------------------------------------------
(* Half-close.  What waits is polled for until the connection goes down, so  *)
(* that a connection which does not poll for writing has written everything. *)

WaitInv == down = 0 /\ output # <<>> => "write" \in events

\* Steps that neither buffer nor stop polling for writing.
LEMMA WaitQuiet ==
  ASSUME WaitInv, UNCHANGED <<output, down>>, "write" \in events => "write" \in events'
  PROVE  WaitInv'
BY DEF WaitInv

LEMMA WaitReading ==
  ASSUME WaitInv, NEW q, start_read_in_loop(q) \/ stop_read_in_loop(q), UNCHANGED <<stream, down>>
  PROVE  WaitInv'
<1>1. events' \in {events, events \cup {"read"}, events \ {"read"}}
  BY DEF start_read_in_loop, stop_read_in_loop, SetEvents, channel
<1> QED BY <1>1, WaitQuiet DEF stream

LEMMA WaitSend ==
  ASSUME StreamType, WaitInv, NEW m \in Msg, NEW q, send_in_loop(m, q), UNCHANGED down
  PROVE  WaitInv'
<1>1. enable_write => "write" \in events'
  BY DEF enable_write, SetEvents, channel
<1>2. ASSUME Idle, NEW k \in 0 .. Parts, output' = output \o SubSeq(Units(m), k + 1, Parts),
             k = Parts
      PROVE  output' = <<>>
  <2>1. Units(m) \in Seq(Unit) /\ Parts \in Nat
    BY UnitsType, ConnectionAssumption DEF ConnectionAssumption
  <2>2. SubSeq(Units(m), Parts + 1, Parts) = <<>>
    BY <2>1, SubSeqEmpty
  <2>3. output = <<>>
    BY <1>2 DEF Idle
  <2> QED BY <1>2, <2>2, <2>3
<1>3. \/ UNCHANGED <<output, events>>
      \/ enable_write
      \/ Idle /\ \E k \in 0 .. Parts :
           output' = output \o SubSeq(Units(m), k + 1, Parts) /\ (k = Parts \/ enable_write)
  BY DEF send_in_loop, stream, channel
<1> QED BY <1>1, <1>2, <1>3 DEF WaitInv

LEMMA WaitStep ==
  ASSUME StreamType, LoopType, WaitInv, [Next]_vars
  PROVE  WaitInv'
<1>1. ASSUME NEW q, handle_close(q) PROVE WaitInv'
  <2>1. down' = down + 1 /\ down \in Nat
    BY <1>1 DEF handle_close, LoopType
  <2>2. down' # 0
    BY <2>1
  <2> QED BY <2>2 DEF WaitInv
<1>2. ASSUME NEW q, connect_destroyed(q) PROVE WaitInv'
  <2>1. CASE state = "connected"
    <3>1. down' = down + 1 /\ down \in Nat
      BY <1>2, <2>1 DEF connect_destroyed, LoopType
    <3>2. down' # 0
      BY <3>1
    <3> QED BY <3>2 DEF WaitInv
  <2>2. CASE state # "connected"
    BY <1>2, <2>2, WaitQuiet DEF connect_destroyed, stream
  <2> QED BY <2>1, <2>2
<1>3. CASE RunSend \/ \E m \in Msg : LoopSend(m)
  <2>1. CASE RunSend
    <3>1. ioq # <<>> /\ Head(ioq).op = "send" /\ send_in_loop(Head(ioq).msg, Tail(ioq))
      BY <2>1 DEF RunSend, Functor
    <3>2. Head(ioq).msg \in Msg
      BY <3>1, TailType, FunctorMessage
    <3> QED BY <2>1, <3>1, <3>2, WaitSend DEF RunSend
  <2> QED BY <1>3, <2>1, WaitSend DEF LoopSend
<1>4. CASE RunEstablished
  BY <1>4, WaitQuiet DEF RunEstablished, connect_established, SetEvents, stream
<1>5. CASE RunForceClose \/ HandleRead \/ HandleHangup
  BY <1>1, <1>5, WaitQuiet
     DEF RunForceClose, force_close_in_loop, HandleRead, HandleHangup, stream, channel
<1>6. CASE RunReading \/ LoopReading
  BY <1>6, WaitReading DEF RunReading, LoopReading
<1>7. CASE RunDestroyed
  BY <1>2, <1>7 DEF RunDestroyed
<1>8. CASE DestroyServer
  <2>1. connect_destroyed(ioq) \/ UNCHANGED <<channel, stream, down>>
    BY <1>8, Zenon DEF DestroyServer
  <2> QED BY <1>2, <2>1, WaitQuiet DEF channel, stream
<1>9. CASE HandleWrite
  <2>1. PICK k \in 1 .. Len(output) :
           /\ output' = SubSeq(output, k + 1, Len(output))
           /\ k = Len(output) \/ UNCHANGED channel
    BY <1>9 DEF HandleWrite
  <2>2. "write" \in events
    BY <1>9 DEF HandleWrite, Event
  <2>3. CASE k = Len(output)
    <3>1. output \in Seq(Unit) /\ Len(output) \in Nat
      BY LenProperties DEF StreamType
    <3>2. output' = <<>>
      BY <2>1, <2>3, <3>1, SubSeqEmpty
    <3> QED BY <3>2 DEF WaitInv
  <2>4. CASE UNCHANGED channel
    BY <2>2, <2>4 DEF WaitInv, channel
  <2> QED BY <2>1, <2>3, <2>4
<1>10. CASE \/ RunShutdown \/ RunComplete \/ LoopShutdown \/ LoopForceClose \/ Remove
            \/ PeerReads \/ PeerCloses \/ PeerResets
  BY <1>10, WaitQuiet DEF RunShutdown, RunComplete, LoopShutdown, LoopForceClose, Remove,
                          PeerReads, PeerCloses, PeerResets, channel, stream
<1>11. ASSUME NEW c \in Caller, StartCall(c) \/ FinishCall(c) PROVE WaitInv'
  <2>1. UNCHANGED <<channel, stream, down>>
    BY <1>11 DEF StartCall, FinishCall, HandOver, Release, StartSend, StartShutdown,
           StartForceClose, QueueReading, QueueSend, SetDisconnecting, QueueClose, loops
  <2> QED BY <2>1, WaitQuiet DEF channel, stream
<1>12. CASE UNCHANGED vars
  BY <1>12, WaitQuiet DEF vars
<1> QED
  BY <1>3, <1>4, <1>5, <1>6, <1>7, <1>8, <1>9, <1>10, <1>11, <1>12
     DEF Next, Step, RunFunctor, HandleEvent, UserStep, BaseStep

LEMMA HalfCloseStep ==
  ASSUME StreamType, StreamInv, LoopType, WaitInv, Next, HalfClose, peer = "open", down = 0
  PROVE  sent' = accepted'
<1>1. ~Broken /\ sent \o output = accepted
  BY DEF HalfClose, Broken, StreamInv
<1>2. CASE RunShutdown \/ LoopShutdown
  <2>1. "write" \notin events /\ UNCHANGED stream
    BY <1>2 DEF RunShutdown, LoopShutdown, shutdown_in_loop, HalfClose
  <2>2. output = <<>>
    BY <2>1 DEF WaitInv
  <2> QED BY <1>1, <2>1, <2>2, ConcatEmptySeq DEF StreamType, stream
<1>3. CASE HandleWrite
  <2>1. UNCHANGED accepted
    BY <1>3 DEF HandleWrite
  <2>2. sent' = sent \o SubSeq(output, 1, Len(output))
    BY <1>3 DEF HandleWrite, HalfClose
  <2>3. SubSeq(output, 1, Len(output)) = output
    BY SubSeqFull DEF StreamType
  <2> QED BY <1>1, <2>1, <2>2, <2>3
<1>4. CASE BaseStep
  BY <1>4, Zenon DEF BaseStep, Remove, DestroyServer, HalfClose, connect_destroyed
<1>5. CASE \/ RunEstablished \/ RunSend \/ RunForceClose \/ RunReading \/ RunComplete
           \/ RunDestroyed \/ HandleRead \/ HandleHangup
  BY <1>5 DEF RunEstablished, RunSend, RunForceClose, RunReading, RunComplete, RunDestroyed,
              HandleRead, HandleHangup, connect_established, connect_destroyed, HalfClose
<1>6. CASE \/ (\E m \in Msg : LoopSend(m)) \/ LoopForceClose \/ LoopReading
           \/ PeerReads \/ PeerCloses \/ PeerResets
           \/ \E c \in Caller : StartCall(c) \/ FinishCall(c)
  BY <1>6 DEF LoopSend, LoopForceClose, LoopReading, PeerReads, PeerCloses, PeerResets, StartCall,
         FinishCall, HandOver, Release, StartSend, StartShutdown, StartForceClose, QueueReading,
         QueueSend, SetDisconnecting, QueueClose, loops, HalfClose
<1> QED
  BY <1>2, <1>3, <1>4, <1>5, <1>6 DEF Next, Step, RunFunctor, HandleEvent, UserStep

\* GracefulShutdown: the write side is shut down when everything that the loop took
\* has been written, by shutdown_in_loop() or by the last handle_write(), whatever is
\* called and in whatever order, as long as the peer and the connection are there.
THEOREM HalfCloseGraceful == Spec => GracefulShutdown
<1>1. Init => WaitInv
  BY DEF Init, WaitInv
<1>2. Types /\ WaitInv /\ [Next]_vars => WaitInv'
  BY WaitStep DEF Types
<1>3. Types /\ WaitInv /\ [Next]_vars
        => [HalfClose /\ peer = "open" /\ down = 0 => sent' = accepted']_vars
  BY HalfCloseStep DEF Types
<1> QED BY <1>1, <1>2, <1>3, AllTypes, PTL DEF Spec, GracefulShutdown

-----------------------------------------------------------------------------
(* The life of a connection: five phases, in this order.  Each says who      *)
(* holds the connection and what is still queued for it.                     *)

\* The use of a connection that its interface allows for: no calls that turn reading
\* off or on, calls of shutdown() and force_close() by other threads that no other step
\* falls into, and a server that outlives the connection.  (Each is needed: without it both
\* UpThenDown and AssertionsHold fail.)
OrderlyUse ==
  /\ LoopCalls \cup OtherCalls \subseteq {"send", "shutdown", "force_close"}
  /\ Races => OtherCalls \subseteq {"send"}
  /\ ~ServerEnds

Absent(op, q) == \A i \in 1 .. Len(q) : q[i].op # op

\* One connect_destroyed is queued, the last functor unless calls race.
Pending(q) == \E k \in 1 .. Len(q) :
                /\ q[k].op = "destroyed" /\ \A i \in 1 .. Len(q) : i # k => q[i].op # "destroyed"
                /\ ~Races => k = Len(q)

NotQueued(q) == Absent("established", q) /\ Absent("stop_read", q) /\ Absent("start_read", q)

Connecting == /\ state = "connecting" /\ up = 0 /\ down = 0 /\ inMap /\ baseq = 0
              /\ index = "new" /\ events = {} /\ ioq = <<F("established")>>
              /\ \A c \in Caller : cpc[c] = "none"

Up == /\ state \in {"connected", "disconnecting"} /\ up = 1 /\ down = 0 /\ inMap /\ baseq = 0
      /\ index = "added" /\ "read" \in events
      /\ NotQueued(ioq) /\ Absent("destroyed", ioq)

Down == state = "disconnected" /\ up = 1 /\ down = 1 /\ events = {} /\ NotQueued(ioq)

Leaving == Down /\ inMap /\ baseq = 1 /\ index = "deleted" /\ Absent("destroyed", ioq)

Removed == Down /\ ~inMap /\ baseq = 0 /\ index = "deleted" /\ Pending(ioq)

Over == /\ Down /\ ~inMap /\ baseq = 0 /\ index = "new" /\ Absent("destroyed", ioq)
        /\ ~Races => ioq = <<>>

Phase == Connecting \/ Up \/ Leaving \/ Removed \/ Over

\* What the other threads are doing.
Orderly == /\ Races => \A c \in Caller : cpc[c] \in {"none", "idle", "gone", "send"}
           /\ ~Races => \A c \in Caller : cpc[c] \notin {"none", "idle", "gone"} => Up

LifeInv == Phase /\ Orderly /\ server /\ failed = {} /\ (dead => Over)

-----------------------------------------------------------------------------
(* The queue. *)

LEMMA TailKeeps ==
  ASSUME NEW q \in Seq(Functors), q # <<>>
  PROVE  /\ \A op : Absent(op, q) => Absent(op, Tail(q)) /\ Head(q).op # op
         /\ Pending(q) /\ Head(q).op # "destroyed" => Pending(Tail(q))
         /\ Pending(q) /\ Head(q).op = "destroyed" =>
              Absent("destroyed", Tail(q)) /\ (~Races => Tail(q) = <<>>)
<1> DEFINE t == Tail(q)
           n == Len(q)
<1>1. /\ n \in Nat \ {0} /\ Len(t) = n - 1 /\ Head(q) = q[1] /\ t \in Seq(Functors)
      /\ \A i \in 1 .. n - 1 : t[i] = q[i + 1]
  OBVIOUS
<1>2. /\ 1 \in 1 .. n /\ \A i \in 1 .. n - 1 : i + 1 \in 1 .. n /\ i + 1 # 1
      /\ \A i \in 1 .. n : i # 1 => i - 1 \in 1 .. n - 1 /\ (i - 1) + 1 = i
  BY <1>1
<1>3. t = <<>> <=> n = 1
  <2>1. t = <<>> <=> Len(t) = 0
    BY <1>1, EmptySeq
  <2> QED BY <1>1, <2>1
<1> HIDE DEF t
<1>4. ASSUME NEW op, Absent(op, q) PROVE Absent(op, t) /\ Head(q).op # op
  BY <1>1, <1>2, <1>4 DEF Absent
<1>5. ASSUME NEW k \in 1 .. n, q[k].op = "destroyed",
             \A i \in 1 .. n : i # k => q[i].op # "destroyed", ~Races => k = n
      PROVE  /\ Head(q).op # "destroyed" => Pending(t)
             /\ Head(q).op = "destroyed" =>
                  Absent("destroyed", t) /\ (~Races => t = <<>>)
  <2>1. CASE k = 1
    <3>1. \A i \in 1 .. n - 1 : t[i].op # "destroyed"
      BY <1>1, <1>2, <1>5, <2>1
    <3>2. Absent("destroyed", t)
      BY <1>1, <3>1 DEF Absent
    <3> QED BY <1>1, <1>3, <1>5, <2>1, <3>2
  <2>2. CASE k # 1
    <3>1. Head(q).op # "destroyed"
      BY <1>1, <1>2, <1>5, <2>2
    <3>2. /\ k - 1 \in 1 .. n - 1 /\ t[k - 1].op = "destroyed" /\ (~Races => k - 1 = n - 1)
      BY <1>1, <1>2, <1>5, <2>2
    <3>3. \A i \in 1 .. n - 1 : i # k - 1 => t[i].op # "destroyed"
      <4> SUFFICES ASSUME NEW i \in 1 .. n - 1, i # k - 1 PROVE t[i].op # "destroyed"
        OBVIOUS
      <4>1. i + 1 # k /\ i + 1 \in 1 .. n
        BY <1>1, <1>2
      <4> QED BY <1>1, <1>5, <4>1
    <3> QED BY <1>1, <3>1, <3>2, <3>3 DEF Pending
  <2> QED BY <2>1, <2>2
<1> QED BY <1>4, <1>5 DEF Pending, t

LEMMA AppendKeeps ==
  ASSUME NEW q \in Seq(Functors), NEW f \in Functors
  PROVE  /\ \A op : Absent(op, q) /\ f.op # op => Absent(op, Append(q, f))
         /\ Races /\ Pending(q) /\ f.op # "destroyed" => Pending(Append(q, f))
         /\ Absent("destroyed", q) /\ f.op = "destroyed" => Pending(Append(q, f))
<1>1. /\ Len(q) \in Nat /\ Len(Append(q, f)) = Len(q) + 1 /\ Append(q, f)[Len(q) + 1] = f
      /\ \A i \in 1 .. Len(q) : Append(q, f)[i] = q[i]
  OBVIOUS
<1> DEFINE r == Append(q, f)
           n == Len(q)
<1>2. /\ n \in Nat /\ Len(r) = n + 1 /\ r[n + 1] = f /\ \A i \in 1 .. n : r[i] = q[i]
  BY <1>1
<1>3. \A i \in 1 .. n + 1 : i \in 1 .. n \/ i = n + 1
  BY <1>2
<1>4. 1 .. n \subseteq 1 .. n + 1 /\ n + 1 \in 1 .. n + 1 /\ n + 1 \notin 1 .. n
  BY <1>2
<1> HIDE DEF r
<1>5. ASSUME NEW op, Absent(op, q), f.op # op PROVE Absent(op, r)
  BY <1>2, <1>3, <1>5 DEF Absent
<1>6. ASSUME Races, Pending(q), f.op # "destroyed" PROVE Pending(r)
  BY <1>2, <1>3, <1>4, <1>6 DEF Pending
<1>7. ASSUME Absent("destroyed", q), f.op = "destroyed" PROVE Pending(r)
  BY <1>2, <1>3, <1>4, <1>7 DEF Pending, Absent
<1> QED BY <1>5, <1>6, <1>7 DEF r

-----------------------------------------------------------------------------
(* Steps within a phase. *)

\* The queue keeps what the phases say of it.
Keeps == /\ NotQueued(ioq) => NotQueued(ioq')
         /\ Absent("destroyed", ioq) => Absent("destroyed", ioq')
         /\ Pending(ioq) => Pending(ioq')
         /\ ~Races /\ ioq = <<>> => ioq' = <<>>

LEMMA QueueKeeps ==
  ASSUME StreamType,
         \/ ioq' = ioq
         \/ ioq # <<>> /\ Head(ioq).op \notin {"established", "destroyed"} /\ ioq' = Tail(ioq)
         \/ Races /\ \E m \in Msg : ioq' = Append(ioq, Send(m))
  PROVE  Keeps
<1>1. CASE ioq' = ioq
  BY <1>1 DEF Keeps
<1>2. CASE ioq # <<>> /\ Head(ioq).op \notin {"established", "destroyed"} /\ ioq' = Tail(ioq)
  BY <1>2, TailKeeps DEF Keeps, NotQueued, StreamType
<1>3. ASSUME Races, NEW m \in Msg, ioq' = Append(ioq, Send(m)) PROVE Keeps
  <2>1. Send(m) \in Functors /\ Send(m).op = "send"
    BY DEF Send, Functors
  <2> QED BY <1>3, <2>1, AppendKeeps DEF Keeps, NotQueued, StreamType
<1> QED BY <1>1, <1>2, <1>3

Late == Leaving \/ Removed \/ Over

\* Once down, a connection that nobody removes or destroys stays as it is.
LEMMA LateStays ==
  ASSUME Late, Keeps, UNCHANGED <<state, channel, baseq, inMap, up, down>>
  PROVE  Late' /\ (Over => Over')
<1>1. Down'
  BY DEF Late, Leaving, Removed, Over, Down, Keeps, channel
<1>2. CASE Leaving
  BY <1>1, <1>2 DEF Late, Leaving, Over, Keeps, channel
<1>3. CASE Removed
  BY <1>1, <1>3 DEF Late, Removed, Over, Keeps, channel
<1>4. CASE Over
  BY <1>1, <1>4 DEF Late, Over, Keeps, channel
<1> QED BY <1>2, <1>3, <1>4 DEF Late

\* The functors that are queued while a connection is up.
LEMMA UpQueue ==
  ASSUME NEW q \in Seq(Functors), NotQueued(q), Absent("destroyed", q), NEW r,
         \/ r = q
         \/ q # <<>> /\ r = Tail(q)
         \/ \E op \in {"complete", "force_close", "shutdown"} : r = Append(q, F(op))
         \/ \E m \in Msg : r = Append(q, Send(m))
  PROVE  r \in Seq(Functors) /\ NotQueued(r) /\ Absent("destroyed", r)
<1>1. CASE q # <<>> /\ r = Tail(q)
  BY <1>1, TailKeeps DEF NotQueued
<1>2. ASSUME NEW op \in {"complete", "force_close", "shutdown"}, r = Append(q, F(op))
      PROVE  r \in Seq(Functors) /\ NotQueued(r) /\ Absent("destroyed", r)
  <2>1. F(op) \in Functors /\ F(op).op = op
    BY DEF F, Functors, Owning, Raw
  <2> QED BY <1>2, <2>1, AppendKeeps DEF NotQueued
<1>3. ASSUME NEW m \in Msg, r = Append(q, Send(m))
      PROVE  r \in Seq(Functors) /\ NotQueued(r) /\ Absent("destroyed", r)
  <2>1. Send(m) \in Functors /\ Send(m).op = "send"
    BY DEF Send, Functors
  <2> QED BY <1>3, <2>1, AppendKeeps DEF NotQueued
<1> QED BY <1>1, <1>2, <1>3

LEMMA UpStays ==
  ASSUME Up, state' \in {"connected", "disconnecting"}, UNCHANGED <<baseq, inMap, up, down>>,
         index' = "added", "read" \in events', NotQueued(ioq'), Absent("destroyed", ioq')
  PROVE  Up'
BY DEF Up

\* A step that touches neither the channel nor the owner of the connection.
LEMMA Onward ==
  ASSUME StreamType, Up \/ Late, UNCHANGED <<state, channel, baseq, inMap, up, down>>,
         ioq' = ioq \/ (ioq # <<>> /\ Head(ioq).op # "destroyed" /\ ioq' = Tail(ioq))
  PROVE  Phase' /\ (Over => Over')
<1>1. CASE Up
  <2>1. NotQueued(ioq') /\ Absent("destroyed", ioq')
    BY <1>1, UpQueue DEF Up, StreamType
  <2>2. Up'
    BY <1>1, <2>1, UpStays DEF Up, channel
  <2> QED BY <1>1, <2>2 DEF Phase, Up, Over, Down
<1>2. CASE Late
  <2>1. ioq # <<>> => Head(ioq).op # "established"
    BY <1>2, TailKeeps DEF Late, Leaving, Removed, Over, Down, NotQueued, StreamType
  <2>2. Keeps
    BY <2>1, QueueKeeps
  <2> QED BY <1>2, <2>2, LateStays DEF Phase, Late
<1> QED BY <1>1, <1>2

\* handle_close() takes a connection that is up to the server, asserting nothing false.
LEMMA CloseEnds ==
  ASSUME Up, server, failed = {}, NEW q \in Seq(Functors), NotQueued(q), Absent("destroyed", q),
         handle_close(q), UNCHANGED up
  PROVE  (Leaving' \/ Removed') /\ failed' = {}
<1>1. failed' = {} /\ state' = "disconnected" /\ down' = 1 /\ up' = 1 /\ events' = {}
  BY DEF handle_close, Fails, Up, SetEvents
<1>2. index' = "deleted"
  BY DEF handle_close, SetEvents, Up
<1>3. CASE SameLoop
  <2>1. inMap' = FALSE /\ ioq' = Append(q, F("destroyed")) /\ UNCHANGED baseq
    BY <1>3 DEF handle_close, remove_connection
  <2>2. F("destroyed") \in Functors /\ F("destroyed").op = "destroyed"
    BY DEF F, Functors, Owning
  <2>3. NotQueued(ioq') /\ Pending(ioq')
    BY <2>1, <2>2, AppendKeeps DEF NotQueued
  <2> QED BY <1>1, <1>2, <2>1, <2>3 DEF Removed, Down, Up
<1>4. CASE ~SameLoop
  <2>1. baseq' = baseq + 1 /\ ioq' = q /\ UNCHANGED inMap
    BY <1>4 DEF handle_close, remove_connection
  <2>2. baseq' = 1
    BY <2>1 DEF Up
  <2> QED BY <1>1, <1>2, <2>1, <2>2 DEF Leaving, Down, Up
<1> QED BY <1>3, <1>4

-----------------------------------------------------------------------------
(* The steps of the two loops and of the peer. *)

Onwards == Phase' /\ (Over => Over') /\ failed' = {} /\ server'

\* What a step needs to know of the phase to be possible.
LEMMA PhaseFacts ==
  ASSUME StreamType, Phase
  PROVE  /\ up = 1 => Up \/ Late
         /\ ioq # <<>> /\ Head(ioq).op # "established" => Up \/ Late
         /\ ioq # <<>> /\ Head(ioq).op = "established" => Connecting
         /\ ioq # <<>> /\ Head(ioq).op = "destroyed" => Removed
         /\ ioq # <<>> => Head(ioq).op \notin {"stop_read", "start_read"}
         /\ state \in {"connected", "disconnecting"} => Up
         /\ index = "added" => Up
         /\ baseq > 0 => Leaving
         /\ Up => state # "disconnected" /\ ~Connecting /\ ~Over
         /\ Late => state = "disconnected"
<1>1. CASE Connecting
  <2>1. F("established").op = "established"
    BY DEF F
  <2>2. ioq = <<F("established")>> /\ Head(ioq) = F("established")
    BY <1>1 DEF Connecting
  <2> QED BY <1>1, <2>1, <2>2 DEF Connecting, Up, Late, Leaving, Removed, Over, Down
<1>2. ASSUME NEW op, Absent(op, ioq), ioq # <<>> PROVE Head(ioq).op # op
  BY <1>2, TailKeeps DEF StreamType
<1>3. CASE Up
  BY <1>2, <1>3 DEF Up, NotQueued, Connecting, Late, Leaving, Removed, Over, Down
<1>4. CASE Late
  BY <1>2, <1>4 DEF NotQueued, Connecting, Up, Late, Leaving, Removed, Over, Down
<1> QED BY <1>1, <1>3, <1>4 DEF Phase, Late

LEMMA LifeSend ==
  ASSUME StreamType, Up, NEW m \in Msg, NEW q \in Seq(Functors), NotQueued(q),
         Absent("destroyed", q), send_in_loop(m, q), UNCHANGED <<state, owner, up, down>>
  PROVE  Up'
<1>1. ioq' = q \/ ioq' = Append(q, F("complete"))
  BY DEF send_in_loop
<1>2. NotQueued(ioq') /\ Absent("destroyed", ioq')
  BY <1>1, UpQueue
<1>3. UNCHANGED channel \/ SetEvents(events \cup {"write"})
  BY DEF send_in_loop, enable_write
<1>4. index' = "added" /\ "read" \in events'
  BY <1>3 DEF Up, SetEvents, channel
<1> QED BY <1>2, <1>4, UpStays DEF Up, owner

LEMMA LifeFunctor ==
  ASSUME OrderlyUse, StreamType, Phase, server, failed = {}, RunFunctor
  PROVE  Onwards
<1>1. /\ ioq # <<>> /\ Head(ioq) \in Functors /\ Tail(ioq) \in Seq(Functors)
      /\ ioq \in Seq(Functors)
  BY TailType DEF RunFunctor, RunEstablished, RunSend, RunShutdown, RunForceClose,
                  RunReading, RunComplete, RunDestroyed, Functor, StreamType
<1>2. Up => NotQueued(Tail(ioq)) /\ Absent("destroyed", Tail(ioq))
  BY <1>1, UpQueue DEF Up
<1>3. CASE RunEstablished
  <2>1. Connecting
    BY <1>3, PhaseFacts DEF RunEstablished, Functor
  <2>2. ioq' = <<>>
    BY <1>3, <2>1 DEF RunEstablished, connect_established, Connecting
  <2>3. NotQueued(ioq') /\ Absent("destroyed", ioq')
    BY <2>2 DEF NotQueued, Absent
  <2>4. /\ state' = "connected" /\ up' = up + 1 /\ events' = events \cup {"read"}
        /\ index' = "added" /\ UNCHANGED <<owner, down, failed>>
    BY <1>3 DEF RunEstablished, connect_established, SetEvents
  <2>5. Up'
    BY <2>1, <2>3, <2>4 DEF Up, Connecting, owner
  <2> QED BY <2>1, <2>4, <2>5 DEF Onwards, Phase, owner, Connecting, Over, Down
<1>4. CASE RunSend
  <2>1. Head(ioq).op = "send" /\ send_in_loop(Head(ioq).msg, Tail(ioq)) /\ Head(ioq).msg \in Msg
    BY <1>1, <1>4, FunctorMessage DEF RunSend, Functor
  <2>2. UNCHANGED <<state, owner, up, down, failed>>
    BY <1>4 DEF RunSend
  <2>3. CASE Up
    <3>1. Up'
      BY <1>1, <1>2, <2>1, <2>2, <2>3, LifeSend
    <3> QED BY <2>2, <2>3, <3>1, PhaseFacts DEF Onwards, Phase, owner
  <2>4. CASE Late
    <3>1. ioq' = Tail(ioq) /\ UNCHANGED channel
      BY <2>1, <2>4, PhaseFacts DEF send_in_loop
    <3> QED BY <1>1, <2>1, <2>2, <2>4, <3>1, Onward DEF Onwards, owner
  <2> QED BY <1>1, <2>1, <2>3, <2>4, PhaseFacts
<1>5. CASE RunShutdown \/ RunComplete
  <2>1. /\ Head(ioq).op \in {"shutdown", "complete"} /\ ioq' = Tail(ioq)
        /\ UNCHANGED <<state, channel, owner, up, down, failed>>
    BY <1>5 DEF RunShutdown, RunComplete, Functor
  <2> QED BY <1>1, <2>1, PhaseFacts, Onward DEF Onwards, owner
<1>6. CASE RunForceClose
  <2>1. /\ Head(ioq).op = "force_close" /\ force_close_in_loop(Tail(ioq))
        /\ UNCHANGED <<server, up>>
    BY <1>6 DEF RunForceClose, Functor
  <2>2. CASE Up
    <3>1. handle_close(Tail(ioq))
      BY <2>1, <2>2 DEF force_close_in_loop, Up
    <3>2. (Leaving' \/ Removed') /\ failed' = {}
      BY <1>1, <1>2, <2>1, <2>2, <3>1, CloseEnds
    <3> QED BY <2>1, <2>2, <3>2, PhaseFacts DEF Onwards, Phase
  <2>3. CASE Late
    <3>1. ioq' = Tail(ioq) /\ UNCHANGED <<state, channel, down, failed, baseq, inMap>>
      BY <2>1, <2>3, PhaseFacts DEF force_close_in_loop
    <3> QED BY <1>1, <2>1, <2>3, <3>1, Onward DEF Onwards
  <2> QED BY <1>1, <2>1, <2>2, <2>3, PhaseFacts
<1>7. ~RunReading
  BY <1>1, PhaseFacts DEF RunReading, Functor
<1>8. CASE RunDestroyed
  <2>1. Head(ioq).op = "destroyed" /\ connect_destroyed(Tail(ioq)) /\ UNCHANGED owner
    BY <1>8 DEF RunDestroyed, Functor
  <2>2. Removed
    BY <1>1, <2>1, PhaseFacts
  <2>3. /\ ioq' = Tail(ioq) /\ index' = "new" /\ UNCHANGED <<state, events, down, up, failed>>
    BY <2>1, <2>2 DEF connect_destroyed, Removed, Down, Fails
  <2>4. NotQueued(ioq') /\ Absent("destroyed", ioq') /\ (~Races => ioq' = <<>>)
    BY <1>1, <2>1, <2>2, <2>3, TailKeeps DEF Removed, Down, NotQueued
  <2>5. Over'
    BY <2>1, <2>2, <2>3, <2>4 DEF Removed, Over, Down, owner
  <2> QED BY <2>1, <2>3, <2>5 DEF Onwards, Phase, owner
<1> QED BY <1>3, <1>4, <1>5, <1>6, <1>7, <1>8 DEF RunFunctor

LEMMA LifeEvent ==
  ASSUME StreamType, Phase, server, failed = {}, HandleEvent
  PROVE  Onwards
<1>1. index = "added" /\ ioq \in Seq(Functors)
  BY DEF HandleEvent, HandleRead, HandleHangup, HandleWrite, Event, StreamType
<1>2. Up /\ ~Over
  BY <1>1, PhaseFacts
<1>3. CASE HandleRead
  <2>1. CASE handle_close(ioq)
    <3>1. (Leaving' \/ Removed') /\ failed' = {}
      BY <1>1, <1>2, <1>3, <2>1, CloseEnds DEF HandleRead, Up
    <3> QED BY <1>2, <1>3, <3>1 DEF Onwards, Phase, HandleRead
  <2>2. CASE UNCHANGED <<state, channel, ioq, baseq, inMap, down, failed>>
    BY <1>2, <1>3, <2>2, Onward DEF Onwards, HandleRead
  <2> QED BY <1>3, <2>1, <2>2 DEF HandleRead
<1>4. ~HandleHangup
  BY <1>2 DEF HandleHangup, Up
<1>5. CASE HandleWrite
  <2>1. /\ UNCHANGED <<state, owner, up, down, failed>>
        /\ ioq' = ioq \/ ioq' = Append(ioq, F("complete"))
        /\ UNCHANGED channel \/ SetEvents(events \ {"write"})
    BY <1>5 DEF HandleWrite
  <2>2. NotQueued(ioq') /\ Absent("destroyed", ioq')
    BY <1>1, <1>2, <2>1, UpQueue DEF Up
  <2>3. index' = "added" /\ "read" \in events'
    BY <1>2, <2>1 DEF Up, SetEvents, channel
  <2>4. Up'
    BY <1>2, <2>1, <2>2, <2>3, UpStays DEF Up, owner
  <2> QED BY <1>2, <2>1, <2>4 DEF Onwards, Phase, owner
<1> QED BY <1>3, <1>4, <1>5 DEF HandleEvent

LEMMA LifeUser ==
  ASSUME OrderlyUse, StreamType, Phase, server, failed = {}, UserStep
  PROVE  Onwards
<1>1. ioq \in Seq(Functors)
  BY DEF StreamType
<1>2. ~LoopReading
  BY DEF LoopReading, LoopCall, OrderlyUse
<1>3. Up /\ ~Over
  <2>1. state \in {"connected", "disconnecting"}
    BY <1>2 DEF UserStep, LoopSend, LoopShutdown, LoopForceClose
  <2> QED BY <2>1, PhaseFacts
<1>4. ASSUME NEW m \in Msg, LoopSend(m) PROVE Up'
  BY <1>1, <1>3, <1>4, LifeSend DEF LoopSend, Up
<1>5. ASSUME LoopShutdown \/ LoopForceClose PROVE Up'
  <2>1. /\ state' = "disconnecting" /\ UNCHANGED <<channel, owner, up, down>>
        /\ ioq' = ioq \/ ioq' = Append(ioq, F("force_close"))
    BY <1>5 DEF LoopShutdown, LoopForceClose
  <2>2. NotQueued(ioq') /\ Absent("destroyed", ioq')
    BY <1>1, <1>3, <2>1, UpQueue DEF Up
  <2> QED BY <1>3, <2>1, <2>2, UpStays DEF Up, channel, owner
<1>6. UNCHANGED <<failed, server>>
  BY <1>2 DEF UserStep, LoopSend, LoopShutdown, LoopForceClose, owner
<1>7. Up'
  BY <1>2, <1>4, <1>5 DEF UserStep
<1> QED BY <1>3, <1>6, <1>7 DEF Onwards, Phase

LEMMA LifeBase ==
  ASSUME OrderlyUse, StreamType, Phase, server, failed = {}, BaseStep
  PROVE  Onwards
<1>1. Remove
  BY DEF BaseStep, DestroyServer, OrderlyUse
<1>2. Leaving
  BY <1>1, PhaseFacts DEF Remove
<1>3. /\ failed' = {} /\ ~inMap' /\ baseq' = 0 /\ ioq' = Append(ioq, F("destroyed"))
      /\ UNCHANGED <<state, channel, server, up, down>>
  BY <1>1, <1>2 DEF Remove, Fails, Leaving
<1>4. F("destroyed") \in Functors /\ F("destroyed").op = "destroyed"
  BY DEF F, Functors, Owning
<1>5. NotQueued(ioq') /\ Pending(ioq')
  BY <1>2, <1>3, <1>4, AppendKeeps DEF Leaving, Down, NotQueued, StreamType
<1>6. Removed'
  BY <1>2, <1>3, <1>5 DEF Removed, Leaving, Down, channel
<1> QED BY <1>2, <1>3, <1>6 DEF Onwards, Phase, Leaving, Over

LEMMA LifePeer ==
  ASSUME StreamType, Phase, server, failed = {}, PeerReads \/ PeerCloses \/ PeerResets
  PROVE  Onwards
<1>1. up = 1 /\ UNCHANGED <<state, channel, ioq, owner, up, down, failed>>
  BY DEF PeerReads, PeerCloses, PeerResets
<1>2. Up \/ Late
  BY <1>1, PhaseFacts
<1> QED BY <1>1, <1>2, Onward DEF Onwards, owner

-----------------------------------------------------------------------------
(* The steps of the other threads. *)

LEMMA LifeStart ==
  ASSUME OrderlyUse, StreamType, OtherType, Phase, Orderly, NEW c \in Caller, StartCall(c),
         server, failed = {}
  PROVE  Onwards /\ Orderly'
<1>1. ~QueueReading(c)
  BY DEF QueueReading, MayCall, OrderlyUse
<1>2. UNCHANGED <<state, ioq, loops>>
  BY <1>1 DEF StartCall, HandOver, Release, StartSend, StartShutdown, StartForceClose
<1>3. Up \/ Late
  <2>1. Connecting => cpc[c] = "none" /\ up = 0
    BY DEF Connecting
  <2>2. up = 1 \/ cpc[c] = "idle"
    BY <1>1 DEF StartCall, HandOver, Release, StartSend, StartShutdown, StartForceClose, At
  <2> QED BY <2>1, <2>2, PhaseFacts DEF Phase, Late
<1>4. Onwards
  BY <1>2, <1>3, Onward DEF Onwards, loops, owner
<1>5. Up => Up'
  BY <1>2 DEF Up, loops, channel, owner
<1>6. CASE HandOver(c) \/ Release(c)
  <2>1. \E to \in {"idle", "gone"} : cpc' = [cpc EXCEPT ![c] = to]
    BY <1>6 DEF HandOver, Release, At
  <2> QED BY <1>4, <1>5, <2>1 DEF Orderly, OtherType
<1>7. CASE StartSend(c)
  <2>1. cpc' = [cpc EXCEPT ![c] = "send"] /\ Up
    BY <1>7, PhaseFacts DEF StartSend, At
  <2> QED BY <1>4, <1>5, <2>1 DEF Orderly, OtherType
<1>8. CASE StartShutdown(c) \/ StartForceClose(c)
  <2>1. ~Races /\ Up /\ \E to : cpc' = [cpc EXCEPT ![c] = to]
    BY <1>8, PhaseFacts DEF StartShutdown, StartForceClose, MayCall, OrderlyUse, At
  <2> QED BY <1>4, <1>5, <2>1 DEF Orderly, OtherType
<1> QED BY <1>1, <1>6, <1>7, <1>8 DEF StartCall

LEMMA LifeFinish ==
  ASSUME OrderlyUse, StreamType, OtherType, Phase, Orderly, NEW c \in Caller, FinishCall(c),
         server, failed = {}
  PROVE  Onwards /\ Orderly'
<1>1. UNCHANGED <<loops>> /\ ioq \in Seq(Functors)
  BY DEF FinishCall, QueueSend, SetDisconnecting, QueueClose, StreamType
<1>2. /\ cpc[c] \notin {"none", "idle", "gone"}
      /\ cpc[c] # "send" => ~QueueSend(c)
      /\ Races => QueueSend(c)
  BY DEF FinishCall, QueueSend, SetDisconnecting, QueueClose, At, Orderly
<1>3. ~Races => Up
  BY <1>2 DEF Orderly
<1>4. ASSUME Up PROVE Up'
  <2>1. state' \in {"connected", "disconnecting"}
    BY <1>4 DEF FinishCall, QueueSend, SetDisconnecting, QueueClose, Up
  <2>2. \/ ioq' = ioq
        \/ \E op \in {"complete", "force_close", "shutdown"} : ioq' = Append(ioq, F(op))
        \/ \E m \in Msg : ioq' = Append(ioq, Send(m))
    BY DEF FinishCall, QueueSend, SetDisconnecting, QueueClose
  <2>3. NotQueued(ioq') /\ Absent("destroyed", ioq')
    BY <1>1, <1>4, <2>2, UpQueue DEF Up
  <2> QED BY <1>1, <1>4, <2>1, <2>3, UpStays DEF Up, loops, channel, owner
<1>5. Onwards
  <2>1. CASE Up
    BY <1>1, <1>4, <2>1, PhaseFacts DEF Onwards, Phase, loops, owner
  <2>2. CASE ~Up
    <3>1. Races /\ QueueSend(c) /\ Late
      BY <1>2, <1>3, <2>2 DEF Phase, Connecting, Late
    <3>2. Keeps
      BY <3>1, QueueKeeps DEF QueueSend
    <3>3. Late' /\ (Over => Over')
      BY <1>1, <3>1, <3>2, LateStays DEF QueueSend, loops, owner
    <3> QED BY <1>1, <3>3 DEF Onwards, Phase, Late, loops, owner
  <2> QED BY <2>1, <2>2
<1>6. Orderly'
  <2>1. Races => cpc' = [cpc EXCEPT ![c] = "idle"]
    BY <1>2 DEF QueueSend, At
  <2>2. \E to : cpc' = [cpc EXCEPT ![c] = to]
    BY DEF FinishCall, QueueSend, SetDisconnecting, QueueClose, At
  <2> QED BY <1>3, <1>4, <2>1, <2>2 DEF Orderly, OtherType
<1> QED BY <1>5, <1>6

\* A step between calls leaves the other threads where they are.
LEMMA OrderlyStays ==
  ASSUME Orderly, Uninterrupted, UNCHANGED cpc
  PROVE  Orderly'
BY DEF Orderly, Uninterrupted

LEMMA LifeStep ==
  ASSUME OrderlyUse, Types, LifeInv, [Next]_vars
  PROVE  LifeInv'
<1>1. StreamType /\ OtherType /\ Phase /\ Orderly /\ server /\ failed = {} /\ (dead => Over)
  BY DEF Types, LifeInv
<1>2. CASE UNCHANGED vars
  BY <1>1, <1>2 DEF LifeInv, vars, Phase, Connecting, Up, Leaving, Removed, Over, Down, Orderly
<1>3. ASSUME Next PROVE Onwards /\ Orderly'
  <2>1. CASE \E c \in Caller : FinishCall(c)
    BY <1>1, <2>1, LifeFinish
  <2>2. CASE \E c \in Caller : StartCall(c)
    BY <1>1, <2>2, LifeStart
  <2>3. CASE Uninterrupted /\ (RunFunctor \/ HandleEvent \/ UserStep \/ BaseStep
                                \/ PeerReads \/ PeerCloses \/ PeerResets)
    <3>1. UNCHANGED cpc
      BY <2>3 DEF RunFunctor, HandleEvent, UserStep, BaseStep, RunEstablished, RunSend, RunShutdown,
           RunForceClose, RunReading, RunComplete, RunDestroyed, HandleRead, HandleHangup,
           HandleWrite, LoopSend, LoopShutdown, LoopForceClose, LoopReading, Remove,
           DestroyServer, PeerReads, PeerCloses, PeerResets, callers
    <3>2. Onwards
      BY <1>1, <2>3, LifeFunctor, LifeEvent, LifeUser, LifeBase, LifePeer
    <3> QED BY <1>1, <2>3, <3>1, <3>2, OrderlyStays
  <2> QED BY <1>3, <2>1, <2>2, <2>3 DEF Next, Step
<1>4. ASSUME Next PROVE dead' => Over'
  <2>1. dead' = (dead \/ ~Alive')
    BY <1>4 DEF Next, Destructor
  <2>2. Phase' /\ (Over => Over')
    BY <1>3, <1>4 DEF Onwards
  <2>3. inMap' => Alive'
    BY DEF Alive
  <2>4. Removed' => Alive'
    <3>1. ASSUME Removed' PROVE Alive'
      <4>1. \E k \in 1 .. Len(ioq') : ioq'[k].op = "destroyed"
        BY <3>1 DEF Removed, Pending
      <4>2. DOMAIN ioq' = 1 .. Len(ioq')
        <5>1. ioq' \in Seq(Functors)
          BY <1>4, StreamStep DEF Types, StreamType
        <5> QED BY <5>1
      <4> QED BY <4>1, <4>2 DEF Alive, Owning
    <3> QED BY <3>1
  <2> QED BY <1>1, <2>1, <2>2, <2>3, <2>4 DEF Phase, Connecting, Up, Leaving
<1>5. ASSUME Next PROVE LifeInv'
  BY <1>3, <1>4, <1>5 DEF LifeInv, Onwards
<1> QED BY <1>2, <1>5

LEMMA LifeAlways ==
  ASSUME OrderlyUse
  PROVE  Spec => []LifeInv
<1>1. Init => LifeInv
  BY DEF Init, LifeInv, Phase, Connecting, Orderly
<1>2. Types /\ LifeInv /\ [Next]_vars => LifeInv'
  BY LifeStep
<1> QED BY <1>1, <1>2, AllTypes, PTL DEF Spec

\* UpThenDown: connection_callback_ is called once when the connection comes up and once
\* when it goes down, which it has done when it is destroyed, whichever of the peer, the
\* users and an error closes it first, and whether the server has a loop of its own.
THEOREM LifeOnce ==
  ASSUME OrderlyUse
  PROVE  Spec => []UpThenDown
<1>1. LifeInv => UpThenDown
  BY DEF LifeInv, Phase, Connecting, Up, Leaving, Removed, Over, Down, UpThenDown
<1> QED BY <1>1, LifeAlways, PTL

\* AssertionsHold: handle_close() finds the connection up, Channel::remove() a channel
\* without events, and remove_connection_in_loop() the connection in the server's map.
THEOREM NoAssertionFails ==
  ASSUME OrderlyUse
  PROVE  Spec => []AssertionsHold
<1>1. LifeInv => AssertionsHold
  BY DEF LifeInv, AssertionsHold
<1> QED BY <1>1, LifeAlways, PTL

\* CleanDeath: what the destructors assert, and no functor is left to run on a raw `this`,
\* if calls do not race with the loop either.  (A send() that does may leave its functor.)
THEOREM DiesClean ==
  ASSUME OrderlyUse, ~Races
  PROVE  Spec => []CleanDeath
<1>1. LifeInv => CleanDeath
  BY DEF LifeInv, Over, Down, CleanDeath
<1> QED BY <1>1, LifeAlways, PTL

\* The state_ of a connection goes forward: connecting, connected, disconnecting (unless the
\* peer closes first), disconnected.
Forward == \/ state' = state
           \/ state = "connecting" /\ state' = "connected"
           \/ state = "connected" /\ state' = "disconnecting"
           \/ state \in {"connected", "disconnecting"} /\ state' = "disconnected"

\* set_state() never takes a connection back to a state it has left.  The callers that write
\* "disconnecting" have read state_ before; it is the step of the loop between the two that
\* OrderlyUse excludes, and that would revive a connection which is down.
THEOREM NeverRevived ==
  ASSUME OrderlyUse
  PROVE  Spec => [][Forward]_vars
<1>1. Types /\ LifeInv /\ [Next]_vars => [Forward]_vars
  <2> SUFFICES ASSUME Types, LifeInv, Next PROVE Forward
    OBVIOUS
  <2>1. /\ StreamType /\ Phase /\ Orderly
        /\ state \in {"connecting", "connected", "disconnecting", "disconnected"}
    BY DEF Types, LifeInv, Phase, Connecting, Up, Leaving, Removed, Over, Down
  <2>2. CASE RunEstablished
    <3>1. Connecting
      BY <2>1, <2>2, PhaseFacts DEF RunEstablished, Functor
    <3> QED BY <2>2, <3>1 DEF RunEstablished, connect_established, Connecting, Forward
  <2>3. CASE HandleRead \/ HandleHangup
    <3>1. Up
      BY <2>1, <2>3, PhaseFacts DEF HandleRead, HandleHangup, Event
    <3> QED BY <2>3, <3>1 DEF HandleRead, HandleHangup, handle_close, Up, Forward
  <2>4. CASE RunForceClose \/ RunDestroyed
    BY <2>1, <2>4 DEF RunForceClose, force_close_in_loop, handle_close, RunDestroyed,
       connect_destroyed, Forward
  <2>5. CASE LoopShutdown \/ LoopForceClose
    BY <2>5 DEF LoopShutdown, LoopForceClose, Forward
  <2>6. ASSUME NEW c \in Caller, SetDisconnecting(c) PROVE Forward
    <3>1. Up
      BY <2>1, <2>6 DEF SetDisconnecting, At, Orderly
    <3> QED BY <2>6, <3>1 DEF SetDisconnecting, Up, Forward
  <2>7. CASE UNCHANGED state
    BY <2>7 DEF Forward
  <2>8. \/ RunEstablished \/ HandleRead \/ HandleHangup \/ RunForceClose \/ RunDestroyed
        \/ LoopShutdown \/ LoopForceClose \/ (\E c \in Caller : SetDisconnecting(c))
        \/ UNCHANGED state
    BY DEF OrderlyUse, Next, Step, RunFunctor, HandleEvent, UserStep, BaseStep, StartCall,
       FinishCall, RunSend, RunShutdown, RunReading, RunComplete, HandleWrite, LoopSend,
       LoopReading, Remove, DestroyServer, PeerReads, PeerCloses, PeerResets, HandOver, Release,
       StartSend, StartShutdown, StartForceClose, QueueReading, QueueSend, QueueClose
  <2> QED BY <2>2, <2>3, <2>4, <2>5, <2>6, <2>7, <2>8
<1> QED BY <1>1, AllTypes, LifeAlways, PTL DEF Spec
=============================================================================
