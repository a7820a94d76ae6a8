--------------------------- MODULE EventLoopProofs ---------------------------
(* Theorems about EventLoop, for every set of clients and functors, and about   *)
(* EventLoopThread: a thread uses its loop as EventLoop specifies, so that what *)
(* is proved of EventLoop holds of its loop, and has ended when it is gone.     *)
EXTENDS EventLoopThread, SequenceTheorems, TLAPS

Elements(s) == {s[i] : i \in DOMAIN s}

-----------------------------------------------------------------------------
(* Lemmas about sequences. *)

\* The front of a non-empty first part is the front of the whole.
LEMMA FrontOfConcat ==
  ASSUME NEW S, NEW s \in Seq(S), NEW t \in Seq(S), s # <<>>
  PROVE  /\ s \o t # <<>>
         /\ Head(s \o t) = Head(s)
         /\ Tail(s \o t) = Tail(s) \o t
<1>1. /\ s \o t \in Seq(S) /\ Len(s \o t) = Len(s) + Len(t)
      /\ \A i \in 1 .. Len(s) + Len(t) :
            (s \o t)[i] = IF i <= Len(s) THEN s[i] ELSE t[i - Len(s)]
  BY ConcatProperties
<1>2. Len(s) \in Nat \ {0} /\ Len(t) \in Nat
  BY LenProperties, EmptySeq
<1>3. s \o t # <<>>
  BY <1>1, <1>2
<1>4. Head(s \o t) = Head(s)
  BY <1>1, <1>2
<1>5. /\ Tail(s) \in Seq(S) /\ Len(Tail(s)) = Len(s) - 1
      /\ \A i \in 1 .. Len(Tail(s)) : Tail(s)[i] = s[i + 1]
  BY HeadTailProperties
<1>6. /\ Tail(s \o t) \in Seq(S) /\ Len(Tail(s \o t)) = Len(s) + Len(t) - 1
      /\ \A i \in 1 .. Len(Tail(s \o t)) : Tail(s \o t)[i] = (s \o t)[i + 1]
  BY <1>1, <1>3, HeadTailProperties
<1>7. /\ Tail(s) \o t \in Seq(S) /\ Len(Tail(s) \o t) = Len(s) - 1 + Len(t)
      /\ \A i \in 1 .. Len(s) - 1 + Len(t) : (Tail(s) \o t)[i]
            = IF i <= Len(s) - 1 THEN Tail(s)[i] ELSE t[i - (Len(s) - 1)]
  BY <1>5, ConcatProperties
<1>8. ASSUME NEW i \in 1 .. Len(s) + Len(t) - 1
      PROVE  Tail(s \o t)[i] = (Tail(s) \o t)[i]
  <2>1. Tail(s \o t)[i] = (s \o t)[i + 1] /\ i + 1 \in 1 .. Len(s) + Len(t)
    BY <1>2, <1>6
  <2>2. CASE i <= Len(s) - 1
    BY <1>1, <1>2, <1>5, <1>7, <2>1, <2>2
  <2>3. CASE ~(i <= Len(s) - 1)
    <3>1. (i + 1) - Len(s) = i - (Len(s) - 1) /\ ~(i + 1 <= Len(s))
      BY <1>2, <2>3
    <3> QED BY <1>1, <1>2, <1>7, <2>1, <2>3, <3>1
  <2> QED BY <2>2, <2>3
<1>9. Tail(s \o t) = Tail(s) \o t
  BY <1>2, <1>6, <1>7, <1>8, SeqEqual
<1> QED BY <1>3, <1>4, <1>9

\* Appending to the second part appends to the whole.
LEMMA AppendToConcat ==
  ASSUME NEW S, NEW s \in Seq(S), NEW t \in Seq(S), NEW e \in S
  PROVE  s \o Append(t, e) = Append(s \o t, e)
<1>1. <<e>> \in Seq(S) /\ s \o t \in Seq(S)
  BY ConcatProperties
<1> QED BY <1>1, AppendIsConcat, ConcatAssociative

LEMMA AppendElements ==
  ASSUME NEW S, NEW s \in Seq(S), NEW e \in S
  PROVE  Elements(Append(s, e)) = Elements(s) \cup {e}
BY AppendProperties, LenProperties DEF Elements

LEMMA TailElements ==
  ASSUME NEW S, NEW s \in Seq(S), s # <<>>
  PROVE  Elements(Tail(s)) \subseteq Elements(s) /\ Head(s) \in Elements(s)
<1>1. /\ Tail(s) \in Seq(S) /\ Len(Tail(s)) = Len(s) - 1
      /\ \A i \in 1 .. Len(Tail(s)) : Tail(s)[i] = s[i + 1]
  BY HeadTailProperties
<1>2. Len(s) \in Nat \ {0} /\ DOMAIN s = 1 .. Len(s)
  BY LenProperties, EmptySeq
<1>3. DOMAIN Tail(s) = 1 .. Len(s) - 1
  BY <1>1, LenProperties
<1>4. \A i \in DOMAIN Tail(s) : i + 1 \in DOMAIN s /\ Tail(s)[i] = s[i + 1]
  BY <1>1, <1>2, <1>3
<1>5. Head(s) = s[1] /\ 1 \in DOMAIN s
  BY <1>2
<1> QED BY <1>4, <1>5 DEF Elements

-----------------------------------------------------------------------------
(* Type correctness. *)

LEMMA ClientType ==
  ASSUME TypeOK, NEW c \in Client, ClientStep(c)
  PROVE  TypeOK'
<1>1. ASSUME NEW f \in Functor, Push(c, f) PROVE TypeOK'
  <2>1. pending' \in Seq(Functor)
    BY <1>1, AppendProperties DEF Push, TypeOK
  <2> QED BY <1>1, <2>1 DEF Push, TypeOK, UserCode
<1>2. CASE PushWakeup(c)
  BY <1>2 DEF PushWakeup, wakeup, TypeOK, UserCode
<1>3. CASE Quit(c)
  BY <1>3 DEF Quit, TypeOK, UserCode
<1>4. CASE QuitWakeup(c)
  BY <1>4 DEF QuitWakeup, wakeup, TypeOK, UserCode
<1> QED BY <1>1, <1>2, <1>3, <1>4 DEF ClientStep

LEMMA UserType ==
  ASSUME TypeOK, UserStep
  PROVE  TypeOK'
<1>1. ASSUME NEW f \in Functor, QueueInLoop(f) PROVE TypeOK'
  <2>1. pending' \in Seq(Functor)
    BY <1>1, AppendProperties DEF QueueInLoop, TypeOK
  <2> QED BY <1>1, <2>1 DEF QueueInLoop, wakeup, TypeOK, UserCode
<1>2. ASSUME NEW f \in Functor, RunInLoop(f) PROVE TypeOK'
  <2>1. done' \in Seq(Functor)
    BY <1>2, AppendProperties DEF RunInLoop, TypeOK
  <2> QED BY <1>2, <2>1 DEF RunInLoop, TypeOK, UserCode
<1>3. CASE QuitInLoop
  BY <1>3 DEF QuitInLoop, TypeOK, UserCode
<1> QED BY <1>1, <1>2, <1>3 DEF UserStep

LEMMA LoopType ==
  ASSUME TypeOK, LoopStep
  PROVE  TypeOK'
<1> USE DEF Goto, loopFrame, UserCode
<1>1. CASE Enter
  <2>1. /\ pending' \in Seq(Functor) /\ functors' \in Seq(Functor)
        /\ done' \in Seq(Functor) /\ calling' = calling /\ functors' = functors
    BY <1>1 DEF Enter, TypeOK
  <2>2. lpc = "before" /\ lpc' = "check" /\ calling = FALSE /\ functors = <<>>
    BY <1>1 DEF Enter, TypeOK
  <2> QED BY <1>1, <2>1, <2>2 DEF Enter, TypeOK
<1>2. CASE Check
  <2>1. lpc = "check" /\ lpc' \in {"poll", "exited"} /\ calling = FALSE /\ functors = <<>>
    BY <1>2 DEF Check, TypeOK
  <2> QED BY <1>2, <2>1 DEF Check, TypeOK
<1>3. CASE PollReturns
  BY <1>3 DEF PollReturns, TypeOK
<1>4. CASE HandleWakeup
  BY <1>4 DEF HandleWakeup, TypeOK
<1>5. CASE HandleUser
  BY <1>5 DEF HandleUser, TypeOK
<1>6. CASE CallbackReturns
  BY <1>6 DEF CallbackReturns, TypeOK
<1>7. CASE BeginFunctors
  BY <1>7 DEF BeginFunctors, TypeOK
<1>8. CASE Swap
  <2>1. pending' \in Seq(Functor) /\ functors' \in Seq(Functor)
    BY <1>8 DEF Swap, TypeOK
  <2> QED BY <1>8, <2>1 DEF Swap, TypeOK
<1>9. CASE StartFunctor
  <2>1. functors' \in Seq(Functor) /\ done' \in Seq(Functor)
    BY <1>9, HeadTailProperties, AppendProperties DEF StartFunctor, TypeOK
  <2> QED BY <1>9, <2>1 DEF StartFunctor, TypeOK
<1>10. CASE FunctorReturns \/ EndFunctors
  BY <1>10 DEF FunctorReturns, EndFunctors, TypeOK
<1> QED
  BY <1>1, <1>2, <1>3, <1>4, <1>5, <1>6, <1>7, <1>8, <1>9, <1>10 DEF LoopStep

\* Every variable keeps its type, and calling_pending_functors_ is set exactly
\* while do_pending_functors() runs (event_loop.cpp).
THEOREM TypeCorrect == Spec => []TypeOK
<1>1. Init => TypeOK
  <2> SUFFICES ASSUME Init PROVE TypeOK
    OBVIOUS
  <2>1. <<>> \in Seq(Functor)
    OBVIOUS
  <2> QED BY <2>1 DEF Init, TypeOK, UserCode
<1>2. TypeOK /\ [Next]_vars => TypeOK'
  <2> SUFFICES ASSUME TypeOK, [Next]_vars PROVE TypeOK'
    OBVIOUS
  <2>1. CASE UNCHANGED vars
    BY <2>1 DEF vars, TypeOK
  <2>2. CASE Next
    BY <2>2, ClientType, UserType, LoopType DEF Next
  <2> QED BY <2>1, <2>2
<1> QED BY <1>1, <1>2, PTL DEF Spec

-----------------------------------------------------------------------------
(* No lost wakeup.  The invariant must hold from the moment the round's     *)
(* functors have been swapped out, not only while the loop is in poll.      *)

WakeupInv ==
  /\ lpc \in {"before", "check", "poll", "run", "functor"} /\ efd = 0 =>
       \A i \in DOMAIN pending : pending[i] \in early \/ mutex # Nobody
  /\ lpc = "poll" /\ efd = 0 /\ quit => \E c \in Client : cpc[c] = "quitting"

\* The poller never blocks on queued work or on a quit, whatever the threads do.
THEOREM WakeupSafe == Spec => []NoLostWakeup
<1>1. Init => WakeupInv
  BY DEF Init, WakeupInv
<1>2. TypeOK /\ WakeupInv /\ [Next]_vars => WakeupInv'
  <2> SUFFICES ASSUME TypeOK, WakeupInv, [Next]_vars PROVE WakeupInv'
    OBVIOUS
  <2> USE DEF Goto, loopFrame, wakeup
  <2>1. ASSUME NEW c \in Client, ClientStep(c) PROVE WakeupInv'
    <3>1. ASSUME NEW f \in Functor, Push(c, f) PROVE WakeupInv'
      <4>1. mutex' # Nobody
        BY <3>1, LoopAssumption DEF Push, LoopAssumption
      <4>2. \A d \in Client : cpc[d] = "quitting" => cpc'[d] = "quitting"
        BY <3>1 DEF Push, TypeOK
      <4> QED BY <3>1, <4>1, <4>2 DEF Push, WakeupInv
    <3>2. CASE PushWakeup(c) \/ QuitWakeup(c)
      <4>1. efd' # 0
        BY <3>2 DEF PushWakeup, QuitWakeup, TypeOK
      <4> QED BY <4>1 DEF WakeupInv
    <3>3. CASE Quit(c)
      <4>1. cpc'[c] = "quitting"
        BY <3>3 DEF Quit, TypeOK
      <4> QED BY <3>3, <4>1 DEF Quit, WakeupInv
    <3> QED BY <2>1, <3>1, <3>2, <3>3 DEF ClientStep
  <2>2. CASE UserStep
    <3>1. ASSUME NEW f \in Functor, QueueInLoop(f) PROVE WakeupInv'
      <4>1. CASE lpc = "before"
        <5>1. ~calling
          BY <4>1 DEF TypeOK
        <5>2. pending \in Seq(Functor) /\ pending' = Append(pending, f) /\ early' = early \cup {f}
          BY <3>1, <4>1 DEF QueueInLoop, TypeOK
        <5>3. \A i \in DOMAIN pending' : pending'[i] = f \/ (i \in DOMAIN pending /\ pending'[i] = pending[i])
          BY <5>2, AppendProperties, LenProperties
        <5> QED BY <3>1, <4>1, <5>1, <5>2, <5>3 DEF QueueInLoop, WakeupInv
      <4>2. CASE lpc = "functor"
        <5>1. efd' # 0
          BY <3>1, <4>2 DEF QueueInLoop, TypeOK
        <5> QED BY <5>1 DEF WakeupInv
      <4>3. CASE lpc = "callback"
        BY <3>1, <4>3 DEF QueueInLoop, WakeupInv
      <4> QED BY <3>1, <4>1, <4>2, <4>3 DEF QueueInLoop, UserCode
    <3>2. ASSUME NEW f \in Functor, RunInLoop(f) PROVE WakeupInv'
      BY <3>2 DEF RunInLoop, WakeupInv
    <3>3. CASE QuitInLoop
      BY <3>3 DEF QuitInLoop, UserCode, WakeupInv
    <3> QED BY <2>2, <3>1, <3>2, <3>3 DEF UserStep
  <2>3. CASE LoopStep
    <3>1. CASE Enter \/ Check
      BY <3>1 DEF Enter, Check, WakeupInv
    <3>2. CASE PollReturns \/ HandleWakeup \/ HandleUser \/ CallbackReturns \/ BeginFunctors
      BY <3>2 DEF PollReturns, HandleWakeup, HandleUser, CallbackReturns, BeginFunctors, WakeupInv
    <3>3. CASE Swap
      BY <3>3 DEF Swap, WakeupInv
    <3>4. CASE StartFunctor \/ FunctorReturns \/ EndFunctors
      BY <3>4 DEF StartFunctor, FunctorReturns, EndFunctors, WakeupInv
    <3> QED BY <2>3, <3>1, <3>2, <3>3, <3>4 DEF LoopStep
  <2>4. CASE UNCHANGED vars
    BY <2>4 DEF vars, WakeupInv
  <2> QED BY <2>1, <2>2, <2>3, <2>4 DEF Next
<1>3. WakeupInv => NoLostWakeup
  BY DEF WakeupInv, NoLostWakeup
<1> QED BY <1>1, <1>2, <1>3, TypeCorrect, PTL DEF Spec

-----------------------------------------------------------------------------
(* Event_loop implements Executor. *)

\* What is queued, taken by the round or started has been handed over.
UsedInv == Elements(functors) \cup Elements(pending) \cup Elements(done) \subseteq used

LEMMA ConcatElements ==
  ASSUME NEW S, NEW s \in Seq(S), NEW t \in Seq(S)
  PROVE  \A i \in DOMAIN (s \o t) : (s \o t)[i] \in Elements(s) \cup Elements(t)
<1> SUFFICES ASSUME NEW i \in DOMAIN (s \o t)
             PROVE  (s \o t)[i] \in Elements(s) \cup Elements(t)
  OBVIOUS
<1>1. /\ Len(s \o t) = Len(s) + Len(t) /\ s \o t \in Seq(S)
      /\ \A j \in 1 .. Len(s) + Len(t) :
            (s \o t)[j] = IF j <= Len(s) THEN s[j] ELSE t[j - Len(s)]
  BY ConcatProperties
<1>2. /\ Len(s) \in Nat /\ Len(t) \in Nat /\ DOMAIN s = 1 .. Len(s) /\ DOMAIN t = 1 .. Len(t)
      /\ i \in 1 .. Len(s) + Len(t)
  BY <1>1, LenProperties
<1>3. CASE i <= Len(s)
  BY <1>1, <1>2, <1>3 DEF Elements
<1>4. CASE ~(i <= Len(s))
  <2>1. i - Len(s) \in DOMAIN t
    BY <1>2, <1>4
  <2> QED BY <1>1, <1>2, <1>4, <2>1 DEF Elements
<1> QED BY <1>3, <1>4

\* A functor that was not handed over is new to Executor.
LEMMA UnusedIsNew ==
  ASSUME TypeOK, UsedInv, NEW f \in Functor, f \notin used
  PROVE  Abs!UnUsed(f)
<1>1. \A i \in DOMAIN (functors \o pending) : (functors \o pending)[i] # f
  BY ConcatElements DEF TypeOK, UsedInv
<1>2. \A i \in DOMAIN done : done[i] # f
  BY DEF UsedInv, Elements
<1> QED BY <1>1, <1>2 DEF Abs!UnUsed, Abs!Fresh

LEMMA UsedStep ==
  ASSUME TypeOK, UsedInv, [Next]_vars
  PROVE  UsedInv'
<1> USE DEF Goto, loopFrame
<1>1. ASSUME NEW c \in Client, NEW f \in Functor, Push(c, f) PROVE UsedInv'
  BY <1>1, AppendElements DEF Push, UsedInv, TypeOK
<1>2. ASSUME NEW f \in Functor, QueueInLoop(f) PROVE UsedInv'
  BY <1>2, AppendElements DEF QueueInLoop, UsedInv, TypeOK
<1>3. ASSUME NEW f \in Functor, RunInLoop(f) PROVE UsedInv'
  BY <1>3, AppendElements DEF RunInLoop, UsedInv, TypeOK
<1>4. CASE Swap
  BY <1>4 DEF Swap, UsedInv, Elements
<1>5. CASE StartFunctor
  <2>1. Head(functors) \in Functor /\ Head(functors) \in Elements(functors)
        /\ Elements(Tail(functors)) \subseteq Elements(functors)
    BY <1>5, HeadTailProperties, TailElements DEF StartFunctor, TypeOK
  <2>2. Elements(done') = Elements(done) \cup {Head(functors)}
    BY <1>5, <2>1, AppendElements DEF StartFunctor, TypeOK
  <2> QED BY <1>5, <2>1, <2>2 DEF StartFunctor, UsedInv
<1>6. ASSUME UNCHANGED <<functors, pending, done, used>> PROVE UsedInv'
  BY <1>6 DEF UsedInv
<1>7. ASSUME NEW c \in Client, PushWakeup(c) \/ Quit(c) \/ QuitWakeup(c) PROVE UsedInv'
  BY <1>6, <1>7 DEF PushWakeup, Quit, QuitWakeup
<1>8. CASE QuitInLoop \/ Enter \/ Check \/ PollReturns \/ HandleWakeup \/ HandleUser
  BY <1>6, <1>8 DEF QuitInLoop, Enter, Check, PollReturns, HandleWakeup, HandleUser
<1>9. CASE CallbackReturns \/ BeginFunctors \/ FunctorReturns \/ EndFunctors
  BY <1>6, <1>9 DEF CallbackReturns, BeginFunctors, FunctorReturns, EndFunctors
<1>10. CASE UNCHANGED vars
  BY <1>6, <1>10 DEF vars
<1> QED BY <1>1, <1>2, <1>3, <1>4, <1>5, <1>7, <1>8, <1>9, <1>10
        DEF Next, ClientStep, UserStep, LoopStep

LEMMA RefineStep ==
  ASSUME TypeOK, UsedInv, [Next]_vars
  PROVE  [Abs!Next]_<<functors \o pending, done>>
<1> USE DEF Goto, loopFrame
<1>1. ASSUME NEW c \in Client, NEW f \in Functor, Push(c, f) PROVE Abs!Next
  <2>1. functors' \o pending' = Append(functors \o pending, f)
    BY <1>1, AppendToConcat DEF Push, TypeOK
  <2>2. Abs!UnUsed(f) /\ UNCHANGED done
    BY <1>1, UnusedIsNew DEF Push
  <2> QED BY <2>1, <2>2 DEF Abs!Next, Abs!Submit
<1>2. ASSUME NEW f \in Functor, QueueInLoop(f) PROVE Abs!Next
  <2>1. functors' \o pending' = Append(functors \o pending, f)
    BY <1>2, AppendToConcat DEF QueueInLoop, TypeOK
  <2>2. Abs!UnUsed(f) /\ UNCHANGED done
    BY <1>2, UnusedIsNew DEF QueueInLoop
  <2> QED BY <2>1, <2>2 DEF Abs!Next, Abs!Submit
<1>3. ASSUME NEW f \in Functor, RunInLoop(f) PROVE Abs!Next
  BY <1>3, UnusedIsNew DEF RunInLoop, Abs!Next, Abs!RunNow
<1>4. CASE Swap
  <2>1. functors = <<>> /\ functors' = pending /\ pending' = <<>>
    BY <1>4 DEF Swap, TypeOK
  <2>2. functors \o pending = pending /\ functors' \o pending' = pending
    BY <2>1, ConcatEmptySeq DEF TypeOK
  <2> QED BY <1>4, <2>2 DEF Swap
<1>5. CASE StartFunctor
  BY <1>5, FrontOfConcat DEF StartFunctor, TypeOK, Abs!Next, Abs!RunNext
<1>6. ASSUME UNCHANGED <<functors, pending, done>>
      PROVE  UNCHANGED <<functors \o pending, done>>
  BY <1>6
<1>7. ASSUME NEW c \in Client, PushWakeup(c) \/ Quit(c) \/ QuitWakeup(c)
      PROVE  UNCHANGED <<functors \o pending, done>>
  BY <1>6, <1>7 DEF PushWakeup, Quit, QuitWakeup
<1>8. CASE QuitInLoop \/ Enter \/ Check \/ PollReturns \/ HandleWakeup \/ HandleUser
  BY <1>6, <1>8 DEF QuitInLoop, Enter, Check, PollReturns, HandleWakeup, HandleUser
<1>9. CASE CallbackReturns \/ BeginFunctors \/ FunctorReturns \/ EndFunctors
  BY <1>6, <1>9 DEF CallbackReturns, BeginFunctors, FunctorReturns, EndFunctors
<1>10. CASE UNCHANGED vars
  BY <1>6, <1>10 DEF vars
<1> QED BY <1>1, <1>2, <1>3, <1>4, <1>5, <1>7, <1>8, <1>9, <1>10
        DEF Next, ClientStep, UserStep, LoopStep

\* Every behaviour of Event_loop is one of the serial executor its callers see:
\* functors handed over are run by one thread, once, and in the order queued.
THEOREM LoopImplementsExecutor == Spec => ImplementsExecutor
<1>1. Init => Abs!Init /\ UsedInv
  <2> SUFFICES ASSUME Init PROVE Abs!Init /\ UsedInv
    OBVIOUS
  <2>1. <<>> \o <<>> = <<>>
    OBVIOUS
  <2> QED BY <2>1 DEF Init, Abs!Init, UsedInv, Elements
<1>2. TypeOK /\ UsedInv /\ [Next]_vars => UsedInv' /\ [Abs!Next]_<<functors \o pending, done>>
  BY UsedStep, RefineStep
<1> QED BY <1>1, <1>2, TypeCorrect, PTL DEF Spec, ImplementsExecutor, Abs!Spec

-----------------------------------------------------------------------------
(* Rounds.  Only swap() and the start of a functor change what is left of a *)
(* round, and swap() comes before it.                                       *)

LEMMA RoundStep ==
  ASSUME TypeOK, Next
  PROVE  RoundShrinks
<1> USE DEF Goto, loopFrame
<1>1. CASE StartFunctor
  <2>1. Len(Tail(functors)) = Len(functors) - 1 /\ Len(functors) \in Nat
    BY <1>1, HeadTailProperties, LenProperties DEF StartFunctor, TypeOK
  <2> QED BY <1>1, <2>1 DEF StartFunctor, RoundShrinks
<1>2. CASE Swap
  BY <1>2 DEF Swap, RoundShrinks
<1>3. ASSUME UNCHANGED functors PROVE RoundShrinks
  BY <1>3, LenProperties DEF RoundShrinks, TypeOK
<1>4. ASSUME NEW c \in Client, ClientStep(c) PROVE UNCHANGED functors
  BY <1>4 DEF ClientStep, Push, PushWakeup, Quit, QuitWakeup
<1>5. CASE UserStep
  BY <1>3, <1>5 DEF UserStep, QueueInLoop, RunInLoop, QuitInLoop
<1>6. CASE Enter \/ Check \/ PollReturns \/ HandleWakeup \/ HandleUser
  BY <1>3, <1>6 DEF Enter, Check, PollReturns, HandleWakeup, HandleUser
<1>7. CASE CallbackReturns \/ BeginFunctors \/ FunctorReturns \/ EndFunctors
  BY <1>3, <1>7 DEF CallbackReturns, BeginFunctors, FunctorReturns, EndFunctors
<1> QED BY <1>1, <1>2, <1>3, <1>4, <1>5, <1>6, <1>7 DEF Next, LoopStep

\* RoundsAreFinite: a round runs only functors that were queued before it, however
\* many functors its functors and other threads queue (event_loop.cpp:235, the swap).
THEOREM Rounds == Spec => RoundsAreFinite
<1>1. TypeOK /\ [Next]_vars => [RoundShrinks]_vars
  BY RoundStep
<1> QED BY <1>1, TypeCorrect, PTL DEF Spec, RoundsAreFinite

-----------------------------------------------------------------------------
(* Event_loop_thread. *)

(* Whoever has seen loop_ set will find it set until the loop has ended. *)
Seen == owner \notin {"main", "idle", "waiting"}

ThreadInv ==
  /\ lpc \in UserCode \cup {"check", "poll", "handle", "swap", "run", "exited"}
  /\ ThreadTypeOK
  /\ Seen => loop_ \/ lpc = "exited"
  /\ owned /\ lpc # "before" /\ lpc # "exited" => loop_
  /\ over => lpc = "exited" /\ ~loop_
  /\ owner = "idle" => lpc = "before"
  /\ NobodyLeftBehind

USE DEF owned, Started, thread

LEMMA StepIsLoopStep == ThreadNext => [Next]_vars
  <1> SUFFICES ASSUME ThreadNext PROVE Next \/ UNCHANGED vars
    OBVIOUS
  <1>1. CASE start_loop \/ Destructor \/ CallsDestroyedLoop \/ Publish \/ Unpublish
             \/ ThreadEnds
    BY <1>1 DEF start_loop, Destructor, CallsDestroyedLoop, Publish, Unpublish, ThreadEnds
  <1>2. CASE OwnerGoesOn
    BY <1>2, OwnerAssumption DEF OwnerGoesOn, StartReturns, DestructorQuits,
       DestructorWakes, Join, Next, ClientStep
  <1>3. CASE LoopRuns \/ UserRuns
    BY <1>3 DEF LoopRuns, UserRuns, Next
  <1>4. CASE ClientCalls
    BY <1>4 DEF ClientCalls, Next, ClientStep
  <1>5. CASE \E c \in Client : ClientReturns(c) \/ MainQuits(c)
    BY <1>5 DEF ClientReturns, MainQuits, Next, ClientStep
  <1> QED
    BY <1>1, <1>2, <1>3, <1>4, <1>5 DEF ThreadNext

(* Only the loop's own steps move it: out of "before" into the loop, and
   nowhere once it has exited. *)
LEMMA LoopMoves ==
  ASSUME ThreadInv, LoopStep
  PROVE  /\ lpc' \in UserCode \cup {"check", "poll", "handle", "swap", "run", "exited"}
         /\ lpc' # "before" /\ lpc # "exited"
         /\ lpc' = "exited" => lpc = "check"
  BY DEF LoopStep, Enter, Check, PollReturns, HandleWakeup, HandleUser,
     CallbackReturns, BeginFunctors, Swap, StartFunctor, FunctorReturns,
     EndFunctors, Goto, ThreadInv, UserCode

LEMMA OthersStay ==
  ASSUME NEW c \in Client, UserStep \/ ClientStep(c)
  PROVE  lpc' = lpc
  BY DEF UserStep, ClientStep, QueueInLoop, RunInLoop, QuitInLoop, Push,
     PushWakeup, Quit, QuitWakeup

LEMMA ThreadStays == ThreadInv /\ [ThreadNext]_allVars => ThreadInv'
  <1> SUFFICES ASSUME ThreadInv, [ThreadNext]_allVars PROVE ThreadInv'
    OBVIOUS
  <1> USE DEF ThreadInv, ThreadTypeOK, Seen, NobodyLeftBehind
  <1>1. CASE UNCHANGED allVars
    BY <1>1 DEF allVars, vars, threadVars
  <1>2. CASE start_loop \/ Destructor \/ CallsDestroyedLoop \/ Publish \/ Unpublish
             \/ ThreadEnds
    <2>1. CASE start_loop
      BY <2>1 DEF start_loop, vars
    <2>2. CASE Destructor
      <3>1. loop_ \/ lpc = "exited"
        BY <2>2 DEF Destructor
      <3>2. lpc' = lpc /\ loop_' = loop_ /\ over' = over
        BY <2>2 DEF Destructor, vars
      <3>3. (owner' = "quitting" /\ loop_) \/ (owner' = "skipped" /\ ~loop_)
        BY <2>2 DEF Destructor
      <3>4. owner = "running"
        BY <2>2 DEF Destructor
      <3> QED
        BY <3>1, <3>2, <3>3, <3>4
    <2>3. CASE Publish
      BY <2>3 DEF Publish, vars
    <2>4. CASE ThreadEnds
      BY <2>4 DEF ThreadEnds, vars
    <2>5. CASE CallsDestroyedLoop
      BY <2>5 DEF CallsDestroyedLoop, vars
    <2>6. CASE Unpublish
      BY <2>6 DEF Unpublish, vars
    <2> QED
      BY <1>2, <2>1, <2>2, <2>3, <2>4, <2>5, <2>6
  <1>3. CASE OwnerGoesOn
    <2>1. CASE StartReturns \/ Join
      BY <2>1 DEF StartReturns, Join, vars
    <2>2. CASE DestructorQuits
      BY <2>2, OwnerAssumption DEF DestructorQuits, Quit
    <2>3. CASE DestructorWakes
      BY <2>3, OwnerAssumption DEF DestructorWakes, QuitWakeup
    <2> QED
      BY <1>3, <2>1, <2>2, <2>3 DEF OwnerGoesOn
  <1>4. CASE LoopRuns
    BY <1>4, LoopMoves DEF LoopRuns, LoopMayRun, threadVars
  <1>5. CASE UserRuns
    BY <1>5, OthersStay, OwnerAssumption DEF UserRuns, threadVars
  <1>6. CASE ClientCalls
    BY <1>6 DEF ClientCalls, Push, threadVars
  <1>7. CASE \E c \in Client : ClientReturns(c) \/ MainQuits(c)
    BY <1>7 DEF ClientReturns, MainQuits, PushWakeup, Quit, QuitWakeup, threadVars
  <1> QED
    BY <1>1, <1>2, <1>3, <1>4, <1>5, <1>6, <1>7 DEF ThreadNext

LEMMA ThreadStarts == ThreadInit => ThreadInv
  BY DEF ThreadInit, Init, ThreadInv, ThreadTypeOK, Seen, NobodyLeftBehind, UserCode

(* The loop of an Event_loop_thread behaves as EventLoop says, whatever its
   owner does and for any number of threads that use it. *)
THEOREM ThreadImplementsLoop == ThreadSpec => Spec
  <1>1. ThreadInit => Init
    BY DEF ThreadInit
  <1>2. [ThreadNext]_allVars => [Next]_vars
    BY StepIsLoopStep DEF allVars
  <1> QED
    BY <1>1, <1>2, PTL DEF ThreadSpec, Spec

(* event_loop_thread.cpp:33-53: the loop in the thread, used by its owner and by
   others, never sleeps on work and remains a serial executor. *)
THEOREM ThreadWakeupSafe == ThreadSpec => []NoLostWakeup
  BY ThreadImplementsLoop, WakeupSafe

\* The life of the thread and its owner add nothing to what a serial executor does.
THEOREM ThreadImplementsExecutor == ThreadSpec => ImplementsExecutor
  BY ThreadImplementsLoop, LoopImplementsExecutor

(* The rounds of a loop that has an owner are finite too. *)
THEOREM ThreadRounds == ThreadSpec => RoundsAreFinite
  BY ThreadImplementsLoop, Rounds

(* event_loop_thread.cpp:17-23: when the destructor is done the thread has left the
   loop and uses the Event_loop_thread no more; if it has joined the thread, that has
   ended, and if it found loop_ null, it may still be destroying its own loop. *)
THEOREM ThreadEnded == ThreadSpec => []NobodyLeftBehind
  <1>1. ThreadInv => NobodyLeftBehind
    BY DEF ThreadInv
  <1> QED
    BY <1>1, ThreadStarts, ThreadStays, PTL DEF ThreadSpec
=============================================================================
