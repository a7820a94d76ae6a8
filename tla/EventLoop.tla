------------------------------ MODULE EventLoop ------------------------------
(***************************************************************************)
(* net::Event_loop: the loop thread, the queue of pending functors guarded *)
(* by mutex_, the eventfd that wakes the poller, and other threads that    *)
(* hand functors to the loop or ask it to quit.                            *)
(*                                                                         *)
(* Besides the wakeup channel there is one "user" channel, which stands    *)
(* for every other: it may become active at any poll, and its callback may *)
(* do what user code does on the loop thread.  Each functor is handed over *)
(* once, each client calls quit() at most once.                            *)
(***************************************************************************)
EXTENDS Integers, Sequences, FiniteSets

CONSTANTS Client,    \* threads other than the loop's
          Functor,   \* the functors that may be handed over
          Nobody     \* mutex_ is free

ASSUME LoopAssumption == Nobody \notin Client

VARIABLES
  lpc,       \* where the loop thread is
  quit,      \* quit_
  mutex,     \* holder of mutex_ among the clients
  pending,   \* pending_functors_
  functors,  \* the local vector of do_pending_functors(), what is left of it
  calling,   \* calling_pending_functors_
  efd,       \* counter of the eventfd wakeup_fd_
  active,    \* active_channels_ not handled yet
  cpc,       \* what each client is doing
  asked,     \* clients that have called quit()
  used,      \* functors handed over so far
  early,     \* those the loop thread queued before it entered loop()
  done       \* history: functors in the order in which they were started

vars == <<lpc, quit, mutex, pending, functors, calling, efd, active, cpc,
          asked, used, early, done>>

\* User code runs on the loop thread before loop() (the thread's init callback),
\* in a channel's callback and in a functor.
UserCode == {"before", "callback", "functor"}

TypeOK ==
  /\ lpc \in UserCode \cup {"check", "poll", "handle", "swap", "run", "exited"}
  /\ quit \in BOOLEAN /\ calling \in BOOLEAN
  /\ mutex \in Client \cup {Nobody}
  /\ pending \in Seq(Functor) /\ functors \in Seq(Functor) /\ done \in Seq(Functor)
  /\ efd \in Nat
  /\ active \subseteq {"wakeup", "user"}
  /\ cpc \in [Client -> {"idle", "pushed", "quitting"}]
  /\ asked \subseteq Client
  /\ used \subseteq Functor /\ early \subseteq used
  /\ calling <=> lpc \in {"swap", "run", "functor"}
  /\ functors # <<>> => lpc \in {"run", "functor"}

Init ==
  /\ lpc = "before" /\ quit = FALSE /\ mutex = Nobody
  /\ pending = <<>> /\ functors = <<>> /\ calling = FALSE
  /\ efd = 0 /\ active = {}
  /\ cpc = [c \in Client |-> "idle"] /\ asked = {}
  /\ used = {} /\ early = {} /\ done = <<>>

-----------------------------------------------------------------------------
(* Other threads. *)

wakeup == efd' = efd + 1

\* queue_in_loop, first half: mutex_ taken, pending_functors_.push_back
Push(c, f) ==
  /\ cpc[c] = "idle" /\ mutex = Nobody /\ f \notin used
  /\ mutex' = c /\ cpc' = [cpc EXCEPT ![c] = "pushed"]
  /\ pending' = Append(pending, f) /\ used' = used \cup {f}
  /\ UNCHANGED <<lpc, quit, functors, calling, efd, active, asked, early, done>>

\* Defect for PushWakeup: a foreign thread relies on calling_pending_functors_.
PushWakeupIfCalling(c) ==
  /\ cpc[c] = "pushed"
  /\ IF calling THEN wakeup ELSE UNCHANGED efd
  /\ mutex' = Nobody /\ cpc' = [cpc EXCEPT ![c] = "idle"]
  /\ UNCHANGED <<lpc, quit, pending, functors, calling, active, asked, used, early, done>>

\* queue_in_loop, second half: wakeup(), mutex_ released
PushWakeup(c) ==
  /\ cpc[c] = "pushed"
  /\ wakeup
  /\ mutex' = Nobody /\ cpc' = [cpc EXCEPT ![c] = "idle"]
  /\ UNCHANGED <<lpc, quit, pending, functors, calling, active, asked, used, early, done>>

\* quit(): quit_ = true, and then wakeup()
Quit(c) ==
  /\ cpc[c] = "idle" /\ c \notin asked
  /\ quit' = TRUE /\ asked' = asked \cup {c}
  /\ cpc' = [cpc EXCEPT ![c] = "quitting"]
  /\ UNCHANGED <<lpc, mutex, pending, functors, calling, efd, active, used, early, done>>

\* Defect for QuitWakeup: quit() does not wake the poller.
QuitNoWakeup(c) ==
  /\ cpc[c] = "quitting"
  /\ cpc' = [cpc EXCEPT ![c] = "idle"]
  /\ UNCHANGED <<lpc, quit, mutex, pending, functors, calling, efd, active, asked,
                 used, early, done>>

QuitWakeup(c) ==
  /\ cpc[c] = "quitting"
  /\ wakeup
  /\ cpc' = [cpc EXCEPT ![c] = "idle"]
  /\ UNCHANGED <<lpc, quit, mutex, pending, functors, calling, active, asked,
                 used, early, done>>

-----------------------------------------------------------------------------
(* User code on the loop thread. *)

\* Defect for QueueInLoop: no wakeup for functors that functors queue.
QueueInLoopSilently(f) ==
  /\ lpc \in UserCode /\ mutex = Nobody /\ f \notin used
  /\ pending' = Append(pending, f) /\ used' = used \cup {f}
  /\ early' = IF lpc = "before" THEN early \cup {f} ELSE early
  /\ UNCHANGED <<lpc, quit, mutex, functors, calling, efd, active, cpc, asked, done>>

\* Defect for QueueInLoop: appended to the round that is running.
QueueInThisRound(f) ==
  /\ lpc \in UserCode /\ mutex = Nobody /\ f \notin used
  /\ IF calling THEN functors' = Append(functors, f) /\ UNCHANGED pending
                ELSE pending' = Append(pending, f) /\ UNCHANGED functors
  /\ used' = used \cup {f}
  /\ early' = IF lpc = "before" THEN early \cup {f} ELSE early
  /\ UNCHANGED <<lpc, quit, mutex, calling, efd, active, cpc, asked, done>>

\* queue_in_loop: a wakeup only if the functors taken by this round are running
QueueInLoop(f) ==
  /\ lpc \in UserCode /\ mutex = Nobody /\ f \notin used
  /\ pending' = Append(pending, f) /\ used' = used \cup {f}
  /\ early' = IF lpc = "before" THEN early \cup {f} ELSE early
  /\ IF calling THEN wakeup ELSE UNCHANGED efd
  /\ UNCHANGED <<lpc, quit, mutex, functors, calling, active, cpc, asked, done>>

\* run_in_loop: cb() at once
RunInLoop(f) ==
  /\ lpc \in UserCode /\ f \notin used
  /\ done' = Append(done, f) /\ used' = used \cup {f}
  /\ UNCHANGED <<lpc, quit, mutex, pending, functors, calling, efd, active, cpc,
                 asked, early>>

\* quit() on the loop thread needs no wakeup
QuitInLoop ==
  /\ lpc \in UserCode
  /\ quit' = TRUE
  /\ UNCHANGED <<lpc, mutex, pending, functors, calling, efd, active, cpc, asked,
                 used, early, done>>

-----------------------------------------------------------------------------
(* loop(). *)

Goto(l) == lpc' = l

loopFrame == <<mutex, cpc, asked, used, early>>

\* looping_ = true; quit_ = false
Enter ==
  /\ lpc = "before"
  /\ quit' = FALSE /\ Goto("check")
  /\ UNCHANGED <<pending, functors, calling, efd, active, done, loopFrame>>

\* while(!quit_)
Check ==
  /\ lpc = "check"
  /\ Goto(IF quit THEN "exited" ELSE "poll")
  /\ UNCHANGED <<quit, pending, functors, calling, efd, active, done, loopFrame>>

\* poller_->poll(poll_time_ms): descriptors are ready, or the time is over
PollReturns ==
  /\ lpc = "poll"
  /\ \E user \in SUBSET {"user"} :
       active' = user \cup (IF efd > 0 THEN {"wakeup"} ELSE {})
  /\ Goto("handle")
  /\ UNCHANGED <<quit, pending, functors, calling, efd, done, loopFrame>>

\* wakeup_channel_ -> handle_read(): the eventfd is read and reset
HandleWakeup ==
  /\ lpc = "handle" /\ "wakeup" \in active
  /\ active' = active \ {"wakeup"} /\ efd' = 0
  /\ UNCHANGED <<lpc, quit, pending, functors, calling, done, loopFrame>>

HandleUser ==
  /\ lpc = "handle" /\ "user" \in active
  /\ active' = active \ {"user"} /\ Goto("callback")
  /\ UNCHANGED <<quit, pending, functors, calling, efd, done, loopFrame>>

CallbackReturns ==
  /\ lpc = "callback"
  /\ Goto("handle")
  /\ UNCHANGED <<quit, pending, functors, calling, efd, active, done, loopFrame>>

\* event_handling_ = false; do_pending_functors(): calling_pending_functors_ = true
BeginFunctors ==
  /\ lpc = "handle" /\ active = {}
  /\ calling' = TRUE /\ Goto("swap")
  /\ UNCHANGED <<quit, pending, functors, efd, active, done, loopFrame>>

\* functors.swap(pending_functors_) under mutex_
Swap ==
  /\ lpc = "swap" /\ mutex = Nobody
  /\ functors' = pending /\ pending' = <<>>
  /\ Goto("run")
  /\ UNCHANGED <<quit, calling, efd, active, done, loopFrame>>

\* Defect for StartFunctor: the vector is run from its back.
StartLastFunctor ==
  /\ lpc = "run" /\ functors # <<>>
  /\ done' = Append(done, functors[Len(functors)])
  /\ functors' = SubSeq(functors, 1, Len(functors) - 1)
  /\ Goto("functor")
  /\ UNCHANGED <<quit, pending, calling, efd, active, loopFrame>>

\* functors[i]()
StartFunctor ==
  /\ lpc = "run" /\ functors # <<>>
  /\ done' = Append(done, Head(functors)) /\ functors' = Tail(functors)
  /\ Goto("functor")
  /\ UNCHANGED <<quit, pending, calling, efd, active, loopFrame>>

FunctorReturns ==
  /\ lpc = "functor"
  /\ Goto("run")
  /\ UNCHANGED <<quit, pending, functors, calling, efd, active, done, loopFrame>>

\* calling_pending_functors_ = false, back to the loop condition
EndFunctors ==
  /\ lpc = "run" /\ functors = <<>>
  /\ calling' = FALSE /\ Goto("check")
  /\ UNCHANGED <<quit, pending, functors, efd, active, done, loopFrame>>

ClientStep(c) == \/ \E f \in Functor : Push(c, f)
                 \/ PushWakeup(c) \/ Quit(c) \/ QuitWakeup(c)

UserStep == (\E f \in Functor : QueueInLoop(f) \/ RunInLoop(f)) \/ QuitInLoop

LoopStep == \/ Enter \/ Check \/ PollReturns \/ HandleWakeup \/ HandleUser
            \/ CallbackReturns \/ BeginFunctors \/ Swap \/ StartFunctor
            \/ FunctorReturns \/ EndFunctors

Next == (\E c \in Client : ClientStep(c)) \/ UserStep \/ LoopStep

Spec == Init /\ [][Next]_vars

\* The loop thread runs and user code returns; poll returns if the eventfd is
\* readable (it also returns after poll_time_ms, ten seconds, on which nothing
\* below relies); a client that has begun a call completes it.
FairSpec == /\ Spec /\ WF_vars(LoopStep /\ (lpc = "poll" => efd > 0))
            /\ \A c \in Client : WF_vars(PushWakeup(c)) /\ WF_vars(QuitWakeup(c))

-----------------------------------------------------------------------------
\* The poller never sleeps on work: with functors queued, or quit_ set, the
\* eventfd is readable or some thread is about to make it so.  The exception is
\* what the loop thread queued before loop(), which waits for the next event or
\* for poll_time_ms.
NoLostWakeup ==
  lpc = "poll" /\ efd = 0 =>
    /\ \A i \in DOMAIN pending : pending[i] \in early \/ mutex # Nobody
    /\ quit => \E c \in Client : cpc[c] = "quitting"

\* A functor queued while functors run belongs to the next round, so the loop
\* polls between two rounds: a round runs only functors taken at its start.
\* This is what keeps functors that queue themselves from starving the sockets.
RoundShrinks == lpc \in {"run", "functor"} => Len(functors') <= Len(functors)
RoundsAreFinite == [][RoundShrinks]_vars

Abs == INSTANCE Executor WITH inbox <- functors \o pending

\* Event_loop implements Executor: no functor is lost, run twice or overtaken.
ImplementsExecutor == Abs!Spec

\* Every functor queued is started, unless the loop ends, without the help of
\* other events or of the poll's time limit (but see NoLostWakeup for early ones).
QueuedRuns ==
  \A f \in Functor : (f \notin early /\ \E i \in DOMAIN pending : pending[i] = f) ~>
    (lpc = "exited" \/ \E i \in DOMAIN done : done[i] = f)

\* Once inside loop(), quit() ends it, from any thread and at any point.
QuitEndsLoop == (quit /\ lpc # "before") ~> (lpc = "exited")

\* quit() ends the loop whenever it is called.
QuitIsHonoured == (asked # {}) ~> (lpc = "exited")
=============================================================================
