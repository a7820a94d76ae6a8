----------------------------- MODULE TimerQueue -----------------------------
(***************************************************************************)
(* net::Timer_queue: the timers of one event loop, kept in two ordered     *)
(* sets, a timerfd armed for the earliest of them, and the functors by     *)
(* which other threads add and cancel timers.                              *)
(*                                                                         *)
(* The timerfd runs on the monotonic clock, expirations are wall-clock     *)
(* times, and an administrator may set the wall clock.  Timer objects live *)
(* at addresses that are reused after delete.  A caller of cancel() keeps  *)
(* its Timer_id alive until the loop has read it: cancel() passes it to    *)
(* the loop by reference.                                                  *)
(***************************************************************************)
EXTENDS Integers, Sequences, FiniteSets

CONSTANTS Addr,        \* where a Timer object may be allocated
          Free,        \* no object at an address
          Intervals,   \* intervals of the timers, 0 for those that run once
          MaxTimers,   \* bound on the timers created
          MaxTime,     \* bound on the clock
          MaxSets      \* bound on the times the wall clock is set

ASSUME TimerAssumption ==
  /\ Free \notin [seq : Nat, exp : Int, interval : Nat] /\ Intervals \subseteq Nat
  /\ MaxTimers \in Nat /\ MaxTime \in Nat /\ MaxSets \in Nat

VARIABLES
  mono, skew, sets, \* monotonic clock; wall clock minus it; times it was set
  objs,       \* the Timer objects
  made,       \* made[s] is the address of the timer with sequence_ s
  id,         \* the sequence number in the Timer_id that its caller got, 0 before it has one
  inbox,      \* add_timer_in_loop and cancel_in_loop functors from other threads
  heap,       \* timers_: pairs of expiration and address
  active,     \* active_timers_: pairs of address and sequence number
  calling,    \* calling_expired_timers_
  canceling,  \* canceling_timers_
  armed,      \* when the timerfd becomes readable, or -1
  pc, batch, pos, readAt, \* handleRead(): where it is, expired, its index, now
  ran,        \* history: how many times each timer has run
  asked,      \* timers for which cancel() was called
  cancelled   \* history: those known to the queue when the loop handled the call

clocks == <<mono, skew, sets>>
lists == <<heap, active>>
reading == <<pc, batch, pos, readAt, calling>>
history == <<ran, cancelled>>
timers == <<made, id>>
vars == <<clocks, objs, timers, inbox, lists, canceling, armed, reading, history, asked>>

wall == mono + skew
Seqs == 1 .. MaxTimers
Object == [seq : Seqs, exp : Int, interval : Nat]
Timer(s) == <<made[s], s>>
Timer_id(s) == <<made[s], id[s]>>
Entry(a, t) == <<t.exp, a>>
Functors == [op : {"add", "cancel"}, timer : Seqs]

TypeOK ==
  /\ mono \in 0 .. MaxTime /\ skew \in Int /\ sets \in 0 .. MaxSets
  /\ objs \in [Addr -> Object \cup {Free}]
  /\ made \in Seq(Addr) /\ Len(made) <= MaxTimers /\ id \in [Seqs -> 0 .. MaxTimers]
  /\ inbox \in Seq(Functors)
  /\ heap \subseteq Int \X Addr /\ active \subseteq Addr \X Seqs
  /\ canceling \subseteq Addr \X Seqs
  /\ armed \in Nat \cup {-1}
  /\ pc \in {"loop", "run", "callback", "gone"} /\ readAt \in Int
  /\ batch \in Seq(Int \X Addr) /\ pos \in 1 .. Len(batch) + 1
  /\ calling \in BOOLEAN /\ (calling <=> pc \in {"run", "callback"})
  /\ ran \in [Seqs -> Nat] /\ asked \subseteq Seqs /\ cancelled \subseteq asked

Init ==
  /\ mono = 0 /\ skew = 0 /\ sets = 0
  /\ objs = [a \in Addr |-> Free] /\ made = <<>> /\ inbox = <<>>
  /\ id = [s \in Seqs |-> 0]
  /\ heap = {} /\ active = {} /\ calling = FALSE /\ canceling = {}
  /\ armed = -1 /\ pc = "loop" /\ batch = <<>> /\ pos = 1 /\ readAt = 0
  /\ ran = [s \in Seqs |-> 0] /\ asked = {} /\ cancelled = {}

-----------------------------------------------------------------------------
Tick == /\ mono < MaxTime /\ mono' = mono + 1
        /\ UNCHANGED <<skew, sets, objs, timers, inbox, lists, canceling, armed,
                       reading, history, asked>>

\* The wall clock is set one tick back or forth.
SetWallClock ==
  /\ sets < MaxSets /\ sets' = sets + 1
  /\ \E d \in {-1, 1} : skew' = skew + d
  /\ UNCHANGED <<mono, objs, timers, inbox, lists, canceling, armed, reading,
                 history, asked>>

-----------------------------------------------------------------------------
\* how_much_time_from_now and timerfd_settime, for a timer that expires at when.  One
\* that is due makes the timerfd readable at once: the floor of 100 microseconds, which
\* keeps timerfd_settime from disarming it, is below the resolution of this clock.
Deadline(when) == mono + (IF when > wall THEN when - wall ELSE 0)

\* Defect for Sooner: the alarm moves only for the first timer.
OnlyTimer(t) == heap = {}

Sooner(t) == \A e \in heap : t.exp < e[1]

\* insert() in both sets, and reset_timerfd() if the timer is the earliest
insert(a, t) ==
  /\ heap' = heap \cup {Entry(a, t)}
  /\ active' = active \cup {<<a, t.seq>>}
  /\ armed' = IF Sooner(t) THEN Deadline(t.exp) ELSE armed

\* Defect for IsActive: the timer is looked up by its address alone.
AddressIsActive(s) == \E e \in active : e[1] = made[s]

IsActive(s) == Timer_id(s) \in active

\* Defect for drop: the object is deleted, its entry in timers_ stays.
dropKeepsEntry(s) ==
  /\ active' = active \ {Timer_id(s)} /\ objs' = [objs EXCEPT ![made[s]] = Free]
  /\ UNCHANGED <<heap, canceling>>

\* the timer waits: out of both sets, and deleted
drop(s) ==
  /\ heap' = heap \ {Entry(made[s], objs[made[s]])}
  /\ active' = active \ {Timer_id(s)} /\ objs' = [objs EXCEPT ![made[s]] = Free]
  /\ UNCHANGED canceling

\* Defect for remember: a timer whose batch is running is forgotten.
rememberNothing(s) == UNCHANGED <<lists, objs, canceling>>

\* it does not: it may be in the batch that is running
remember(s) ==
  /\ canceling' = IF calling THEN canceling \cup {Timer_id(s)} ELSE canceling
  /\ UNCHANGED <<lists, objs>>

Known(s) == \A i \in DOMAIN inbox : inbox[i] # [op |-> "add", timer |-> s]

cancel_in_loop(s) ==
  /\ IF IsActive(s) THEN drop(s) ELSE remember(s)
  /\ cancelled' = IF Known(s) THEN cancelled \cup {s} ELSE cancelled

-----------------------------------------------------------------------------
(* Callers.  A timer is created by its caller, in any thread, at a free    *)
(* address; on the loop thread the rest happens at once.  Elsewhere it is  *)
(* left to a functor, after which the caller reads the sequence number for *)
(* its Timer_id from a Timer that it has given away.                       *)

New(a, t) ==
  /\ Len(made) < MaxTimers /\ objs[a] = Free
  /\ t.seq = Len(made) + 1
  /\ objs' = [objs EXCEPT ![a] = t]
  /\ made' = Append(made, a)

Choices == [seq : Seqs, exp : wall .. MaxTime, interval : Intervals]

AddElsewhere ==
  /\ pc # "gone"
  /\ \E a \in Addr, t \in Choices :
       New(a, t) /\ inbox' = Append(inbox, [op |-> "add", timer |-> t.seq])
  /\ UNCHANGED <<clocks, id, lists, canceling, armed, reading, history, asked>>

\* timer->sequence(), and add_timer() returns.  If the loop has deleted the Timer, what
\* is read is that of the timer which lives there now, or anything.
ReadSequence(s) ==
  /\ s \in DOMAIN made /\ id[s] = 0
  /\ \E q \in IF objs[made[s]] = Free THEN Seqs ELSE {objs[made[s]].seq} :
       id' = [id EXCEPT ![s] = q]
  /\ UNCHANGED <<clocks, objs, made, inbox, lists, canceling, armed, reading, history, asked>>

AddOnLoop ==
  /\ pc \in {"loop", "callback"}
  /\ \E a \in Addr, t \in Choices :
       New(a, t) /\ insert(a, t) /\ id' = [id EXCEPT ![t.seq] = t.seq]
  /\ UNCHANGED <<clocks, inbox, canceling, reading, history, asked>>

\* cancel() with the Timer_id that the caller of add_timer() got for s
Ask(s) == pc # "gone" /\ id[s] # 0 /\ s \notin asked /\ asked' = asked \cup {s}

CancelElsewhere(s) ==
  /\ Ask(s)
  /\ inbox' = Append(inbox, [op |-> "cancel", timer |-> s])
  /\ UNCHANGED <<clocks, objs, timers, lists, canceling, armed, reading, history>>

CancelOnLoop(s) ==
  /\ pc \in {"loop", "callback"}
  /\ Ask(s) /\ cancel_in_loop(s)
  /\ UNCHANGED <<clocks, timers, inbox, armed, reading, ran>>

-----------------------------------------------------------------------------
(* The loop thread. *)

RunAdd ==
  /\ pc = "loop" /\ inbox # <<>> /\ Head(inbox).op = "add"
  /\ inbox' = Tail(inbox)
  /\ LET a == made[Head(inbox).timer] IN insert(a, objs[a])
  /\ UNCHANGED <<clocks, objs, timers, canceling, reading, history, asked>>

RunCancel ==
  /\ pc = "loop" /\ inbox # <<>> /\ Head(inbox).op = "cancel"
  /\ inbox' = Tail(inbox)
  /\ cancel_in_loop(Head(inbox).timer)
  /\ UNCHANGED <<clocks, timers, armed, reading, ran, asked>>

\* the entries of a set, in the order of timers_ (addresses in any order)
Orders(E) == {q \in [1 .. Cardinality(E) -> E] :
                /\ \A i, j \in DOMAIN q : i < j => q[i][1] <= q[j][1]
                /\ \A e \in E : \E i \in DOMAIN q : q[i] = e}

\* Defect for get_expired: active_timers_ keeps the timers of the batch.
getExpiredStayActive(now) ==
  LET due == {e \in heap : e[1] <= now} IN
  /\ heap' = heap \ due
  /\ batch' \in Orders(due)
  /\ UNCHANGED active

get_expired(now) ==
  LET due == {e \in heap : e[1] <= now} IN
  /\ heap' = heap \ due
  /\ active' = active \ {<<e[2], objs[e[2]].seq>> : e \in due}
  /\ batch' \in Orders(due)

\* The timerfd is readable: handleRead() up to its first callback.  (If it was armed
\* again after the poll the read finds nothing, which is logged only.)
HandleRead ==
  /\ pc = "loop" /\ 0 <= armed /\ armed <= mono
  /\ armed' = -1 /\ readAt' = wall
  /\ get_expired(wall)
  /\ calling' = TRUE /\ canceling' = {} /\ pos' = 1 /\ pc' = "run"
  /\ UNCHANGED <<clocks, objs, timers, inbox, history, asked>>

RunTimer ==
  /\ pc = "run" /\ pos <= Len(batch)
  /\ pc' = "callback"
  /\ ran' = [ran EXCEPT ![objs[batch[pos][2]].seq] = @ + 1]
  /\ UNCHANGED <<clocks, objs, timers, inbox, lists, canceling, armed, batch, pos,
                 readAt, calling, cancelled, asked>>

CallbackReturns ==
  /\ pc = "callback"
  /\ pc' = "run" /\ pos' = pos + 1
  /\ UNCHANGED <<clocks, objs, timers, inbox, lists, canceling, armed, batch, readAt,
                 calling, history, asked>>

InBatch == {batch[i][2] : i \in DOMAIN batch}
Restarted == {a \in InBatch : objs[a].interval > 0 /\ <<a, objs[a].seq>> \notin canceling}
Restart(a) == [objs[a] EXCEPT !.exp = readAt + objs[a].interval]
Earliest(E) == CHOOSE x \in {e[1] : e \in E} : \A e \in E : x <= e[1]

\* Defect for Rearm: the alarm is left as the callbacks left it.
RearmNothing == UNCHANGED armed

Rearm == armed' = IF heap' # {} THEN Deadline(Earliest(heap')) ELSE armed

EndCalling == calling' = FALSE

\* calling_expired_timers_ = false and reset(): repeating timers are put back
\* unless they were cancelled in a callback, the others deleted, and the timerfd
\* armed for the earliest
Reset ==
  /\ pc = "run" /\ pos > Len(batch)
  /\ objs' = [a \in Addr |-> IF a \in Restarted THEN Restart(a)
                             ELSE IF a \in InBatch THEN Free ELSE objs[a]]
  /\ heap' = heap \cup {Entry(a, Restart(a)) : a \in Restarted}
  /\ active' = active \cup {<<a, objs[a].seq>> : a \in Restarted}
  /\ Rearm /\ EndCalling
  /\ pc' = "loop" /\ batch' = <<>> /\ pos' = 1 /\ readAt' = 0
  /\ UNCHANGED <<clocks, timers, inbox, canceling, history, asked>>

\* ~Timer_queue, when the loop has ended and nobody uses it any more: the timers
\* that wait are deleted.  Functors still queued are destroyed with the loop,
\* but the Timer objects they hold are not.
Destroy ==
  /\ pc = "loop" /\ pc' = "gone"
  /\ objs' = [a \in Addr |-> IF \E e \in heap : e[2] = a THEN Free ELSE objs[a]]
  /\ heap' = {} /\ active' = {} /\ armed' = -1
  /\ UNCHANGED <<clocks, timers, inbox, canceling, batch, pos, readAt, calling,
                 history, asked>>

Caller ==
  \/ AddElsewhere \/ AddOnLoop
  \/ \E s \in Seqs : ReadSequence(s) \/ CancelElsewhere(s) \/ CancelOnLoop(s)
LoopStep == RunAdd \/ RunCancel \/ HandleRead \/ RunTimer \/ CallbackReturns \/ Reset

Next == Tick \/ SetWallClock \/ Caller \/ LoopStep \/ Destroy

Spec == Init /\ [][Next]_vars

\* Time goes on, the loop polls and runs its functors in turn, callbacks return.
FairSpec == /\ Spec /\ WF_vars(Tick)
            /\ WF_vars(HandleRead) /\ WF_vars(RunAdd \/ RunCancel)
            /\ WF_vars(RunTimer \/ CallbackReturns \/ Reset)

-----------------------------------------------------------------------------
\* timers_ and active_timers_ hold the same timers, each under its own expiration
\* and sequence number (the assertions of timer_queue.cpp, and more than their
\* comparison of sizes).
SetsAgree ==
  /\ \A e \in active : /\ objs[e[1]] # Free
                       /\ objs[e[1]].seq = e[2]
                       /\ Entry(e[1], objs[e[1]]) \in heap
  /\ \A e \in heap : /\ objs[e[2]] # Free
                     /\ e = Entry(e[2], objs[e[2]])
                     /\ <<e[2], objs[e[2]].seq>> \in active

\* Exactly one of a queued functor, timers_ and the running batch answers for a
\* Timer object, so that it is deleted once and none of the three meets a deleted one.
\* add_timer() is no holder: it may read the sequence number of a deleted Timer.
Queued == {made[inbox[i].timer] : i \in {j \in DOMAIN inbox : inbox[j].op = "add"}}
Waiting == {e[2] : e \in heap}
OneHolder ==
  /\ {a \in Addr : objs[a] # Free} = Queued \cup Waiting \cup InBatch
  /\ Queued \cap Waiting = {} /\ Queued \cap InBatch = {} /\ Waiting \cap InBatch = {}
  /\ Cardinality(InBatch) = Len(batch)

\* A timer that the loop knew when it handled the cancellation never waits again:
\* if its batch is running it may run once more (reset() then drops it).
CancelledNeverWaits ==
  \A s \in cancelled :
    /\ Timer(s) \notin active
    /\ pc = "loop" => objs[made[s]] = Free \/ objs[made[s]].seq # s

\* Some cancel() was called with a Timer_id that names s.  It need not be the one returned
\* for s: add_timer() may have read it from the memory of s, after its own Timer was deleted.
Named(s) == s \in DOMAIN made /\ \E u \in asked : Timer_id(u) = Timer(s)

\* A timer that no cancel() named is there until it has run, though addresses are
\* reused and other timers are cancelled.
NobodyElsesTimer ==
  \A s \in DOMAIN made : ~Named(s) /\ ran[s] = 0 /\ pc # "gone" =>
    objs[made[s]] # Free /\ objs[made[s]].seq = s

\* While timers wait the timerfd is armed, and unless the wall clock was set it is
\* armed no later than the earliest of them.
AlarmSet ==
  pc = "loop" /\ heap # {} =>
    /\ armed # -1
    /\ sets = 0 => \/ armed <= Earliest(heap)
                   \/ armed <= mono

\* A timer runs unless a cancel() named it (or the wall clock is set, which may put its
\* time off beyond every bound, or the loop is destroyed).
TimerRuns ==
  \A s \in Seqs : (s \in DOMAIN made) ~>
    (ran[s] > 0 \/ Named(s) \/ sets > 0 \/ pc = "gone")
=============================================================================
