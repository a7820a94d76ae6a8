------------------------------ MODULE Executor ------------------------------
(***************************************************************************)
(* What net::Event_loop promises to the callers of run_in_loop and         *)
(* queue_in_loop: one thread runs every functor that is handed to it, at   *)
(* most once, and those that are queued in the order of queueing.          *)
(***************************************************************************)
EXTENDS Sequences

CONSTANT Functor

VARIABLES inbox,  \* functors queued and not started
          done    \* functors started, in order

Fresh(f) == \A i \in DOMAIN inbox : inbox[i] # f
UnUsed(f) == Fresh(f) /\ \A i \in DOMAIN done : done[i] # f

Init == inbox = <<>> /\ done = <<>>

\* queue_in_loop, or run_in_loop from a foreign thread
Submit(f) == UnUsed(f) /\ inbox' = Append(inbox, f) /\ UNCHANGED done

\* run_in_loop on the loop's own thread
RunNow(f) == UnUsed(f) /\ done' = Append(done, f) /\ UNCHANGED inbox

\* the loop starts the oldest queued functor
RunNext == /\ inbox # <<>>
           /\ done' = Append(done, Head(inbox)) /\ inbox' = Tail(inbox)

Next == (\E f \in Functor : Submit(f) \/ RunNow(f)) \/ RunNext

Spec == Init /\ [][Next]_<<inbox, done>>
=============================================================================
