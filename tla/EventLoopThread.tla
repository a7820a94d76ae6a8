-------------------------- MODULE EventLoopThread ---------------------------
(* net::Event_loop_thread: a thread that makes an Event_loop, publishes it   *)
(* to its Owner and runs it until the Owner's destructor asks it to quit.    *)
(* The same specification has the loop that a program runs in the thread     *)
(* that made it (owner = "main"): every thread knows it from the beginning.  *)
EXTENDS EventLoop

CONSTANT Owner

ASSUME OwnerAssumption == Owner \in Client

VARIABLES
  owner,  \* what the Owner of the Event_loop_thread is doing, or "main"
  loop_,  \* loop_ points to the loop
  over    \* thread_func has returned: its local loop is destroyed, the thread has ended

threadVars == <<owner, loop_, over>>
allVars == <<vars, threadVars>>

ThreadTypeOK ==
  /\ owner \in {"main", "idle", "waiting", "running", "quitting", "waking",
                "joining", "joined", "skipped", "crashed"}
  /\ loop_ \in BOOLEAN /\ over \in BOOLEAN

ThreadInit == Init /\ owner \in {"main", "idle"} /\ loop_ = FALSE /\ over = FALSE

owned == owner # "main"
-----------------------------------------------------------------------------
(* The Owner. *)

thread == <<loop_, over>>

start_loop == owner = "idle" /\ owner' = "waiting" /\ UNCHANGED <<vars, thread>>

StartReturns == owner = "waiting" /\ loop_ /\ owner' = "running" /\ UNCHANGED <<vars, thread>>

(* The destructor: if(loop_ != NULL), read without mutex_: if it is NULL the
   Event_loop_thread is gone at once ... *)
Destructor == /\ owner = "running" /\ cpc[Owner] = "idle"
              /\ owner' = IF loop_ THEN "quitting" ELSE "skipped"
              /\ UNCHANGED <<vars, thread>>

(* ... else quit(), in its two steps, and join(). *)
DestructorQuits == /\ owner = "quitting" /\ Quit(Owner)
                   /\ owner' = "waking" /\ UNCHANGED thread

DestructorWakes == /\ owner = "waking" /\ QuitWakeup(Owner)
                   /\ owner' = "joining" /\ UNCHANGED thread

(* loop_ was cleared after the test, or the loop was destroyed in the middle of quit():
   the call goes through a null or a dangling pointer, which may end the process.  The
   two actions above are the outcome that it does no harm. *)
CallsDestroyedLoop == /\ (owner = "quitting" /\ ~loop_) \/ (owner = "waking" /\ over)
                      /\ owner' = "crashed" /\ UNCHANGED <<vars, thread>>

(* Defect for Join: the thread is detached. *)
JoinDetached == owner = "joining" /\ owner' = "joined" /\ UNCHANGED <<vars, thread>>

Join == owner = "joining" /\ over /\ owner' = "joined" /\ UNCHANGED <<vars, thread>>

-----------------------------------------------------------------------------
(* thread_func. *)

Started == owner # "idle"

(* Until it is published the loop belongs to callback_, which may use it. *)
Publish == /\ owned /\ Started /\ lpc = "before" /\ ~loop_
           /\ loop_' = TRUE /\ UNCHANGED <<vars, owner, over>>

LoopMayRun == Started /\ (owned /\ lpc = "before" => loop_)

LoopRuns == LoopMayRun /\ LoopStep /\ UNCHANGED threadVars

UserRuns == /\ Started /\ (owned /\ lpc = "before" => ~loop_)
            /\ UserStep /\ UNCHANGED threadVars

(* loop_ = NULL, also without mutex_ *)
Unpublish == /\ owned /\ lpc = "exited" /\ loop_
             /\ loop_' = FALSE /\ UNCHANGED <<vars, owner, over>>

(* thread_func returns *)
ThreadEnds == /\ owned /\ lpc = "exited" /\ ~loop_ /\ ~over
              /\ over' = TRUE /\ UNCHANGED <<vars, owner, loop_>>

-----------------------------------------------------------------------------
(* Threads that were given the loop use it while the Event_loop_thread lives. *)
ClientCalls == /\ \E c \in Client, f \in Functor : Push(c, f)
               /\ owner \in {"main", "running"}
               /\ UNCHANGED threadVars

ClientReturns(c) == PushWakeup(c) /\ UNCHANGED threadVars

MainQuits(c) == owner = "main" /\ (Quit(c) \/ QuitWakeup(c)) /\ UNCHANGED threadVars

OwnerGoesOn == StartReturns \/ DestructorQuits \/ DestructorWakes \/ Join

ThreadNext ==
  \/ start_loop \/ Destructor \/ OwnerGoesOn \/ CallsDestroyedLoop
  \/ Publish \/ LoopRuns \/ UserRuns \/ Unpublish \/ ThreadEnds \/ ClientCalls
  \/ \E c \in Client : ClientReturns(c) \/ MainQuits(c)

ThreadSpec == ThreadInit /\ [][ThreadNext]_allVars

(* As in EventLoop; and the Owner and its thread go on with what they do.  The
   Owner need not destroy the Event_loop_thread. *)
FairThreadSpec ==
  /\ ThreadSpec
  /\ WF_allVars(LoopRuns /\ (lpc = "poll" => efd > 0))
  /\ WF_allVars(Publish \/ Unpublish \/ ThreadEnds) /\ WF_allVars(OwnerGoesOn)
  /\ \A c \in Client :
       /\ WF_allVars(ClientReturns(c))
       /\ WF_allVars(MainQuits(c) /\ cpc[c] = "quitting")
-----------------------------------------------------------------------------
(* event_loop_thread.cpp:17: a thread outlives its Event_loop_thread only if the
   destructor found loop_ null, and then it has left loop() and uses no member of it any
   more: what may still run is the destruction of the thread's own loop.  After a join()
   it has ended.  (A destructor that calls quit() on a loop which has just gone may have
   crashed instead.) *)
NobodyLeftBehind ==
  /\ owner = "skipped" => lpc = "exited" /\ ~loop_
  /\ owner = "joined" => lpc = "exited" /\ ~loop_ /\ over
=============================================================================
