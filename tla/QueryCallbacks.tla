--------------------------- MODULE QueryCallbacks ---------------------------
(* server/database/database/query_callback.cpp and                           *)
(* query_callback_processor.cpp: chains of callbacks, each waiting for the   *)
(* future of one query, and the processor that polls them.  A chain is a     *)
(* query_callback object, wherever it has been moved to; string and prepared *)
(* queries differ in nothing but their types and are not told apart.  The    *)
(* processor has no lock: while another thread is inside add_query(), what   *)
(* its owner does to callbacks_ tears that call.                             *)
EXTENDS SequencesExt, Naturals

CONSTANTS Chains, Queries, None,
          MaxSteps   \* bound: callbacks of one chain

ASSUME ChainsAssumption == None \notin Chains \cup Queries /\ MaxSteps \in Nat \ {0}

VARIABLES
  answer,     \* answer[q]: what became of query q, asked in another thread
  future,     \* future[c]: the query whose future c holds, or None: not valid
  steps,      \* steps[c]: callbacks still in c.callbacks_
  callbacks,  \* processor: callbacks_
  adding,     \* the chain that another thread is in add_query with, or None
  torn,       \* history: chains whose add_query the owner's use of callbacks_ fell into
  round,      \* the local vector: chains not yet visited in this round ...
  kept,       \* ... and those visited that stay
  current,    \* the chain whose callback is running, or None
  dropped,    \* chains were destroyed: by an exception, or with the processor
  asked,      \* history: asked[c], queries whose future c was given
  called,     \* history: called[c], queries whose result c's callbacks got
  finished    \* history: chains that were completed

chainVars == <<answer, future, steps, callbacks, adding, torn, round, kept, current,
               dropped, asked, called, finished>>
others == <<adding, torn>>

ChainsTypeOK ==
  /\ answer \in [Queries -> {"unused", "pending", "ready", "broken"}]
  /\ future \in [Chains -> Queries \cup {None}]
  /\ steps \in [Chains -> 0..MaxSteps]
  /\ \A s \in {callbacks, round, kept} : s \in Seq(Chains)
  /\ adding \in Chains \cup {None} /\ torn \subseteq Chains
  /\ current \in Chains \cup {None} /\ dropped \in BOOLEAN
  /\ asked \in [Chains -> Seq(Queries)] /\ called \in [Chains -> Seq(Queries)]
  /\ finished \subseteq Chains

ChainsInit ==
  /\ answer = [q \in Queries |-> "unused"]
  /\ future = [c \in Chains |-> None] /\ steps = [c \in Chains |-> 0]
  /\ callbacks = <<>> /\ round = <<>> /\ kept = <<>>
  /\ adding = None /\ torn = {}
  /\ current = None /\ dropped = FALSE
  /\ asked = [c \in Chains |-> <<>>] /\ called = [c \in Chains |-> <<>>]
  /\ finished = {}

(* A query is asked of the pool: its future is given to chain c. *)
Ask(c, q) == /\ answer[q] = "unused"
             /\ answer' = [answer EXCEPT ![q] = "pending"]
             /\ future' = [future EXCEPT ![c] = q]
             /\ asked' = [asked EXCEPT ![c] = Append(@, q)]

(* The pool answers, or destroys the operation with its promise. *)
Settle(q, how) ==
  /\ answer[q] = "pending" /\ how \in {"ready", "broken"}
  /\ answer' = [answer EXCEPT ![q] = how]
  /\ UNCHANGED <<future, steps, callbacks, round, kept, current, dropped, asked,
                 called, finished, others>>

(* The processor's owner reads or changes callbacks_. *)
Touches == torn' = torn \cup ({adding} \ {None}) /\ UNCHANGED adding

(* add_query of a new chain of n callbacks, by the owner. *)
AddQuery(c, n, q) ==
  /\ asked[c] = <<>> /\ Ask(c, q)
  /\ steps' = [steps EXCEPT ![c] = n]
  /\ callbacks' = Append(callbacks, c) /\ Touches
  /\ UNCHANGED <<round, kept, current, dropped, called, finished>>

(* add_query by another thread, in two steps: a call that is torn may lose its
   chain.  (Whatever else it may do to the vector is left to the module that
   says which threads there are.) *)
BeginAdd(c, n, q) ==
  /\ adding = None /\ adding' = c
  /\ asked[c] = <<>> /\ Ask(c, q)
  /\ steps' = [steps EXCEPT ![c] = n]
  /\ UNCHANGED <<callbacks, torn, round, kept, current, dropped, called, finished>>

EndAdd ==
  /\ adding # None /\ adding' = None
  /\ \/ callbacks' = Append(callbacks, adding)
     \/ adding \in torn /\ UNCHANGED callbacks
  /\ UNCHANGED <<answer, future, steps, torn, round, kept, current, dropped, asked,
                 called, finished>>

(* set_next_query by the callback that is running; its contract, which
   invoke_if_ready asserts afterwards: another callback must follow. *)
SetNextQuery(q) ==
  /\ current # None /\ future[current] = None /\ steps[current] > 1
  /\ Ask(current, q)
  /\ UNCHANGED <<steps, callbacks, round, kept, current, dropped, called,
                 finished, others>>
-----------------------------------------------------------------------------
InRound == round # <<>> \/ kept # <<>> \/ current # None

NothingToProcess ==
  /\ ~InRound /\ callbacks = <<>> /\ Touches
  /\ UNCHANGED <<answer, future, steps, callbacks, round, kept, current, dropped, asked,
                 called, finished>>

ProcessReadyQueries ==
  /\ ~InRound /\ callbacks # <<>>
  /\ round' = callbacks /\ callbacks' = <<>> /\ Touches
  /\ UNCHANGED <<answer, future, steps, kept, current, dropped, asked, called,
                 finished>>

Ready(c) == future[c] # None /\ answer[future[c]] = "ready"

(* Defect for NotReady: a chain that is not ready is erased too. *)
NotReadyErased ==
  /\ round # <<>> /\ current = None
  /\ future[Head(round)] = None \/ answer[future[Head(round)]] = "pending"
  /\ round' = Tail(round)
  /\ UNCHANGED <<answer, future, steps, callbacks, kept, current, dropped, asked,
                 called, finished, others>>

(* invoke_if_ready: not_ready; remove_if keeps the chain. *)
NotReady ==
  /\ round # <<>> /\ current = None
  /\ LET c == Head(round)
     IN  /\ future[c] = None \/ answer[future[c]] = "pending"
         /\ kept' = Append(kept, c)
  /\ round' = Tail(round)
  /\ UNCHANGED <<answer, future, steps, callbacks, current, dropped, asked,
                 called, finished, others>>

(* Defect for Invoke: the callback is called with the future left in place. *)
InvokeFutureKept ==
  /\ round # <<>> /\ current = None /\ Ready(Head(round))
  /\ LET c == Head(round)
     IN  /\ current' = c
         /\ called' = [called EXCEPT ![c] = Append(@, future[c])]
  /\ round' = Tail(round)
  /\ UNCHANGED <<answer, future, steps, callbacks, kept, dropped, asked, finished, others>>

(* invoke_if_ready: the future is moved out and the callback called with its
   result; the callback runs until Return. *)
Invoke ==
  /\ round # <<>> /\ current = None /\ Ready(Head(round))
  /\ LET c == Head(round)
     IN  /\ current' = c
         /\ called' = [called EXCEPT ![c] = Append(@, future[c])]
         /\ future' = [future EXCEPT ![c] = None]
  /\ round' = Tail(round)
  /\ UNCHANGED <<answer, steps, callbacks, kept, dropped, asked, finished, others>>

(* f.get() throws if the promise was broken, before the callback is called;
   the exception unwinds remove_if and destroys the local vector. *)
InvokeThrows ==
  /\ round # <<>> /\ current = None
  /\ future[Head(round)] # None /\ answer[future[Head(round)]] = "broken"
  /\ future' = [future EXCEPT ![Head(round)] = None]
  /\ round' = <<>> /\ kept' = <<>> /\ dropped' = TRUE
  /\ UNCHANGED <<answer, steps, callbacks, current, asked, called, finished, others>>

(* check_state_and_return_completion: completed if no callback is left or the
   callback has set no next query, else next_step: the chain stays. *)
Return ==
  /\ current # None
  /\ steps' = [steps EXCEPT ![current] = @ - 1]
  /\ IF steps[current] = 1 \/ future[current] = None
     THEN finished' = finished \cup {current} /\ UNCHANGED kept
     ELSE kept' = Append(kept, current) /\ UNCHANGED finished
  /\ current' = None
  /\ UNCHANGED <<answer, future, callbacks, round, dropped, asked, called, others>>

(* Defect for EndRound: the chains that stay are assigned, not inserted. *)
EndRoundAssigned ==
  /\ round = <<>> /\ current = None
  /\ callbacks' = kept /\ kept' = <<>> /\ Touches
  /\ UNCHANGED <<answer, future, steps, round, current, dropped, asked, called,
                 finished>>

(* The chains that stay are inserted behind those that callbacks added. *)
EndRound ==
  /\ round = <<>> /\ current = None
  /\ callbacks' = callbacks \o kept /\ kept' = <<>> /\ Touches
  /\ UNCHANGED <<answer, future, steps, round, current, dropped, asked, called,
                 finished>>

(* The destructor: the chains that wait are never called. *)
DestroyProcessor ==
  /\ callbacks' = <<>> /\ dropped' = TRUE
  /\ UNCHANGED <<answer, future, steps, round, kept, current, asked, called,
                 finished, others>>
-----------------------------------------------------------------------------
(* query_callback.cpp:187-190, 218-219: each callback of a chain is called with
   the result of the chain's own next query, in the order in which the queries
   were given to it, and no result is delivered twice: what was asked is what
   was delivered and the query whose future is still held. *)
ResultsInOrder ==
  ~dropped =>
    \A c \in Chains :
      asked[c] = IF future[c] = None THEN called[c] ELSE Append(called[c], future[c])

(* query_callback_processor.cpp:19-26: while chains are moved between the
   processor's vector and the round's, and another thread adds some, a chain
   that has not finished is held in one place once, and one that has finished
   nowhere.  The one exception is a chain whose add_query was torn (and nothing
   is said of a program whose vector such a call has corrupted). *)
NoneForgotten ==
  ~dropped =>
    LET running == {current} \ {None}
        elsewhere == {adding} \ {None}
        waiting == {c \in Chains : asked[c] # <<>>} \ finished
    IN  /\ IsInjective(callbacks) /\ IsInjective(round) /\ IsInjective(kept)
        /\ ToSet(callbacks) \cap (ToSet(round) \cup ToSet(kept) \cup running \cup elsewhere) = {}
        /\ ToSet(round) \cap (ToSet(kept) \cup running \cup elsewhere) = {}
        /\ ToSet(kept) \cap (running \cup elsewhere) = {} /\ running \cap elsewhere = {}
        /\ LET held == ToSet(callbacks) \cup ToSet(round) \cup ToSet(kept) \cup running
                          \cup elsewhere
           IN  held \subseteq waiting /\ waiting \ torn \subseteq held
=============================================================================
