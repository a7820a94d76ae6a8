---------------------------- MODULE WorldSocket -----------------------------
(* server/game/server/world_socket.cpp and server/shared/networking: packets *)
(* that any thread sends to a client wait in the socket's mpsc_queue until   *)
(* the network thread, in update(), batches them into buffers for the base   *)
(* socket and then polls the query callbacks, which send packets, ask new    *)
(* queries and close the socket.  Its handlers do so too, but in the thread  *)
(* of the event loop that the socket's channel belongs to (Io), while the    *)
(* network thread (Net), the queue's only consumer, is anywhere in update(). *)
EXTENDS MpscQueue, QueryCallbacks

CONSTANTS Net, Io

ASSUME NetAssumption == Net \in Producers /\ Io \in Producers \ {Net}

VARIABLES
  pc,             \* where the socket is: what start(), then the network thread does
  closed,         \* tcp_socket::closed_
  closing,        \* tcp_socket::closing_
  batch,          \* update(): packets in the local message_buffer
  write_queue     \* tcp_socket::write_queue_: the buffers queued so far

socketVars == <<pc, closed, closing, batch, write_queue>>

vars == <<queueVars, chainVars, socketVars>>

TypeOK ==
  /\ QueueTypeOK /\ ChainsTypeOK
  /\ pc \in {"starting", "new", "outside", "drain", "base", "queries", "round", "removed",
             "destructor", "destroyed", "terminated", "undefined"}
  /\ closed \in BOOLEAN /\ closing \in BOOLEAN
  /\ batch \in Seq(Packets) /\ write_queue \in Seq(Seq(Packets))

Init == /\ QueueInit /\ ChainsInit
        /\ pc = "starting" /\ closed = FALSE /\ closing = FALSE
        /\ batch = <<>> /\ write_queue = <<>>

is_open == ~closed /\ ~closing
-----------------------------------------------------------------------------
(* The names of a chain and of a query matter to nobody. *)
NewChain == CHOOSE c \in Chains : asked[c] = <<>>
Unasked == CHOOSE q \in Queries : answer[q] = "unused"
CanAsk == \E q \in Queries : answer[q] = "unused"
CanAdd == CanAsk /\ \E c \in Chains : asked[c] = <<>>

(* start(), called by the thread that accepted the connection, asks whether the
   address is banned; then the socket is handed to the network thread. *)
Start == /\ pc = "starting" /\ pc' = "new"
         /\ CanAdd /\ AddQuery(NewChain, 1, Unasked)
         /\ UNCHANGED <<queueVars, closed, closing, batch, write_queue>>

Held == pc \notin {"destructor", "destroyed", "terminated", "undefined"}

(* The handlers are installed by the first callback, and nobody else knows the
   socket before. *)
Installed == \E c \in Chains : called[c] # <<>>

(* send_packet, by a thread that holds a reference to the socket. *)
Sends(p) == /\ is_open /\ Held /\ Installed
            /\ \E e \in Packets : Fresh(e)
            /\ Allocate(p, CHOOSE e \in Packets : Fresh(e))

Enqueues(p) == Held /\ (Exchange(p) \/ Link(p))

ForeignSends(p) == /\ p # Net
                   /\ ((p = Io => adding = None) /\ Sends(p)) \/ Enqueues(p)
                   /\ UNCHANGED <<chainVars, socketVars>>

(* The network thread is in a callback; the io thread may begin a handler. *)
NetFree == mine[Net] = Null
InCallback == pc = "round" /\ current # None /\ NetFree
IoFree == Held /\ ~closed /\ mine[Io] = Null /\ adding = None
InHandler == IoFree /\ Installed

NetSends == /\ (InCallback /\ Sends(Net)) \/ Enqueues(Net)
            /\ UNCHANGED <<chainVars, socketVars>>

NetAsks == /\ InCallback
           /\ \/ CanAsk /\ SetNextQuery(Unasked)
              \/ CanAdd /\ \E n \in 1..MaxSteps : AddQuery(NewChain, n, Unasked)
           /\ UNCHANGED <<queueVars, socketVars>>

(* handle_auth_session and its like: add_query in the io thread. *)
IoAsks == /\ InHandler /\ CanAdd /\ BeginAdd(NewChain, 1, Unasked)
          /\ UNCHANGED <<queueVars, socketVars>>

IoAdded == /\ Held /\ EndAdd
           /\ UNCHANGED <<queueVars, socketVars>>

(* A torn add_query may as well leave the vector, and so the program, in any
   state whatever. *)
IoCorrupts == /\ Held /\ adding \in torn
              /\ pc' = "undefined"
              /\ UNCHANGED <<queueVars, chainVars, closed, closing, batch, write_queue>>

delayed_close_socket == /\ InHandler \/ InCallback
                        /\ ~closing /\ closing' = TRUE
                        /\ UNCHANGED <<queueVars, chainVars, pc, closed, batch, write_queue>>

(* By a handler, or by the channel's close callback, in the io thread. *)
close_socket == /\ IoFree
                /\ closed' = TRUE
                /\ UNCHANGED <<queueVars, chainVars, pc, closing, batch, write_queue>>

(* The pool's workers answer while anything else goes on. *)
Answers == /\ pc \notin {"terminated", "undefined"}
           /\ \E q \in Queries, how \in {"ready", "broken"} : Settle(q, how)
           /\ UNCHANGED <<queueVars, socketVars>>
-----------------------------------------------------------------------------
(* network_thread: a new socket that is still open is updated from now on.
   After stop(), update() does nothing and run() ends and forgets the sockets. *)
AddNewSocket == /\ pc = "new"
                /\ pc' = IF is_open THEN "outside" ELSE "removed"
                /\ UNCHANGED <<queueVars, chainVars, closed, closing, batch, write_queue>>

RunEnds == /\ pc \in {"new", "outside"} /\ pc' = "removed"
           /\ UNCHANGED <<queueVars, chainVars, closed, closing, batch, write_queue>>

(* update() *)
BeginUpdate == /\ pc = "outside"
               /\ pc' = "drain"
               /\ UNCHANGED <<queueVars, chainVars, closed, closing, batch, write_queue>>

QueuePacket(buffers) == write_queue' = write_queue \o buffers

(* Where a dequeued packet is written depends on the space left in the buffer:
   behind the others; into the buffer emptied by queueing it, which queues an
   empty one if the packet alone is too large; or into a buffer of its own. *)
Fits(e) == batch' = Append(batch, e) /\ UNCHANGED write_queue
FlushThenFits(e) == batch # <<>> /\ batch' = <<e>> /\ QueuePacket(<<batch>>)

(* Defect for FlushThenOwn: the large packet goes ahead of the batch. *)
OwnFirst(e) == UNCHANGED batch /\ QueuePacket(<<<<e>>>>)

FlushThenOwn(e) == batch' = <<>> /\ QueuePacket(<<batch, <<e>>>>)

Drain == /\ pc = "drain" /\ Dequeue
         /\ LET e == next[tail] IN Fits(e) \/ FlushThenFits(e) \/ FlushThenOwn(e)
         /\ UNCHANGED <<chainVars, pc, closed, closing>>

(* Defect for EndDrain: the last buffer is not queued. *)
EndDrainUnflushed ==
  /\ pc = "drain" /\ ~Visible
  /\ pc' = "base" /\ batch' = <<>>
  /\ UNCHANGED <<queueVars, chainVars, closed, closing, write_queue>>

EndDrain ==
  /\ pc = "drain" /\ ~Visible
  /\ pc' = "base" /\ batch' = <<>>
  /\ QueuePacket(IF batch = <<>> THEN <<>> ELSE <<batch>>)
  /\ UNCHANGED <<queueVars, chainVars, closed, closing>>

(* tcp_socket::update() is declared but not in the source: it says whether the
   socket goes on, which a closed one does not.  If not, network_thread closes
   an open socket and forgets it. *)
BaseUpdate(ok) ==
  /\ pc = "base" /\ (closed => ~ok)
  /\ pc' = IF ok THEN "queries" ELSE "removed"
  /\ closed' = (closed \/ (~ok /\ is_open))
  /\ UNCHANGED <<queueVars, chainVars, closing, batch, write_queue>>

Poll == /\ pc = "queries"
        /\ \/ NothingToProcess /\ pc' = "outside"
           \/ ProcessReadyQueries /\ pc' = "round"
        /\ UNCHANGED <<queueVars, closed, closing, batch, write_queue>>

(* An exception that leaves update() meets no handler in the network thread. *)
Visit == /\ pc = "round" /\ NetFree
         /\ \/ (NotReady \/ Invoke \/ Return) /\ UNCHANGED pc
            \/ InvokeThrows /\ pc' = "terminated"
         /\ UNCHANGED <<queueVars, closed, closing, batch, write_queue>>

EndUpdate == /\ pc = "round" /\ EndRound
             /\ pc' = "outside"
             /\ UNCHANGED <<queueVars, closed, closing, batch, write_queue>>

(* The last reference goes when no other thread is in send_packet: the
   destructors drop the chains and take the packets that are left, without
   deleting them.  The io thread's handlers hold no reference, and a socket that
   nobody closed still has its channel in the loop. *)
Destroy == /\ pc = "removed" /\ \A p \in Producers \ {Io} : mine[p] = Null
           /\ IF closed /\ mine[Io] = Null /\ adding = None
              THEN pc' = "destructor" /\ DestroyProcessor
              ELSE pc' = "undefined" /\ UNCHANGED chainVars
           /\ UNCHANGED <<queueVars, closed, closing, batch, write_queue>>

DestroyQueue == /\ pc = "destructor"
                /\ \/ Dequeue /\ UNCHANGED pc
                   \/ DeleteFront /\ pc' = "destroyed"
                /\ UNCHANGED <<chainVars, closed, closing, batch, write_queue>>
-----------------------------------------------------------------------------
NetStep == \/ AddNewSocket \/ Drain \/ EndDrain \/ Poll \/ Visit \/ EndUpdate
           \/ \E ok \in BOOLEAN : BaseUpdate(ok)

Next == \/ Start \/ \E p \in Producers : ForeignSends(p)
        \/ NetSends \/ NetStep \/ NetAsks \/ IoAsks \/ IoAdded \/ IoCorrupts
        \/ delayed_close_socket \/ close_socket \/ Answers
        \/ BeginUpdate \/ RunEnds \/ Destroy \/ DestroyQueue

Spec == Init /\ [][Next]_vars

(* Threads go on with what they have begun, and the network thread updates its
   sockets for ever, or until run() ends.  Nothing makes anybody send, ask, answer or close. *)
FairSpec ==
  /\ Spec
  /\ WF_vars(NetStep) /\ WF_vars(BeginUpdate) /\ WF_vars(IoAdded)
  /\ \A p \in Producers : WF_vars(Enqueues(p) /\ UNCHANGED <<chainVars, socketVars>>)
-----------------------------------------------------------------------------
(* world_socket.cpp:210-235: what update() hands to the base socket is what
   was dequeued, in that order, whichever buffer a packet was written to. *)
WrittenInOrder ==
  LET written == FlattenSeq(write_queue) \o batch
  IN  /\ IsPrefix(written, taken)
      /\ pc \notin {"destructor", "destroyed"} => written = taken

Gone == pc \in {"removed", "destructor", "destroyed", "terminated", "undefined"}

(* A packet that has entered the queue reaches the base socket although its
   producer, or an earlier one, may stop between its two steps. *)
SentIsWritten ==
  \A e \in Packets :
    (e \in ToSet(order)) ~> (e \in ToSet(FlattenSeq(write_queue)) \/ Gone)

(* query_callback_processor.cpp:19-26: the result of a query is delivered to
   its callback, however often its chain has moved between the processor's
   vector and a round's, unless the add_query of that chain was torn. *)
AnsweredIsCalled ==
  \A q \in Queries :
    (answer[q] = "ready") ~> \/ \E c \in Chains : q \in ToSet(called[c])
                             \/ \E c \in torn : q \in ToSet(asked[c])
                             \/ Gone
=============================================================================
