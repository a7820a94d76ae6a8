----------------------------- MODULE MpscQueue ------------------------------
(* common/threading/mpsc_queue.h: a linked list whose last node head_ is     *)
(* exchanged by any thread and whose first node tail_ belongs to the one     *)
(* consumer.  A node is named by the packet it carries (each packet is       *)
(* queued once); Dummy is the node made by the constructor.                  *)
EXTENDS Sequences, Naturals

CONSTANTS Producers, Packets, Dummy, Null

ASSUME QueueAssumption == Dummy \notin Packets /\ Null \notin Packets \cup {Dummy}

VARIABLES
  head, tail,  \* head_ (the newest node) and tail_ (the consumer's node)
  next,        \* next[n]: the successor stored in node n
  live,        \* nodes allocated and not deleted
  mine,        \* mine[p]: the node that producer p is putting in, or Null
  prev,        \* prev[p]: prev_head, once p has exchanged head_
  order,       \* history: packets in the order of the exchanges
  taken        \* history: packets in the order of the dequeues

queueVars == <<head, tail, next, live, mine, prev, order, taken>>

Nodes == Packets \cup {Dummy}

QueueTypeOK ==
  /\ head \in Nodes /\ tail \in Nodes /\ live \subseteq Nodes
  /\ next \in [Nodes -> Nodes \cup {Null}]
  /\ mine \in [Producers -> Packets \cup {Null}]
  /\ prev \in [Producers -> Nodes \cup {Null}]
  /\ order \in Seq(Packets) /\ taken \in Seq(Packets)

QueueInit ==
  /\ head = Dummy /\ tail = Dummy /\ live = {Dummy}
  /\ next = [n \in Nodes |-> Null]
  /\ mine = [p \in Producers |-> Null] /\ prev = [p \in Producers |-> Null]
  /\ order = <<>> /\ taken = <<>>

Fresh(e) == /\ \A i \in 1..Len(order) : order[i] # e
            /\ \A p \in Producers : mine[p] # e
-----------------------------------------------------------------------------
Exists == head \in live

(* enqueue, in the three steps that other threads can tell apart; nobody calls
   it, or goes on with it, once the queue is destroyed. *)
Allocate(p, e) ==
  /\ Exists /\ mine[p] = Null /\ Fresh(e)
  /\ mine' = [mine EXCEPT ![p] = e]
  /\ live' = live \cup {e}
  /\ next' = [next EXCEPT ![e] = Null]
  /\ UNCHANGED <<head, tail, prev, order, taken>>

(* Defect for Exchange: a load and a store instead of the exchange, so that
   the store may follow another producer's. *)
ExchangeTorn(p) ==
  /\ mine[p] # Null /\ prev[p] = Null
  /\ head' = mine[p]
  /\ \E seen \in {head} \cup ({prev[q] : q \in Producers} \ {Null}) :
       prev' = [prev EXCEPT ![p] = seen]
  /\ order' = Append(order, mine[p])
  /\ UNCHANGED <<tail, next, live, mine, taken>>

Exchange(p) ==
  /\ mine[p] # Null /\ prev[p] = Null
  /\ head' = mine[p]
  /\ prev' = [prev EXCEPT ![p] = head]
  /\ order' = Append(order, mine[p])
  /\ UNCHANGED <<tail, next, live, mine, taken>>

(* Defect for Link: the links of the two nodes are swapped. *)
LinkSwapped(p) ==
  /\ prev[p] # Null
  /\ next' = [next EXCEPT ![mine[p]] = prev[p]]
  /\ mine' = [mine EXCEPT ![p] = Null]
  /\ prev' = [prev EXCEPT ![p] = Null]
  /\ UNCHANGED <<head, tail, live, order, taken>>

Link(p) ==
  /\ prev[p] # Null
  /\ next' = [next EXCEPT ![prev[p]] = mine[p]]
  /\ mine' = [mine EXCEPT ![p] = Null]
  /\ prev' = [prev EXCEPT ![p] = Null]
  /\ UNCHANGED <<head, tail, live, order, taken>>

(* dequeue: false unless the consumer's node has a successor. *)
Visible == next[tail] # Null

(* Defect for Dequeue: the data of the old tail are returned. *)
DequeueOldData ==
  /\ Visible
  /\ taken' = Append(taken, tail)
  /\ tail' = next[tail]
  /\ live' = live \ {tail}
  /\ UNCHANGED <<head, next, mine, prev, order>>

Dequeue ==
  /\ Visible
  /\ taken' = Append(taken, next[tail])
  /\ tail' = next[tail]
  /\ live' = live \ {tail}
  /\ UNCHANGED <<head, next, mine, prev, order>>

(* The destructor, when it has dequeued what is left: delete front. *)
DeleteFront ==
  /\ Exists /\ ~Visible /\ \A p \in Producers : mine[p] = Null
  /\ live' = live \ {head}
  /\ UNCHANGED <<head, tail, next, mine, prev, order, taken>>

QueueNext == \/ \E p \in Producers, e \in Packets : Allocate(p, e)
             \/ \E p \in Producers : Exchange(p) \/ Link(p)
             \/ Dequeue \/ DeleteFront

QueueSpec == QueueInit /\ [][QueueNext]_queueVars
-----------------------------------------------------------------------------
(* mpsc_queue.h:34-35: the node into which a producer stores its successor
   has not been deleted by the consumer, however long the producer waits
   between its two steps, and nobody else stores into it. *)
StoresAreSafe ==
  \A p \in Producers : prev[p] # Null =>
    /\ prev[p] \in live /\ next[prev[p]] = Null
    /\ \A q \in Producers \ {p} : prev[q] # prev[p]

(* mpsc_queue.h:42: dequeue() returns false only if everything was taken, or
   while the very next packet is between the two steps of its producer. *)
EmptyIsTrue ==
  ~Visible => \/ order = taken
              \/ \E p \in Producers : /\ prev[p] = tail
                                      /\ mine[p] = order[Len(taken) + 1]

(* mpsc_queue.h:21-29, 47: every node is deleted once, the last by the
   destructor, and none is left. *)
NodesFreed == ~Exists => live = {}

MemorySafe == StoresAreSafe /\ NodesFreed

(* The queue behaves as a FIFO queue into which a packet is put at the moment
   its producer exchanges head_: nothing is lost, repeated or overtaken. *)
Abstract == INSTANCE Fifo WITH Item <- Packets, put <- order, got <- taken

ImplementsFifo == Abstract!Spec
=============================================================================
