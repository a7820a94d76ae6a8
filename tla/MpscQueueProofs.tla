-------------------------- MODULE MpscQueueProofs ---------------------------
(* Proofs about MpscQueue, for any number of producers and packets.  The     *)
(* inductive invariant describes the list: node k carries the k-th packet    *)
(* exchanged, tail_ and head_ are the nodes of the last packet taken and of  *)
(* the last one exchanged, and every link between them is either stored or   *)
(* still to be stored by the producer of the node it leads to.               *)
EXTENDS MpscQueue, TLAPS

N(k) == IF k = 0 THEN Dummy ELSE order[k]

Distinct == \A i, j \in 1..Len(order) : order[i] = order[j] => i = j

Taken == /\ Len(taken) \in 0..Len(order)
         /\ \A i \in 1..Len(taken) : taken[i] = order[i]

Ends == tail = N(Len(taken)) /\ head = N(Len(order)) /\ next[head] = Null

Alive == /\ Exists => \A k \in Len(taken)..Len(order) : N(k) \in live
         /\ ~Exists => live = {} /\ \A p \in Producers : mine[p] = Null

OnlyUsed == \A n \in live : \/ \E k \in Len(taken)..Len(order) : n = N(k)
                            \/ \E p \in Producers : mine[p] = n /\ prev[p] = Null

OneEach == \A p, q \in Producers : mine[p] # Null /\ mine[p] = mine[q] => p = q

Allocated == \A p \in Producers : mine[p] # Null /\ prev[p] = Null =>
               /\ \A i \in 1..Len(order) : order[i] # mine[p]
               /\ mine[p] \in live /\ next[mine[p]] = Null

Pending == \A p \in Producers : prev[p] # Null =>
             /\ next[prev[p]] = Null
             /\ \E k \in Len(taken)..Len(order) - 1 :
                  prev[p] = N(k) /\ mine[p] = order[k + 1]

Links == \A k \in Len(taken)..Len(order) - 1 :
           next[N(k)] = order[k + 1] \/ \E p \in Producers : prev[p] = N(k)

Inv == /\ QueueTypeOK /\ Distinct /\ Taken /\ Ends /\ Alive /\ OnlyUsed /\ OneEach
       /\ Allocated /\ Pending /\ Links
-----------------------------------------------------------------------------
LEMMA NodesDiffer ==
  ASSUME QueueTypeOK, Distinct, NEW i \in 0..Len(order), NEW j \in 0..Len(order),
         N(i) = N(j)
  PROVE  i = j
  BY QueueAssumption DEF QueueTypeOK, Distinct, N, Nodes

LEMMA NodeIsNode ==
  ASSUME QueueTypeOK, NEW k \in 0..Len(order)
  PROVE  N(k) \in Nodes
  BY DEF QueueTypeOK, N, Nodes

(* Two producers never wait to store into the same node. *)
LEMMA PrevDiffer ==
  ASSUME Inv, NEW p \in Producers, NEW q \in Producers, prev[p] # Null,
         prev[p] = prev[q]
  PROVE  p = q
  <1>1. PICK i \in Len(taken)..Len(order) - 1 : prev[p] = N(i) /\ mine[p] = order[i + 1]
    BY DEF Inv, Pending
  <1>2. PICK j \in Len(taken)..Len(order) - 1 : prev[q] = N(j) /\ mine[q] = order[j + 1]
    BY DEF Inv, Pending
  <1>3. i \in 0..Len(order) /\ j \in 0..Len(order) /\ i + 1 \in 1..Len(order)
    BY DEF Inv, Taken, QueueTypeOK
  <1>4. i = j
    BY <1>1, <1>2, <1>3, NodesDiffer DEF Inv
  <1>5. mine[p] # Null
    BY <1>1, <1>3, QueueAssumption DEF Inv, QueueTypeOK
  <1> QED
    BY <1>1, <1>2, <1>4, <1>5 DEF Inv, OneEach

(* What dequeue() returns is the next packet in the order of the exchanges. *)
LEMMA NextInOrder ==
  ASSUME Inv, Visible
  PROVE  /\ Len(taken) < Len(order)
         /\ next[tail] = order[Len(taken) + 1]
  <1>1. Len(taken) < Len(order)
    BY DEF Inv, Ends, Visible, Taken, QueueTypeOK
  <1>2. Len(taken) \in Len(taken)..Len(order) - 1
    BY <1>1 DEF Inv, QueueTypeOK
  <1>3. \A p \in Producers : prev[p] # tail
    BY QueueAssumption DEF Inv, Pending, Visible, QueueTypeOK, Nodes
  <1> QED
    BY <1>1, <1>2, <1>3 DEF Inv, Links, Ends

LEMMA Starts == QueueInit => Inv
  BY QueueAssumption DEF QueueInit, Inv, QueueTypeOK, Distinct, Taken, Ends, Alive, Exists, OnlyUsed,
     OneEach, Allocated, Pending, Links, N, Nodes
-----------------------------------------------------------------------------
LEMMA AllocateKeeps ==
  ASSUME Inv, NEW p \in Producers, NEW e \in Packets, Allocate(p, e)
  PROVE  Inv'
  <1> USE DEF Allocate
  <1>1. e # Null /\ e # Dummy /\ e \in Nodes /\ prev[p] = Null
    <2>1. e # Null /\ e # Dummy /\ e \in Nodes
      BY QueueAssumption DEF Nodes
    <2>2. ASSUME prev[p] # Null PROVE FALSE
      <3>1. PICK k \in Len(taken)..Len(order) - 1 : mine[p] = order[k + 1]
        BY <2>2 DEF Inv, Pending
      <3>2. k + 1 \in 1..Len(order)
        BY DEF Inv, Taken, QueueTypeOK
      <3> QED
        BY <3>1, <3>2, QueueAssumption DEF Inv, QueueTypeOK
    <2> QED BY <2>1, <2>2
  <1>2. \A k \in 0..Len(order) : N(k) # e /\ N(k)' = N(k)
    BY <1>1 DEF N, Fresh, Inv, QueueTypeOK
  <1>3. QueueTypeOK'
    BY <1>1 DEF Inv, QueueTypeOK, Nodes
  <1>4. Distinct' /\ Taken'
    BY DEF Inv, Distinct, Taken
  <1>5. Len(taken) \in 0..Len(order) /\ Len(order) \in Nat
    BY DEF Inv, Taken, QueueTypeOK
  <1>6. Ends'
    <2>1. head # e
      BY <1>2, <1>5 DEF Inv, Ends
    <2> QED
      BY <1>2, <1>5, <2>1 DEF Inv, Ends, QueueTypeOK
  <1>7. Alive'
    BY <1>2, <1>5 DEF Inv, Alive, Exists
  <1>7a. OnlyUsed'
    <2> SUFFICES ASSUME NEW n \in live \cup {e}
                 PROVE  \/ \E k \in Len(taken)..Len(order) : n = N(k)'
                        \/ \E q \in Producers : mine'[q] = n /\ prev[q] = Null
      BY DEF OnlyUsed
    <2>1. CASE n = e
      BY <2>1, <1>1 DEF Inv, QueueTypeOK
    <2>2. CASE n # e
      <3>1. CASE \E k \in Len(taken)..Len(order) : n = N(k)
        BY <3>1, <1>2, <1>5
      <3>2. ASSUME NEW q \in Producers, mine[q] = n, prev[q] = Null
            PROVE  \E r \in Producers : mine'[r] = n /\ prev[r] = Null
        <4>1. n # Null
          BY QueueAssumption, <2>2 DEF Inv, QueueTypeOK, Nodes
        <4>2. q # p
          BY <3>2, <4>1
        <4> QED BY <3>2, <4>2 DEF Inv, QueueTypeOK
      <3> QED BY <2>2, <3>1, <3>2 DEF Inv, OnlyUsed
    <2> QED BY <2>1, <2>2
  <1>8. OneEach'
    BY <1>1 DEF Inv, OneEach, Fresh, QueueTypeOK
  <1>9. Allocated'
    BY <1>1 DEF Inv, Allocated, Fresh, QueueTypeOK, Nodes
  <1>10. Pending'
    <2> SUFFICES ASSUME NEW q \in Producers, prev[q] # Null
                 PROVE  /\ next'[prev[q]] = Null
                        /\ \E k \in Len(taken)..Len(order) - 1 :
                             prev[q] = N(k)' /\ mine'[q] = order[k + 1]
      BY DEF Pending
    <2>1. PICK k \in Len(taken)..Len(order) - 1 : prev[q] = N(k) /\ mine[q] = order[k + 1]
      BY DEF Inv, Pending
    <2>2. q # p /\ k \in 0..Len(order)
      BY <1>1, <1>5
    <2>3. prev[q] # e /\ N(k)' = N(k)
      BY <2>1, <2>2, <1>2
    <2>4. next'[prev[q]] = Null
      BY <2>3 DEF Inv, Pending, QueueTypeOK
    <2> QED BY <2>1, <2>2, <2>3, <2>4 DEF Inv, QueueTypeOK
  <1>11. Links'
    <2> SUFFICES ASSUME NEW k \in Len(taken)..Len(order) - 1
                 PROVE  next'[N(k)'] = order[k + 1] \/ \E q \in Producers : prev[q] = N(k)'
      BY DEF Links
    <2>1. k \in 0..Len(order)
      BY <1>5
    <2> QED
      BY <2>1, <1>2, NodeIsNode DEF Inv, Links, QueueTypeOK
  <1> QED
    BY <1>3, <1>4, <1>6, <1>7, <1>7a, <1>8, <1>9, <1>10, <1>11 DEF Inv

LEMMA ExchangeKeeps ==
  ASSUME Inv, NEW p \in Producers, Exchange(p)
  PROVE  Inv'
  <1> USE DEF Exchange
  <1> DEFINE n == Len(order)
  <1>1. /\ mine[p] \in Packets /\ \A i \in 1..n : order[i] # mine[p]
        /\ mine[p] \in live /\ next[mine[p]] = Null /\ mine[p] # Null
    BY DEF Inv, Allocated, QueueTypeOK
  <1>2. /\ n \in Nat /\ Len(taken) \in 0..n /\ Len(order') = n + 1
        /\ order' \in Seq(Packets) /\ order'[n + 1] = mine[p]
        /\ \A i \in 1..n : order'[i] = order[i]
    BY <1>1 DEF Inv, Taken, QueueTypeOK
  <1>3. \A k \in 0..n : N(k)' = N(k)
    <2> SUFFICES ASSUME NEW k \in 0..n PROVE N(k)' = N(k)
      OBVIOUS
    <2>1. k # 0 => order'[k] = order[k]
      BY <1>2
    <2> QED BY <2>1 DEF N
  <1>3a. N(Len(order))' = mine[p]
    <2>1. Len(order') # 0 /\ order'[Len(order')] = mine[p]
      BY <1>2
    <2> QED BY <2>1 DEF N
  <1>4. QueueTypeOK'
    BY <1>1, <1>2 DEF Inv, QueueTypeOK, Nodes
  <1>5. Distinct'
    BY <1>1, <1>2 DEF Inv, Distinct
  <1>6. Taken'
    BY <1>2 DEF Inv, Taken
  <1>7. Ends'
    BY <1>1, <1>2, <1>3, <1>3a DEF Inv, Ends
  <1>8. Alive'
    <2> SUFFICES ASSUME NEW k \in Len(taken)..Len(order')
                 PROVE  N(k)' \in live
      BY <1>1 DEF Alive, Exists
    <2> head \in live
      BY <1>1 DEF Inv, Alive, Exists
    <2>1. CASE k = Len(order')
      BY <2>1, <1>1, <1>3a
    <2>2. CASE k # Len(order')
      <3>1. k \in Len(taken)..n /\ k \in 0..n
        BY <2>2, <1>2
      <3> QED BY <3>1, <1>3 DEF Inv, Alive, Exists
    <2> QED BY <2>1, <2>2
  <1>8a. OnlyUsed'
    <2> SUFFICES ASSUME NEW m \in live
                 PROVE  \/ \E k \in Len(taken)..Len(order') : m = N(k)'
                        \/ \E q \in Producers : mine[q] = m /\ prev'[q] = Null
      BY DEF OnlyUsed
    <2>1. CASE m = mine[p]
      <3>1. Len(order') \in Len(taken)..Len(order')
        BY <1>2
      <3> QED BY <2>1, <3>1, <1>3a
    <2>2. ASSUME NEW k \in Len(taken)..Len(order), m = N(k)
          PROVE  \E j \in Len(taken)..Len(order') : m = N(j)'
      <3>1. k \in Len(taken)..Len(order') /\ k \in 0..n
        BY <1>2
      <3> QED BY <2>2, <3>1, <1>3
    <2>3. ASSUME NEW q \in Producers, mine[q] = m, prev[q] = Null, m # mine[p]
          PROVE  prev'[q] = Null
      BY <2>3 DEF Inv, QueueTypeOK
    <2> QED BY <2>1, <2>2, <2>3 DEF Inv, OnlyUsed
  <1>9. OneEach'
    BY DEF Inv, OneEach
  <1>10. head # Null /\ head = N(n) /\ next[head] = Null
    BY QueueAssumption DEF Inv, QueueTypeOK, Ends, Nodes
  <1>11. Allocated'
    <2> SUFFICES ASSUME NEW q \in Producers, mine[q] # Null, prev'[q] = Null
                 PROVE  /\ \A i \in 1..Len(order') : order'[i] # mine[q]
                        /\ mine[q] \in live /\ next[mine[q]] = Null
      BY DEF Allocated
    <2>1. q # p /\ prev[q] = Null
      BY <1>10 DEF Inv, QueueTypeOK
    <2>2. mine[q] # mine[p]
      BY <2>1 DEF Inv, OneEach
    <2>3. /\ \A i \in 1..n : order[i] # mine[q]
          /\ mine[q] \in live /\ next[mine[q]] = Null
      BY <2>1 DEF Inv, Allocated
    <2> QED BY <2>2, <2>3, <1>2
  <1>12. Pending'
    <2> SUFFICES ASSUME NEW q \in Producers, prev'[q] # Null
                 PROVE  /\ next[prev'[q]] = Null
                        /\ \E k \in Len(taken)..n : prev'[q] = N(k)' /\ mine[q] = order'[k + 1]
      BY <1>2 DEF Pending
    <2>1. CASE q = p
      BY <2>1, <1>2, <1>3, <1>10 DEF Inv, QueueTypeOK
    <2>2. CASE q # p
      <3>1. prev'[q] = prev[q]
        BY <2>2 DEF Inv, QueueTypeOK
      <3>2. PICK k \in Len(taken)..n - 1 : prev[q] = N(k) /\ mine[q] = order[k + 1]
        BY <3>1 DEF Inv, Pending
      <3>3. k \in Len(taken)..n /\ k \in 0..n /\ k + 1 \in 1..n
        BY <1>2
      <3>4. prev'[q] = N(k)' /\ mine[q] = order'[k + 1]
        BY <3>1, <3>2, <3>3, <1>2, <1>3
      <3>5. next[prev'[q]] = Null
        BY <3>1 DEF Inv, Pending
      <3> QED BY <3>3, <3>4, <3>5
    <2> QED BY <2>1, <2>2
  <1>13. Links'
    <2>0. Len(order') - 1 = n /\ UNCHANGED <<next, taken>>
      BY <1>2
    <2> SUFFICES ASSUME NEW k \in Len(taken)..n
                 PROVE  next[N(k)'] = order'[k + 1] \/ \E q \in Producers : prev'[q] = N(k)'
      BY <2>0 DEF Links
    <2>1. CASE k = n
      <3>1. prev'[p] = N(k)'
        BY <2>1, <1>2, <1>3, <1>10 DEF Inv, QueueTypeOK
      <3> QED BY <3>1
    <2>2. CASE k # n
      <3>1. k \in Len(taken)..n - 1 /\ k \in 0..n /\ k + 1 \in 1..n
        BY <2>2, <1>2
      <3>2. next[N(k)] = order[k + 1] \/ \E q \in Producers : prev[q] = N(k)
        BY <3>1 DEF Inv, Links
      <3>3. N(k)' = N(k) /\ order'[k + 1] = order[k + 1]
        BY <3>1, <1>2, <1>3
      <3>4. \A q \in Producers : prev[q] = N(k) => prev'[q] = N(k)
        <4>1. N(k) # Null
          BY <3>1, NodeIsNode, QueueAssumption DEF Inv, Nodes
        <4> QED BY <4>1 DEF Inv, QueueTypeOK
      <3> QED BY <3>2, <3>3, <3>4
    <2> QED BY <2>1, <2>2
  <1> QED
    BY <1>4, <1>5, <1>6, <1>7, <1>8, <1>8a, <1>9, <1>11, <1>12, <1>13 DEF Inv

LEMMA LinkKeeps ==
  ASSUME Inv, NEW p \in Producers, Link(p)
  PROVE  Inv'
  <1> USE DEF Link
  <1>1. PICK j \in Len(taken)..Len(order) - 1 : prev[p] = N(j) /\ mine[p] = order[j + 1]
    BY DEF Inv, Pending
  <1>2. /\ Len(taken) \in 0..Len(order) /\ Len(order) \in Nat
        /\ j \in 0..Len(order) /\ j + 1 \in 1..Len(order) /\ j # Len(order)
    BY DEF Inv, Taken, QueueTypeOK
  <1>3. mine[p] \in Packets /\ prev[p] \in Nodes
    BY <1>1, <1>2, NodeIsNode DEF Inv, QueueTypeOK
  <1>4. \A k \in 0..Len(order) : N(k)' = N(k)
    BY DEF N
  <1>5. \A k \in 0..Len(order) : k # j => N(k) # prev[p]
    BY <1>1, <1>2, NodesDiffer DEF Inv
  <1>6. QueueTypeOK'
    BY <1>3 DEF Inv, QueueTypeOK, Nodes
  <1>7. Distinct' /\ Taken'
    BY DEF Inv, Distinct, Taken
  <1>8. Ends'
    <2>1. head # prev[p]
      BY <1>2, <1>5 DEF Inv, Ends
    <2> QED
      BY <2>1, <1>2, <1>4 DEF Inv, Ends, QueueTypeOK
  <1>9. Alive'
    BY <1>2, <1>3, <1>4, QueueAssumption DEF Inv, Alive, Exists
  <1>9a. OnlyUsed'
    <2> SUFFICES ASSUME NEW m \in live
                 PROVE  \/ \E k \in Len(taken)..Len(order) : m = N(k)'
                        \/ \E q \in Producers : mine'[q] = m /\ prev'[q] = Null
      BY DEF OnlyUsed
    <2>1. ASSUME NEW k \in Len(taken)..Len(order), m = N(k)
          PROVE  m = N(k)'
      BY <2>1 DEF N
    <2>2. ASSUME NEW q \in Producers, mine[q] = m, prev[q] = Null
          PROVE  mine'[q] = m /\ prev'[q] = Null
      <3>1. q # p
        BY <2>2
      <3> QED BY <2>2, <3>1 DEF Inv, QueueTypeOK
    <2> QED BY <2>1, <2>2 DEF Inv, OnlyUsed
  <1>10. OneEach'
    BY DEF Inv, OneEach, QueueTypeOK
  <1>11. Allocated'
    <2> SUFFICES ASSUME NEW q \in Producers, mine'[q] # Null, prev'[q] = Null
                 PROVE  /\ \A i \in 1..Len(order) : order[i] # mine'[q]
                        /\ mine'[q] \in live /\ next'[mine'[q]] = Null
      BY DEF Allocated
    <2>1. q # p /\ mine'[q] = mine[q] /\ prev[q] = Null
      BY DEF Inv, QueueTypeOK
    <2>2. /\ \A i \in 1..Len(order) : order[i] # mine[q]
          /\ mine[q] \in live /\ next[mine[q]] = Null
      BY <2>1 DEF Inv, Allocated
    <2>3. mine[q] # prev[p]
      <3>1. mine[q] \in Packets
        BY <2>1 DEF Inv, QueueTypeOK
      <3> QED
        BY <1>1, <1>2, <2>2, <3>1, QueueAssumption DEF N
    <2> QED
      BY <2>1, <2>2, <2>3 DEF Inv, QueueTypeOK, Nodes
  <1>12. Pending'
    <2> SUFFICES ASSUME NEW q \in Producers, prev'[q] # Null
                 PROVE  /\ next'[prev'[q]] = Null
                        /\ \E k \in Len(taken)..Len(order) - 1 :
                             prev'[q] = N(k)' /\ mine'[q] = order[k + 1]
      BY DEF Pending
    <2>1. q # p /\ prev'[q] = prev[q] /\ mine'[q] = mine[q]
      BY DEF Inv, QueueTypeOK
    <2>2. prev[q] # prev[p]
      BY <2>1, PrevDiffer
    <2>3. PICK k \in Len(taken)..Len(order) - 1 : prev[q] = N(k) /\ mine[q] = order[k + 1]
      BY <2>1 DEF Inv, Pending
    <2>4. next'[prev[q]] = Null
      BY <2>1, <2>2 DEF Inv, Pending, QueueTypeOK
    <2>5. k \in 0..Len(order)
      BY <1>2
    <2> QED BY <2>1, <2>3, <2>4, <2>5, <1>4
  <1>13. Links'
    <2> SUFFICES ASSUME NEW k \in Len(taken)..Len(order) - 1
                 PROVE  next'[N(k)] = order[k + 1] \/ \E q \in Producers : prev'[q] = N(k)
      BY <1>2, <1>4 DEF Links
    <2>1. k \in 0..Len(order)
      BY <1>2
    <2>2. CASE k = j
      BY <2>2, <1>1, <1>3 DEF Inv, QueueTypeOK
    <2>3. CASE k # j
      <3>1. N(k) # prev[p]
        BY <2>1, <2>3, <1>5
      <3>2. next[N(k)] = order[k + 1] \/ \E q \in Producers : prev[q] = N(k)
        BY DEF Inv, Links
      <3>3. next'[N(k)] = next[N(k)]
        BY <3>1 DEF Inv, QueueTypeOK
      <3>4. \A q \in Producers : prev[q] = N(k) => prev'[q] = N(k)
        BY <3>1 DEF Inv, QueueTypeOK
      <3> QED BY <3>2, <3>3, <3>4
    <2> QED BY <2>2, <2>3
  <1> QED
    BY <1>6, <1>7, <1>8, <1>9, <1>9a, <1>10, <1>11, <1>12, <1>13 DEF Inv

LEMMA DequeueKeeps ==
  ASSUME Inv, Dequeue
  PROVE  Inv'
  <1> USE DEF Dequeue
  <1> DEFINE t == Len(taken)
  <1>1. t < Len(order) /\ next[tail] = order[t + 1]
    BY NextInOrder
  <1>2. /\ t \in Nat /\ Len(order) \in Nat /\ order[t + 1] \in Packets
        /\ taken' \in Seq(Packets) /\ Len(taken') = t + 1 /\ taken'[t + 1] = order[t + 1]
        /\ \A i \in 1..t : taken'[i] = taken[i]
    BY <1>1 DEF Inv, Taken, QueueTypeOK
  <1>3. \A k \in 0..Len(order) : N(k)' = N(k)
    BY DEF N
  <1>4. \A k \in t + 1..Len(order) : N(k) # tail
    BY <1>1, <1>2, NodesDiffer DEF Inv, Ends
  <1>5. QueueTypeOK'
    BY <1>1, <1>2 DEF Inv, QueueTypeOK, Nodes
  <1>6. Distinct' /\ OneEach'
    BY DEF Inv, Distinct, OneEach
  <1>7. Taken'
    BY <1>1, <1>2 DEF Inv, Taken
  <1>8. Ends'
    BY <1>1, <1>2 DEF Inv, Ends, N
  <1>9. Alive'
    <2>1. head # tail
      BY <1>1, <1>2, <1>4 DEF Inv, Ends
    <2> QED
      BY <2>1, <1>1, <1>2, <1>3, <1>4 DEF Inv, Alive, Exists
  <1>9a. OnlyUsed'
    <2> SUFFICES ASSUME NEW m \in live, m # tail
                 PROVE  \/ \E k \in t + 1..Len(order) : m = N(k)'
                        \/ \E q \in Producers : mine[q] = m /\ prev[q] = Null
      BY <1>2 DEF OnlyUsed
    <2>1. ASSUME NEW k \in t..Len(order), m = N(k)
          PROVE  k \in t + 1..Len(order) /\ m = N(k)'
      <3>1. k # t
        BY <2>1 DEF Inv, Ends
      <3> QED BY <2>1, <3>1, <1>2, <1>3
    <2> QED BY <2>1 DEF Inv, OnlyUsed
  <1>10. Allocated'
    <2> SUFFICES ASSUME NEW q \in Producers, mine[q] # Null, prev[q] = Null
                 PROVE  mine[q] # tail
      BY DEF Inv, Allocated
    <2>1. mine[q] \in Packets /\ \A i \in 1..Len(order) : order[i] # mine[q]
      BY DEF Inv, Allocated, QueueTypeOK
    <2> QED
      BY <2>1, <1>1, <1>2, QueueAssumption DEF Inv, Ends, N
  <1>11. Pending'
    <2> SUFFICES ASSUME NEW q \in Producers, prev[q] # Null
                 PROVE  /\ next[prev[q]] = Null
                        /\ \E k \in t + 1..Len(order) - 1 :
                             prev[q] = N(k)' /\ mine[q] = order[k + 1]
      BY <1>2 DEF Pending
    <2>1. next[prev[q]] = Null
      BY DEF Inv, Pending
    <2>2. PICK k \in t..Len(order) - 1 : prev[q] = N(k) /\ mine[q] = order[k + 1]
      BY DEF Inv, Pending
    <2>3. prev[q] # tail
      BY <2>1 DEF Visible
    <2>4. k # t
      BY <2>2, <2>3 DEF Inv, Ends
    <2>5. k \in t + 1..Len(order) - 1 /\ k \in 0..Len(order)
      BY <2>4, <1>2
    <2> QED BY <2>1, <2>2, <2>5, <1>3
  <1>12. Links'
    <2> SUFFICES ASSUME NEW k \in t + 1..Len(order) - 1
                 PROVE  next[N(k)'] = order[k + 1] \/ \E q \in Producers : prev[q] = N(k)'
      BY <1>2 DEF Links
    <2>1. k \in t..Len(order) - 1 /\ k \in 0..Len(order)
      BY <1>2
    <2> QED BY <2>1, <1>3 DEF Inv, Links
  <1> QED
    BY <1>5, <1>6, <1>7, <1>8, <1>9, <1>9a, <1>10, <1>11, <1>12 DEF Inv

LEMMA EmptyCorrect ==
  ASSUME Inv
  PROVE  EmptyIsTrue
  <1> SUFFICES ASSUME ~Visible, order # taken
               PROVE  \E p \in Producers : prev[p] = tail /\ mine[p] = order[Len(taken) + 1]
    BY DEF EmptyIsTrue
  <1> DEFINE t == Len(taken)
  <1>1. t < Len(order)
    <2> SUFFICES ASSUME t = Len(order) PROVE FALSE
      BY DEF Inv, Taken
    <2> QED
      BY DEF Inv, Taken, QueueTypeOK
  <1>2. t \in t..Len(order) - 1 /\ t \in 0..Len(order) /\ order[t + 1] \in Packets
    BY <1>1 DEF Inv, QueueTypeOK
  <1>3. next[tail] # order[t + 1]
    BY <1>2, QueueAssumption DEF Visible
  <1>4. PICK p \in Producers : prev[p] = tail
    BY <1>2, <1>3 DEF Inv, Links, Ends
  <1>5. tail # Null
    BY QueueAssumption DEF Inv, QueueTypeOK, Nodes
  <1>6. PICK k \in t..Len(order) - 1 : prev[p] = N(k) /\ mine[p] = order[k + 1]
    BY <1>4, <1>5 DEF Inv, Pending
  <1>7. k = t
    <2>1. k \in 0..Len(order)
      BY <1>2
    <2> QED
      BY <2>1, <1>2, <1>4, <1>6, NodesDiffer DEF Inv, Ends
  <1> QED BY <1>4, <1>6, <1>7

LEMMA DeleteFrontKeeps ==
  ASSUME Inv, DeleteFront
  PROVE  Inv'
  <1> USE DEF DeleteFront
  <1>1. \A p \in Producers : prev[p] = Null
    <2> SUFFICES ASSUME NEW p \in Producers, prev[p] # Null PROVE FALSE
      OBVIOUS
    <2>1. PICK k \in Len(taken)..Len(order) - 1 : mine[p] = order[k + 1]
      BY DEF Inv, Pending
    <2>2. k + 1 \in 1..Len(order)
      BY DEF Inv, Taken, QueueTypeOK
    <2> QED
      BY <2>1, <2>2, QueueAssumption DEF Inv, QueueTypeOK
  <1>2. order = taken
    BY <1>1, EmptyCorrect, QueueAssumption DEF EmptyIsTrue, Inv, QueueTypeOK, Nodes
  <1>3. \A n \in live : n = head
    <2>1. \A n \in live : n # Null
      BY QueueAssumption DEF Inv, QueueTypeOK, Nodes
    <2>2. \A n \in live : \E k \in Len(taken)..Len(order) : n = N(k)
      BY <2>1 DEF Inv, OnlyUsed
    <2> QED
      BY <1>2, <2>2 DEF Inv, Ends, QueueTypeOK
  <1>4. live' = {}
    BY <1>3
  <1>5. QueueTypeOK' /\ Distinct' /\ Taken' /\ Ends' /\ OneEach'
    BY DEF Inv, QueueTypeOK, Distinct, Taken, Ends, OneEach, N
  <1>6. Alive' /\ OnlyUsed' /\ Allocated'
    BY <1>4 DEF Alive, Exists, OnlyUsed, Allocated
  <1>7. Pending' /\ Links'
    BY DEF Inv, Pending, Links, N
  <1> QED
    BY <1>5, <1>6, <1>7 DEF Inv

LEMMA Stays == Inv /\ [QueueNext]_queueVars => Inv'
  <1> SUFFICES ASSUME Inv, [QueueNext]_queueVars PROVE Inv'
    OBVIOUS
  <1>1. CASE UNCHANGED queueVars
    BY <1>1 DEF queueVars, Inv, QueueTypeOK, Distinct, Taken, Ends, Alive, Exists, OnlyUsed, OneEach,
       Allocated, Pending, Links, N
  <1>2. CASE \E p \in Producers, e \in Packets : Allocate(p, e)
    BY <1>2, AllocateKeeps
  <1>3. CASE \E p \in Producers : Exchange(p) \/ Link(p)
    BY <1>3, ExchangeKeeps, LinkKeeps
  <1>4. CASE Dequeue \/ DeleteFront
    BY <1>4, DequeueKeeps, DeleteFrontKeeps
  <1> QED
    BY <1>1, <1>2, <1>3, <1>4 DEF QueueNext

LEMMA Always == QueueSpec => []Inv
  BY Starts, Stays, PTL DEF QueueSpec
-----------------------------------------------------------------------------
(* mpsc_queue.h: the pointers have the types of their declarations. *)
THEOREM QueueTypeCorrect == QueueSpec => []QueueTypeOK
  <1>1. Inv => QueueTypeOK
    BY DEF Inv
  <1> QED BY <1>1, Always, PTL

(* mpsc_queue.h:35 never stores into a deleted node, nor over another link, and
   no node outlives the queue (lines 21-29, 47). *)
THEOREM NodesSafe == QueueSpec => []MemorySafe
  <1>1. Inv => StoresAreSafe
    <2> SUFFICES ASSUME Inv, NEW p \in Producers, prev[p] # Null
                 PROVE  /\ prev[p] \in live /\ next[prev[p]] = Null
                        /\ \A q \in Producers \ {p} : prev[q] # prev[p]
      BY DEF StoresAreSafe
    <2>1. PICK k \in Len(taken)..Len(order) - 1 : prev[p] = N(k) /\ mine[p] = order[k + 1]
      BY DEF Inv, Pending
    <2>2. prev[p] \in live
      <3>1. k \in Len(taken)..Len(order) /\ k + 1 \in 1..Len(order)
        BY DEF Inv, Taken, QueueTypeOK
      <3>2. mine[p] # Null
        BY <2>1, <3>1, QueueAssumption DEF Inv, QueueTypeOK
      <3> QED
        BY <2>1, <3>1, <3>2 DEF Inv, Alive
    <2>3. next[prev[p]] = Null
      BY DEF Inv, Pending
    <2>4. \A q \in Producers \ {p} : prev[q] # prev[p]
      BY PrevDiffer
    <2> QED BY <2>2, <2>3, <2>4
  <1>2. Inv => NodesFreed
    BY DEF Inv, Alive, NodesFreed
  <1>3. Inv => MemorySafe
    BY <1>1, <1>2 DEF MemorySafe
  <1> QED BY <1>3, Always, PTL

(* mpsc_queue.h:42: dequeue() says "empty" only if it is, or if the next
   producer has exchanged head_ and not yet stored the link. *)
THEOREM EmptySaysTrue == QueueSpec => []EmptyIsTrue
  <1>1. Inv => EmptyIsTrue
    BY EmptyCorrect
  <1> QED BY <1>1, Always, PTL

(* The linked list implements a FIFO queue, for any number of producers. *)
THEOREM Implementation == QueueSpec => ImplementsFifo
  <1>1. QueueInit => Abstract!Init
    BY DEF QueueInit, Abstract!Init
  <1>2. Inv /\ [QueueNext]_queueVars => [Abstract!Next]_<<order, taken>>
    <2> SUFFICES ASSUME Inv, [QueueNext]_queueVars
                 PROVE  Abstract!Next \/ UNCHANGED <<order, taken>>
      BY DEF Abstract!Next
    <2>1. CASE UNCHANGED queueVars
      BY <2>1 DEF queueVars
    <2>2. CASE \E p \in Producers, e \in Packets : Allocate(p, e)
      BY <2>2 DEF Allocate
    <2>3. ASSUME NEW p \in Producers, Exchange(p) PROVE Abstract!Next
      <3>1. mine[p] \in Packets
        BY <2>3 DEF Exchange, Inv, QueueTypeOK
      <3>2. Abstract!Put(mine[p])
        BY <2>3 DEF Exchange, Abstract!Put
      <3> QED BY <3>1, <3>2 DEF Abstract!Next
    <2>4. CASE \E p \in Producers : Link(p)
      BY <2>4 DEF Link
    <2>5. CASE Dequeue
      <3>1. Abstract!Take
        BY <2>5, NextInOrder DEF Dequeue, Abstract!Take
      <3> QED BY <3>1 DEF Abstract!Next
    <2>6. CASE DeleteFront
      BY <2>6 DEF DeleteFront
    <2> QED BY <2>1, <2>2, <2>3, <2>4, <2>5, <2>6 DEF QueueNext
  <1> QED
    BY <1>1, <1>2, Always, PTL DEF QueueSpec, ImplementsFifo, Abstract!Spec
=============================================================================
