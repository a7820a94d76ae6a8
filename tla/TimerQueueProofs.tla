-------------------------- MODULE TimerQueueProofs ---------------------------
(* Proofs about TimerQueue, for any number of timers and addresses, any      *)
(* intervals and however the clocks go.                                      *)
EXTENDS TimerQueue, FiniteSetTheorems, WellFoundedInduction, TLAPS

-----------------------------------------------------------------------------
(* The least of a finite set of integers. *)
LEMMA LeastExists ==
  ASSUME NEW T, T \subseteq Int, IsFiniteSet(T), T # {}
  PROVE  \E x \in T : \A y \in T : x <= y
<1> DEFINE Below(x) == {y \in T : y < x}
           Family == {Below(x) : x \in T}
<1>1. Family \subseteq FiniteSubsetsOf(T) /\ Family # {}
  <2>1. \A x \in T : Below(x) \in SUBSET T
    OBVIOUS
  <2>2. \A x \in T : IsFiniteSet(Below(x))
    BY <2>1, FS_Subset
  <2> QED BY <2>1, <2>2 DEF FiniteSubsetsOf
<1>2. IsWellFoundedOn(StrictSubsetOrdering(T), FiniteSubsetsOf(T))
  BY FS_StrictSubsetOrderingWellFounded
<1>3. PICK B \in Family : \A C \in Family : <<C, B>> \notin StrictSubsetOrdering(T)
  <2> HIDE DEF Family
  <2> QED BY <1>1, <1>2, WFMin
<1>4. PICK x \in T : B = Below(x)
  BY <1>3
<1>5. ASSUME NEW y \in T, y < x PROVE FALSE
  <2>1. Below(y) \subseteq Below(x) /\ y \in Below(x) /\ y \notin Below(y)
    <3>1. x \in Int /\ y \in Int /\ \A z \in T : z \in Int
      BY <1>4, <1>5
    <3>2. \A z \in T : z < y => z < x
      BY <1>5, <3>1
    <3>3. ~(y < y) /\ y < x /\ y \in T
      BY <1>5, <3>1
    <3> QED BY <3>2, <3>3
  <2>2. <<Below(y), Below(x)>> \in StrictSubsetOrdering(T)
    <3>1. Below(y) \in SUBSET T /\ Below(x) \in SUBSET T
      OBVIOUS
    <3>2. Below(y) # Below(x)
      BY <2>1
    <3> HIDE DEF Below
    <3> QED BY <2>1, <3>1, <3>2 DEF StrictSubsetOrdering
  <2>3. Below(y) \in Family
    BY <1>5
  <2> QED BY <1>3, <1>4, <2>2, <2>3
<1> QED BY <1>5

-----------------------------------------------------------------------------
(* The inductive invariant.  An object knows its address by its sequence     *)
(* number; the functor that is to add a timer finds it; the timers of a      *)
(* batch are different.                                                      *)
Types ==
  /\ mono \in 0 .. MaxTime /\ skew \in Int /\ sets \in 0 .. MaxSets
  /\ objs \in [Addr -> Object \cup {Free}]
  /\ made \in Seq(Addr) /\ Len(made) <= MaxTimers
  /\ inbox \in Seq(Functors)
  /\ heap \subseteq Int \X Addr /\ active \subseteq Addr \X Seqs
  /\ canceling \subseteq Addr \X Seqs
  /\ pc \in {"loop", "run", "callback", "gone"} /\ readAt \in Int
  /\ batch \in Seq(Int \X Addr) /\ pos \in 1 .. Len(batch) + 1
  /\ calling \in BOOLEAN /\ (calling <=> pc \in {"run", "callback"})
  /\ ran \in [Seqs -> Nat] /\ asked \subseteq DOMAIN made
  /\ (pc = "callback" => pos <= Len(batch)) /\ (pc \in {"loop", "gone"} => batch = <<>>)

Located == \A a \in Addr : objs[a] # Free =>
             objs[a].seq \in DOMAIN made /\ made[objs[a].seq] = a

Adds == {i \in DOMAIN inbox : inbox[i].op = "add"}

InboxInv ==
  /\ \A i \in DOMAIN inbox : inbox[i].timer \in DOMAIN made
  /\ \A i \in DOMAIN inbox : inbox[i].op = "cancel" => inbox[i].timer \in asked
  /\ \A i \in Adds : LET a == made[inbox[i].timer]
                     IN  objs[a] # Free /\ objs[a].seq = inbox[i].timer
  /\ \A i, j \in Adds : inbox[i].timer = inbox[j].timer => i = j

BatchInv == \A i, j \in DOMAIN batch : batch[i][2] = batch[j][2] => i = j

Holders ==
  /\ {a \in Addr : objs[a] # Free} = Queued \cup Waiting \cup InBatch
  /\ Queued \cap Waiting = {} /\ Queued \cap InBatch = {} /\ Waiting \cap InBatch = {}

Inv == Types /\ Located /\ InboxInv /\ BatchInv /\ SetsAgree /\ Holders

\* The sequence numbers that callers of add_timer() read.  One that is not the timer's
\* own was read after the timer had been deleted.
IdInv ==
  /\ id \in [Seqs -> 0 .. MaxTimers]
  /\ \A s \in Seqs : id[s] # 0 => s \in DOMAIN made
  /\ \A s \in asked : id[s] # 0
  /\ \A s \in DOMAIN made :
       objs[made[s]] # Free /\ objs[made[s]].seq = s => id[s] \in {0, s}

USE DEF timers

LEMMA Numbers == MaxTimers \in Nat /\ MaxTime \in Nat /\ MaxSets \in Nat
BY TimerAssumption DEF TimerAssumption

LEMMA ObjectType ==
  ASSUME NEW t \in Object
  PROVE  t # Free /\ t.seq \in Seqs /\ t.exp \in Int /\ t.interval \in Nat
<1>1. Object \subseteq [seq : Nat, exp : Int, interval : Nat]
  BY Numbers DEF Object, Seqs
<1> QED BY <1>1, TimerAssumption DEF TimerAssumption, Object

LEMMA MadeSeqs ==
  ASSUME Types
  PROVE  DOMAIN made \subseteq Seqs
<1>1. DOMAIN made = 1 .. Len(made) /\ Len(made) \in Nat /\ Len(made) <= MaxTimers
  BY DEF Types
<1> QED BY <1>1, Numbers DEF Seqs

\* What a functor put into the inbox, or taken out of it, does to Queued.
LEMMA PutQueued ==
  ASSUME Types, InboxInv, NEW f \in Functors, inbox' = Append(inbox, f),
         \A s \in DOMAIN made : made'[s] = made[s]
  PROVE  /\ Queued' = Queued \cup (IF f.op = "add" THEN {made'[f.timer]} ELSE {})
         /\ DOMAIN inbox' = DOMAIN inbox \cup {Len(inbox) + 1}
         /\ \A i \in DOMAIN inbox : inbox'[i] = inbox[i]
         /\ inbox'[Len(inbox) + 1] = f /\ Len(inbox) + 1 \notin DOMAIN inbox
         /\ inbox' \in Seq(Functors)
<1>1. /\ DOMAIN inbox = 1 .. Len(inbox) /\ Len(inbox) \in Nat
      /\ DOMAIN inbox' = 1 .. Len(inbox) + 1
      /\ \A i \in 1 .. Len(inbox) : inbox'[i] = inbox[i]
      /\ inbox'[Len(inbox) + 1] = f /\ inbox' \in Seq(Functors)
  BY DEF Types
<1>2. 1 .. Len(inbox) + 1 = 1 .. Len(inbox) \cup {Len(inbox) + 1}
  BY <1>1
<1>3. Len(inbox) + 1 \notin 1 .. Len(inbox)
  BY <1>1
<1>4. \A i \in DOMAIN inbox : made'[inbox'[i].timer] = made[inbox[i].timer]
  BY <1>1 DEF InboxInv
<1>5. Queued' = Queued \cup (IF f.op = "add" THEN {made'[f.timer]} ELSE {})
  BY <1>1, <1>2, <1>4 DEF Queued
<1> QED BY <1>1, <1>2, <1>3, <1>5

LEMMA TakeQueued ==
  ASSUME Types, InboxInv, inbox # <<>>, inbox' = Tail(inbox), UNCHANGED made
  PROVE  /\ Queued = Queued' \cup (IF Head(inbox).op = "add" THEN {made[Head(inbox).timer]} ELSE {})
         /\ Head(inbox).op = "add" => made[Head(inbox).timer] \notin Queued'
         /\ \A i \in DOMAIN inbox' : i + 1 \in DOMAIN inbox /\ inbox'[i] = inbox[i + 1]
         /\ Head(inbox) = inbox[1] /\ 1 \in DOMAIN inbox /\ Head(inbox) \in Functors
         /\ inbox' \in Seq(Functors)
<1>1. /\ DOMAIN inbox = 1 .. Len(inbox) /\ Len(inbox) \in Nat \ {0}
      /\ DOMAIN inbox' = 1 .. Len(inbox) - 1
      /\ \A i \in 1 .. Len(inbox) - 1 : inbox'[i] = inbox[i + 1]
      /\ Head(inbox) = inbox[1] /\ Head(inbox) \in Functors /\ inbox' \in Seq(Functors)
  BY DEF Types
<1>2. \A i \in DOMAIN inbox' : i + 1 \in DOMAIN inbox /\ inbox'[i] = inbox[i + 1] /\ i + 1 # 1
  BY <1>1
<1>3. 1 \in DOMAIN inbox
  BY <1>1
<1>4. \A i \in DOMAIN inbox : i = 1 \/ (i - 1 \in DOMAIN inbox' /\ inbox'[i - 1] = inbox[i])
  BY <1>1
<1>5. ASSUME NEW x \in Queued
      PROVE  x \in Queued' \cup (IF Head(inbox).op = "add" THEN {made[Head(inbox).timer]} ELSE {})
  <2>1. PICK i \in DOMAIN inbox : inbox[i].op = "add" /\ x = made[inbox[i].timer]
    BY DEF Queued
  <2>2. CASE i = 1
    BY <1>1, <2>1, <2>2
  <2>3. CASE i # 1
    BY <1>4, <2>1, <2>3 DEF Queued
  <2> QED BY <2>2, <2>3
<1>6. Queued' \cup (IF Head(inbox).op = "add" THEN {made[Head(inbox).timer]} ELSE {}) \subseteq Queued
  BY <1>1, <1>2, <1>3 DEF Queued
<1>7. ASSUME Head(inbox).op = "add", made[Head(inbox).timer] \in Queued' PROVE FALSE
  <2>1. PICK j \in DOMAIN inbox' : inbox'[j].op = "add"
                                   /\ made[inbox'[j].timer] = made[inbox[1].timer]
    BY <1>1, <1>7 DEF Queued
  <2>2. 1 \in Adds /\ j + 1 \in Adds /\ made[inbox[j + 1].timer] = made[inbox[1].timer]
    BY <1>1, <1>2, <1>3, <1>7, <2>1 DEF Adds
  <2>3. inbox[j + 1].timer = inbox[1].timer
    BY <2>2 DEF InboxInv
  <2> QED BY <1>2, <2>1, <2>2, <2>3 DEF InboxInv
<1> QED BY <1>1, <1>2, <1>3, <1>5, <1>6, <1>7

-----------------------------------------------------------------------------
(* One lemma per operation on the sets. *)

\* A new timer is in no list.
LEMMA NewTimer ==
  ASSUME Inv, NEW a \in Addr, NEW t \in Object, New(a, t)
  PROVE  /\ t # Free /\ t.seq \in Seqs /\ t.exp \in Int
         /\ a \notin Queued /\ a \notin Waiting /\ a \notin InBatch
         /\ t.seq \notin DOMAIN made /\ DOMAIN made' = DOMAIN made \cup {t.seq}
         /\ made'[t.seq] = a /\ \A s \in DOMAIN made : made'[s] = made[s]
         /\ made' \in Seq(Addr) /\ Len(made') <= MaxTimers
         /\ objs' = [objs EXCEPT ![a] = t]
         /\ objs' \in [Addr -> Object \cup {Free}] /\ objs[a] = Free
         /\ Located'
<1>1. t # Free /\ t.seq \in Seqs /\ t.exp \in Int
  BY ObjectType
<1>2. a \notin Queued /\ a \notin Waiting /\ a \notin InBatch
  BY DEF Inv, Holders, New
<1>3. /\ DOMAIN made = 1 .. Len(made) /\ Len(made) \in Nat /\ Len(made) < MaxTimers
      /\ made' = Append(made, a) /\ t.seq = Len(made) + 1
  BY DEF Inv, Types, New
<1>4. /\ DOMAIN made' = 1 .. Len(made) + 1 /\ made'[Len(made) + 1] = a
      /\ \A s \in 1 .. Len(made) : made'[s] = made[s]
      /\ made' \in Seq(Addr) /\ Len(made') = Len(made) + 1
  BY <1>3 DEF Inv, Types
<1>5. 1 .. Len(made) + 1 = 1 .. Len(made) \cup {Len(made) + 1} /\ Len(made) + 1 \notin 1 .. Len(made)
  BY <1>3
<1>6. Len(made') <= MaxTimers
  BY <1>3, <1>4, Numbers
<1>7. objs' = [objs EXCEPT ![a] = t] /\ objs[a] = Free
  BY DEF New
<1>8. objs' \in [Addr -> Object \cup {Free}]
  BY <1>7 DEF Inv, Types
<1>9. Located'
  BY <1>3, <1>4, <1>5, <1>7 DEF Inv, Types, Located
<1> QED BY <1>1, <1>2, <1>3, <1>4, <1>5, <1>6, <1>7, <1>8, <1>9

LEMMA AddElsewhereKeeps ==
  ASSUME Inv, NEW a \in Addr, NEW t \in Object, New(a, t),
         inbox' = Append(inbox, [op |-> "add", timer |-> t.seq]), pc # "gone",
         UNCHANGED <<clocks, lists, canceling, reading, history, asked>>
  PROVE  Inv'
<1> DEFINE f == [op |-> "add", timer |-> t.seq]
<1> USE DEF clocks, lists, reading, history
<1>1. /\ t # Free /\ t.seq \in Seqs /\ a \notin Queued /\ a \notin Waiting /\ a \notin InBatch
      /\ t.seq \notin DOMAIN made /\ DOMAIN made' = DOMAIN made \cup {t.seq}
      /\ made'[t.seq] = a /\ \A s \in DOMAIN made : made'[s] = made[s]
      /\ made' \in Seq(Addr) /\ Len(made') <= MaxTimers
      /\ objs' = [objs EXCEPT ![a] = t]
      /\ objs' \in [Addr -> Object \cup {Free}] /\ objs[a] = Free /\ Located'
  BY NewTimer
<1>2. f \in Functors /\ f.op = "add" /\ f.timer = t.seq
  BY <1>1 DEF Functors
<1>3. /\ Queued' = Queued \cup {a}
      /\ DOMAIN inbox' = DOMAIN inbox \cup {Len(inbox) + 1}
      /\ \A i \in DOMAIN inbox : inbox'[i] = inbox[i]
      /\ inbox'[Len(inbox) + 1] = f /\ Len(inbox) + 1 \notin DOMAIN inbox
      /\ inbox' \in Seq(Functors)
  BY <1>1, <1>2, PutQueued DEF Inv
<1>4. Types'
  BY <1>1, <1>3 DEF Inv, Types
<1>5. InboxInv'
  <2>1. Adds' = Adds \cup {Len(inbox) + 1}
    BY <1>2, <1>3 DEF Adds
  <2>2. \A i \in Adds : /\ inbox[i].timer \in DOMAIN made
                        /\ objs[made[inbox[i].timer]] # Free
                        /\ made[inbox[i].timer] \in Addr
    BY DEF Inv, InboxInv, Adds, Types
  <2>3. /\ \A i \in DOMAIN inbox' : inbox'[i].timer \in DOMAIN made'
        /\ \A i \in DOMAIN inbox' : inbox'[i].op = "cancel" => inbox'[i].timer \in asked'
    BY <1>1, <1>2, <1>3 DEF Inv, InboxInv
  <2>4. ASSUME NEW i \in Adds'
        PROVE  /\ objs'[made'[inbox'[i].timer]] # Free
               /\ objs'[made'[inbox'[i].timer]].seq = inbox'[i].timer
    <3>1. CASE i = Len(inbox) + 1
      BY <1>1, <1>2, <1>3, <3>1 DEF Inv, Types
    <3>2. CASE i \in Adds
      <4>1. inbox'[i] = inbox[i] /\ made'[inbox[i].timer] = made[inbox[i].timer]
        BY <1>1, <1>3, <2>2, <3>2 DEF Adds
      <4>2. made[inbox[i].timer] # a /\ objs[made[inbox[i].timer]].seq = inbox[i].timer
        BY <1>1, <2>2, <3>2 DEF Inv, InboxInv
      <4> QED BY <1>1, <2>2, <3>2, <4>1, <4>2 DEF Inv, Types
    <3> QED BY <2>1, <2>4, <3>1, <3>2
  <2>5. \A i, j \in Adds' : inbox'[i].timer = inbox'[j].timer => i = j
    BY <1>1, <1>2, <1>3, <2>1, <2>2 DEF Inv, InboxInv, Adds
  <2> QED
    BY <2>3, <2>4, <2>5 DEF InboxInv
<1>6. BatchInv' /\ Waiting' = Waiting /\ InBatch' = InBatch
  BY DEF Inv, BatchInv, Waiting, InBatch
<1>7. SetsAgree'
  BY <1>1 DEF Inv, SetsAgree, Types, Entry
<1>8. Holders'
  BY <1>1, <1>3, <1>6 DEF Inv, Holders, Types
<1> QED BY <1>1, <1>4, <1>5, <1>6, <1>7, <1>8 DEF Inv

LEMMA AddOnLoopKeeps ==
  ASSUME Inv, NEW a \in Addr, NEW t \in Object, New(a, t), insert(a, t),
         pc \in {"loop", "callback"},
         UNCHANGED <<clocks, inbox, canceling, reading, history, asked>>
  PROVE  Inv'
<1> USE DEF clocks, reading, history
<1>1. /\ t # Free /\ t.seq \in Seqs /\ t.exp \in Int
      /\ a \notin Queued /\ a \notin Waiting /\ a \notin InBatch
      /\ t.seq \notin DOMAIN made /\ DOMAIN made' = DOMAIN made \cup {t.seq}
      /\ made'[t.seq] = a /\ \A s \in DOMAIN made : made'[s] = made[s]
      /\ made' \in Seq(Addr) /\ Len(made') <= MaxTimers
      /\ objs' = [objs EXCEPT ![a] = t]
      /\ objs' \in [Addr -> Object \cup {Free}] /\ objs[a] = Free /\ Located'
  BY NewTimer
<1>2. heap' = heap \cup {<<t.exp, a>>} /\ active' = active \cup {<<a, t.seq>>}
  BY DEF insert, Entry
<1>3. Types'
  <2>1. heap \subseteq Int \X Addr /\ active \subseteq Addr \X Seqs /\ asked \subseteq DOMAIN made
    BY DEF Inv, Types
  <2>2. a \in Addr /\ t.exp \in Int /\ t.seq \in Seqs /\ asked' = asked
    BY <1>1
  <2>3. heap' \subseteq Int \X Addr /\ active' \subseteq Addr \X Seqs
    BY <1>2, <2>1, <2>2
  <2>4. asked' \subseteq DOMAIN made'
    BY <1>1, <2>1, <2>2
  <2> QED BY <1>1, <2>3, <2>4 DEF Inv, Types
<1>4. Queued' = Queued
  BY <1>1 DEF Inv, InboxInv, Queued
<1>5. InboxInv'
  <2>1. Adds' = Adds
    BY DEF Adds
  <2>2. \A i \in Adds : /\ inbox[i].timer \in DOMAIN made
                        /\ objs[made[inbox[i].timer]] # Free
                        /\ made[inbox[i].timer] \in Addr
    BY DEF Inv, InboxInv, Adds, Types
  <2>3. \A i \in DOMAIN inbox : inbox[i].timer \in DOMAIN made'
    BY <1>1 DEF Inv, InboxInv
  <2>4. \A i \in Adds : LET b == made'[inbox[i].timer]
                        IN  objs'[b] # Free /\ objs'[b].seq = inbox[i].timer
    BY <1>1, <2>2 DEF Inv, InboxInv, Types
  <2> QED BY <2>1, <2>3, <2>4 DEF Inv, InboxInv
<1>6. BatchInv' /\ InBatch' = InBatch
  BY DEF Inv, BatchInv, InBatch
<1>7. Waiting' = Waiting \cup {a}
  <2> DEFINE new == <<t.exp, a>>
  <2>1. new[1] = t.exp /\ new[2] = a /\ heap' = heap \cup {new}
    BY <1>2
  <2> HIDE DEF new
  <2> QED BY <2>1 DEF Waiting
<1>8. SetsAgree'
  <2>1. \A e \in heap : e[2] # a /\ e[2] \in Addr
    BY <1>1 DEF Waiting, Inv, Types
  <2>2. \A u \in active : u[1] # a /\ u[1] \in Addr
    BY <1>1 DEF Inv, SetsAgree, Types
  <2>3. ASSUME NEW u \in active'
        PROVE  /\ objs'[u[1]] # Free /\ objs'[u[1]].seq = u[2]
               /\ Entry(u[1], objs'[u[1]]) \in heap'
    <3>1. CASE u \in active
      BY <1>1, <1>2, <2>2, <3>1 DEF Inv, SetsAgree, Types, Entry
    <3>2. CASE u = <<a, t.seq>>
      BY <1>1, <1>2, <3>2 DEF Inv, Types, Entry
    <3> QED BY <1>2, <2>3, <3>1, <3>2
  <2>4. ASSUME NEW e \in heap'
        PROVE  /\ objs'[e[2]] # Free /\ e = Entry(e[2], objs'[e[2]])
               /\ <<e[2], objs'[e[2]].seq>> \in active'
    <3>1. CASE e \in heap
      BY <1>1, <1>2, <2>1, <3>1 DEF Inv, SetsAgree, Types, Entry
    <3>2. CASE e = <<t.exp, a>>
      BY <1>1, <1>2, <3>2 DEF Inv, Types, Entry
    <3> QED BY <1>2, <2>4, <3>1, <3>2
  <2> QED BY <2>3, <2>4 DEF SetsAgree
<1>9. Holders'
  <2>1. objs \in [Addr -> Object \cup {Free}] /\ Holders
    BY DEF Inv, Types
  <2>2. {b \in Addr : objs'[b] # Free} = {b \in Addr : objs[b] # Free} \cup {a}
    BY <1>1, <2>1
  <2> QED BY <1>1, <1>4, <1>6, <1>7, <2>1, <2>2 DEF Holders
<1> QED BY <1>1, <1>3, <1>5, <1>6, <1>8, <1>9 DEF Inv

\* cancel_in_loop: the timer that the Timer_id names, if it waits, goes from all the
\* lists at once.
LEMMA DropKeeps ==
  ASSUME Inv, NEW s \in DOMAIN made, IsActive(s), drop(s)
  PROVE  /\ objs' \in [Addr -> Object \cup {Free}]
         /\ heap' \subseteq heap /\ active' \subseteq active
         /\ \A a \in Addr : a # made[s] => objs'[a] = objs[a]
         /\ made[s] \in Addr /\ objs'[made[s]] = Free
         /\ objs[made[s]] # Free /\ objs[made[s]].seq = id[s]
         /\ id[s] \in DOMAIN made /\ made[id[s]] = made[s]
         /\ Waiting' = Waiting \ {made[s]} /\ made[s] \in Waiting
         /\ \A e \in heap : e[2] # made[s] => e \in heap'
         /\ \A u \in active : u[1] # made[s] => u \in active'
<1>1. made[s] \in Addr /\ <<made[s], id[s]>> \in active
  BY DEF Inv, Types, IsActive, Timer_id
<1>2. /\ objs[made[s]] # Free /\ objs[made[s]].seq = id[s]
      /\ Entry(made[s], objs[made[s]]) \in heap
  BY <1>1 DEF Inv, SetsAgree
<1>3. \A e \in heap : e[2] = made[s] => e = Entry(made[s], objs[made[s]])
  BY <1>1 DEF Inv, SetsAgree
<1>4. heap' = heap \ {Entry(made[s], objs[made[s]])} /\ active' = active \ {<<made[s], id[s]>>}
      /\ objs' = [objs EXCEPT ![made[s]] = Free]
  BY DEF drop, Timer_id
<1>5. Waiting' = Waiting \ {made[s]} /\ made[s] \in Waiting
  BY <1>2, <1>3, <1>4 DEF Waiting, Entry
<1>6. id[s] \in DOMAIN made /\ made[id[s]] = made[s]
  BY <1>1, <1>2 DEF Inv, Located
<1> QED BY <1>1, <1>2, <1>3, <1>4, <1>5, <1>6 DEF Inv, Types, Entry

LEMMA CancelKeeps ==
  ASSUME Inv, IdInv, NEW s \in DOMAIN made, id[s] # 0, cancel_in_loop(s), pc \in {"loop", "callback"},
         UNCHANGED <<clocks, timers, reading, ran>>,
         s \in asked', asked \subseteq asked', asked' \subseteq DOMAIN made,
         inbox' = inbox \/ (inbox # <<>> /\ inbox' = Tail(inbox) /\ Head(inbox).op = "cancel")
  PROVE  Inv'
<1> USE DEF clocks, reading
<1>0. id[s] \in Seqs /\ made[s] \in Addr
  <2>1. s \in Seqs
    BY MadeSeqs DEF Inv
  <2>2. id[s] \in 0 .. MaxTimers /\ id[s] # 0
    BY <2>1 DEF IdInv
  <2> QED BY <2>2, Numbers DEF Inv, Types, Seqs
<1>1. /\ Queued' = Queued /\ inbox' \in Seq(Functors)
      /\ DOMAIN inbox' \subseteq Nat
      /\ \E d \in {0, 1} : \A i \in DOMAIN inbox' :
           i + d \in DOMAIN inbox /\ inbox'[i] = inbox[i + d]
  <2>1. CASE inbox' = inbox
    <3>1. \A i \in DOMAIN inbox : i \in Nat /\ i + 0 = i
      BY DEF Inv, Types
    <3> QED BY <2>1, <3>1 DEF Inv, Types, Queued
  <2>2. CASE inbox # <<>> /\ inbox' = Tail(inbox) /\ Head(inbox).op = "cancel"
    <3>1. DOMAIN inbox' \subseteq Nat
      BY <2>2 DEF Inv, Types
    <3> QED BY <2>2, <3>1, TakeQueued DEF Inv
  <2> QED BY <2>1, <2>2
<1>a. PICK d \in {0, 1} : \A i \in DOMAIN inbox' :
        i + d \in DOMAIN inbox /\ inbox'[i] = inbox[i + d]
  BY <1>1
<1>b. /\ \A i \in DOMAIN inbox' : inbox'[i].timer \in DOMAIN made
      /\ \A i \in DOMAIN inbox' : inbox'[i].op = "cancel" => inbox'[i].timer \in asked'
  BY <1>a DEF Inv, InboxInv
<1>c. \A i \in Adds' : i + d \in Adds /\ inbox'[i] = inbox[i + d] /\ i \in Nat
  BY <1>1, <1>a DEF Adds
<1>d. \A i, j \in Adds' : inbox'[i].timer = inbox'[j].timer => i = j
  <2> SUFFICES ASSUME NEW i \in Adds', NEW j \in Adds', inbox'[i].timer = inbox'[j].timer
               PROVE  i = j
    OBVIOUS
  <2>1. i + d = j + d
    BY <1>c DEF Inv, InboxInv
  <2> QED BY <1>c, <2>1
<1>e. \A i \in Adds' : LET a == made[inbox'[i].timer]
                       IN  a \in Addr /\ a \in Queued /\ objs[a] # Free
                           /\ objs[a].seq = inbox'[i].timer
  <2> SUFFICES ASSUME NEW k \in Adds
               PROVE  LET a == made[inbox[k].timer]
                      IN  a \in Addr /\ a \in Queued /\ objs[a] # Free
                          /\ objs[a].seq = inbox[k].timer
    BY <1>c
  <2> QED BY DEF Inv, InboxInv, Types, Adds, Queued
<1>2. CASE UNCHANGED <<lists, objs>> /\ canceling' \in {canceling, canceling \cup {Timer_id(s)}}
  <2> USE DEF lists
  <2>1. Timer_id(s) \in Addr \X Seqs
    BY <1>0, Numbers DEF Inv, Types, IdInv, Timer_id, Seqs
  <2>2. Types'
    BY <1>1, <1>2, <2>1 DEF Inv, Types
  <2>3. Located' /\ BatchInv' /\ SetsAgree' /\ Holders'
    <3>1. Waiting' = Waiting /\ InBatch' = InBatch
      BY <1>2 DEF Waiting, InBatch
    <3>2. Holders'
      BY <1>1, <1>2, <3>1 DEF Inv, Holders
    <3>3. Located' /\ BatchInv' /\ SetsAgree'
      BY <1>2 DEF Inv, Located, BatchInv, SetsAgree
    <3> QED BY <3>2, <3>3
  <2>4. InboxInv'
    BY <1>2, <1>b, <1>d, <1>e DEF InboxInv
  <2> QED BY <2>2, <2>3, <2>4 DEF Inv
<1>3. CASE IsActive(s) /\ drop(s)
  <2>1. /\ objs' \in [Addr -> Object \cup {Free}]
        /\ heap' \subseteq heap /\ active' \subseteq active
        /\ \A a \in Addr : a # made[s] => objs'[a] = objs[a]
        /\ made[s] \in Addr /\ objs'[made[s]] = Free
        /\ objs[made[s]] # Free /\ objs[made[s]].seq = id[s]
        /\ Waiting' = Waiting \ {made[s]} /\ made[s] \in Waiting
        /\ \A e \in heap : e[2] # made[s] => e \in heap'
        /\ \A u \in active : u[1] # made[s] => u \in active'
    BY <1>3, DropKeeps
  <2>2. Types'
    BY <1>1, <1>3, <2>1 DEF Inv, Types, drop
  <2>3. Located' /\ BatchInv' /\ InBatch' = InBatch
    BY <2>1 DEF Inv, Located, BatchInv, InBatch
  <2>4. made[s] \notin Queued /\ made[s] \notin InBatch
    BY <2>1 DEF Inv, Holders
  <2>5. Holders'
    <3>1. {a \in Addr : objs'[a] # Free} = {a \in Addr : objs[a] # Free} \ {made[s]}
      BY <2>1
    <3> QED BY <1>1, <2>1, <2>3, <2>4, <3>1 DEF Inv, Holders
  <2>6. SetsAgree'
    <3>1. made[s] \notin Waiting'
      BY <2>1
    <3>2. \A e \in heap' : e[2] # made[s] /\ e[2] \in Addr
      BY <2>1, <3>1 DEF Waiting, Inv, Types
    <3>3. \A u \in active' : u[1] # made[s] /\ u[1] \in Addr
      BY <1>3, <2>1 DEF Inv, SetsAgree, Types, drop, Timer_id
    <3> QED BY <2>1, <3>2, <3>3 DEF Inv, SetsAgree, Entry
  <2>7. InboxInv'
    <3>1. \A i \in Adds' : LET a == made[inbox'[i].timer]
                           IN  objs'[a] # Free /\ objs'[a].seq = inbox'[i].timer
      BY <1>e, <2>1, <2>4
    <3> QED BY <1>b, <1>d, <3>1 DEF InboxInv
  <2> QED BY <2>2, <2>3, <2>5, <2>6, <2>7 DEF Inv
<1> QED BY <1>2, <1>3 DEF cancel_in_loop, remember, lists

LEMMA RunAddKeeps ==
  ASSUME Inv, RunAdd
  PROVE  Inv'
<1> DEFINE s == Head(inbox).timer
           a == made[s]
           t == objs[a]
<1> USE DEF clocks, reading, history
<1>1. /\ Queued = Queued' \cup {a} /\ a \notin Queued'
      /\ \A i \in DOMAIN inbox' : i + 1 \in DOMAIN inbox /\ inbox'[i] = inbox[i + 1]
      /\ Head(inbox) = inbox[1] /\ 1 \in DOMAIN inbox /\ inbox[1].op = "add"
      /\ inbox' \in Seq(Functors)
  BY TakeQueued DEF Inv, RunAdd
<1>2. a \in Addr /\ t # Free /\ t.seq = s /\ t \in Object /\ s \in Seqs /\ t.exp \in Int
  <2>1. 1 \in Adds /\ s \in DOMAIN made
    BY <1>1 DEF Adds, Inv, InboxInv
  <2>2. a \in Addr /\ t # Free /\ t.seq = s
    BY <1>1, <2>1 DEF Inv, InboxInv, Types
  <2> QED BY <2>2, ObjectType DEF Inv, Types
<1> HIDE DEF s, t
<1>3. /\ heap' = heap \cup {<<t.exp, a>>} /\ active' = active \cup {<<a, t.seq>>}
      /\ UNCHANGED <<clocks, objs, made, canceling, reading, history, asked>>
  BY DEF RunAdd, insert, Entry, s, t
<1> HIDE DEF a
<1>4. a \notin Waiting /\ a \notin InBatch
  BY <1>1 DEF Inv, Holders
<1>5. Types'
  <2>1. heap \subseteq Int \X Addr /\ active \subseteq Addr \X Seqs
    BY DEF Inv, Types
  <2>2. heap' \subseteq Int \X Addr /\ active' \subseteq Addr \X Seqs
    BY <1>2, <1>3, <2>1
  <2>3. inbox' \in Seq(Functors)
    BY <1>1
  <2> QED BY <1>3, <2>2, <2>3 DEF Inv, Types
<1>6. Located' /\ BatchInv' /\ InBatch' = InBatch
  BY <1>3 DEF Inv, Located, BatchInv, InBatch
<1>7. Waiting' = Waiting \cup {a}
  <2> DEFINE new == <<t.exp, a>>
  <2>1. new[2] = a /\ heap' = heap \cup {new}
    BY <1>3
  <2> HIDE DEF new
  <2> QED BY <2>1 DEF Waiting
<1>8. SetsAgree'
  <2>1. t = objs[a]
    BY DEF a, t
  <2>2. ASSUME NEW u \in active'
        PROVE  /\ objs'[u[1]] # Free /\ objs'[u[1]].seq = u[2]
               /\ Entry(u[1], objs'[u[1]]) \in heap'
    <3>1. CASE u \in active
      BY <1>3, <3>1 DEF Inv, SetsAgree
    <3>2. CASE u = <<a, t.seq>>
      BY <1>2, <1>3, <2>1, <3>2 DEF Entry
    <3> QED BY <1>3, <2>2, <3>1, <3>2
  <2>3. ASSUME NEW e \in heap'
        PROVE  /\ objs'[e[2]] # Free /\ e = Entry(e[2], objs'[e[2]])
               /\ <<e[2], objs'[e[2]].seq>> \in active'
    <3>1. CASE e \in heap
      BY <1>3, <3>1 DEF Inv, SetsAgree
    <3>2. CASE e = <<t.exp, a>>
      BY <1>2, <1>3, <2>1, <3>2 DEF Entry
    <3> QED BY <1>3, <2>3, <3>1, <3>2
  <2> QED BY <2>2, <2>3 DEF SetsAgree
<1>9. Holders'
  BY <1>1, <1>3, <1>4, <1>6, <1>7 DEF Inv, Holders
<1>10. InboxInv'
  <2>1. \A i \in DOMAIN inbox' : i \in Nat
    BY <1>1
  <2>2. \A i \in Adds' : i + 1 \in Adds /\ inbox'[i] = inbox[i + 1] /\ i \in Nat
    BY <1>1, <2>1 DEF Adds
  <2>3. ASSUME NEW i \in Adds', NEW j \in Adds', inbox'[i].timer = inbox'[j].timer
        PROVE  i = j
    <3>1. i + 1 = j + 1
      BY <2>2, <2>3 DEF Inv, InboxInv
    <3> QED BY <2>2, <3>1
  <2>4. ASSUME NEW i \in Adds'
        PROVE  /\ objs[made[inbox'[i].timer]] # Free
               /\ objs[made[inbox'[i].timer]].seq = inbox'[i].timer
    BY <2>2 DEF Inv, InboxInv
  <2>5. /\ \A i \in DOMAIN inbox' : inbox'[i].timer \in DOMAIN made
        /\ \A i \in DOMAIN inbox' : inbox'[i].op = "cancel" => inbox'[i].timer \in asked
    BY <1>1 DEF Inv, InboxInv
  <2> QED BY <1>3, <2>3, <2>4, <2>5 DEF InboxInv
<1> QED BY <1>5, <1>6, <1>8, <1>9, <1>10 DEF Inv

\* timers_ is as small as the timers that were made are few.
LEMMA HeapFinite ==
  ASSUME Inv
  PROVE  IsFiniteSet(heap)
<1> DEFINE S == {s \in DOMAIN made : Timer(s) \in active}
           f == [s \in S |-> Entry(made[s], objs[made[s]])]
<1>1. IsFiniteSet(S)
  <2>1. IsFiniteSet(1 .. Len(made)) /\ DOMAIN made = 1 .. Len(made)
    BY FS_Interval DEF Inv, Types
  <2> QED BY <2>1, FS_Subset
<1>2. \A s \in S : Entry(made[s], objs[made[s]]) \in heap
  BY DEF Inv, SetsAgree, Timer
<1>3. \A e \in heap : \E s \in S : e = Entry(made[s], objs[made[s]])
  <2> SUFFICES ASSUME NEW e \in heap PROVE \E s \in S : e = Entry(made[s], objs[made[s]])
    OBVIOUS
  <2>1. /\ e[2] \in Addr /\ objs[e[2]] # Free /\ e = Entry(e[2], objs[e[2]])
        /\ <<e[2], objs[e[2]].seq>> \in active
    BY DEF Inv, SetsAgree, Types
  <2>2. objs[e[2]].seq \in DOMAIN made /\ made[objs[e[2]].seq] = e[2]
    BY <2>1 DEF Inv, Located
  <2> QED BY <2>1, <2>2 DEF Timer
<1>4. f \in Surjection(S, heap)
  <2> HIDE DEF S
  <2> QED BY <1>2, <1>3 DEF Surjection
<1> HIDE DEF f, S
<1> QED BY <1>1, <1>4, FS_Surjection

\* A batch is a sequence of the entries that were due, without repetition.
LEMMA BatchOfDue ==
  ASSUME Inv, NEW E \in SUBSET heap, NEW q \in Orders(E)
  PROVE  /\ q \in Seq(Int \X Addr) /\ Len(q) \in Nat /\ DOMAIN q = 1 .. Len(q)
         /\ \A i \in DOMAIN q : q[i] \in E
         /\ \A e \in E : \E i \in DOMAIN q : q[i] = e
         /\ \A i, j \in DOMAIN q : q[i] = q[j] => i = j
<1> DEFINE n == Cardinality(E)
<1>1. IsFiniteSet(E) /\ n \in Nat
  BY HeapFinite, FS_Subset, FS_CardinalityType
<1>2. q \in [1 .. n -> E] /\ \A e \in E : \E i \in DOMAIN q : q[i] = e
  BY DEF Orders
<1>3. E \subseteq Int \X Addr
  BY DEF Inv, Types
<1>4. q \in Seq(Int \X Addr) /\ Len(q) = n /\ DOMAIN q = 1 .. n
  <2> HIDE DEF n
  <2>1. q \in [1 .. n -> Int \X Addr]
    BY <1>2, <1>3
  <2> QED BY <1>1, <2>1
<1>5. q \in Surjection(1 .. n, E)
  <2> HIDE DEF n
  <2> QED BY <1>2 DEF Surjection
<1>6. IsFiniteSet(1 .. n) /\ Cardinality(1 .. n) = n
  <2> HIDE DEF n
  <2>1. IsFiniteSet(1 .. n) /\ Cardinality(1 .. n) = IF 1 > n THEN 0 ELSE n - 1 + 1
    BY <1>1, FS_Interval
  <2> QED BY <1>1, <2>1
<1>7. q \in Injection(1 .. n, E)
  BY <1>5, <1>6, FS_SurjSameCardinalityImpliesInj
<1>8. \A i, j \in 1 .. n : q[i] = q[j] => i = j
  <2> HIDE DEF n
  <2> QED BY <1>7 DEF Injection, IsInjective
<1> HIDE DEF n
<1> QED BY <1>1, <1>2, <1>4, <1>8

LEMMA HandleReadKeeps ==
  ASSUME Inv, HandleRead
  PROVE  Inv' /\ \A a \in InBatch' : a \in Waiting
<1> DEFINE due == {e \in heap : e[1] <= wall}
<1> USE DEF clocks, history
<1>1. /\ heap' = heap \ due
      /\ active' = active \ {<<e[2], objs[e[2]].seq>> : e \in due}
      /\ batch' \in Orders(due)
      /\ calling' = TRUE /\ canceling' = {} /\ pos' = 1 /\ pc' = "run" /\ readAt' = wall
      /\ pc = "loop" /\ UNCHANGED <<clocks, objs, made, inbox, history, asked>>
  BY DEF HandleRead, get_expired
<1>2. due \in SUBSET heap
  OBVIOUS
<1> HIDE DEF due
<1>3. /\ batch' \in Seq(Int \X Addr) /\ Len(batch') \in Nat /\ DOMAIN batch' = 1 .. Len(batch')
      /\ \A i \in DOMAIN batch' : batch'[i] \in due
      /\ \A e \in due : \E i \in DOMAIN batch' : batch'[i] = e
      /\ \A i, j \in DOMAIN batch' : batch'[i] = batch'[j] => i = j
  BY <1>1, <1>2, BatchOfDue
<1>4. \A e \in heap : e[2] \in Addr /\ objs[e[2]] # Free /\ e = Entry(e[2], objs[e[2]])
                      /\ <<e[2], objs[e[2]].seq>> \in active
  BY DEF Inv, SetsAgree, Types
<1>5. \A e, g \in heap : e[2] = g[2] => e = g
  BY <1>4 DEF Entry
<1>6. Types'
  BY <1>1, <1>3 DEF Inv, Types, wall
<1>7. Located' /\ InboxInv' /\ Queued' = Queued
  BY <1>1 DEF Inv, Located, InboxInv, Adds, Queued
<1>8. BatchInv'
  BY <1>2, <1>3, <1>5 DEF BatchInv
<1>9. InBatch' = {e[2] : e \in due}
  BY <1>3 DEF InBatch
<1>10. Waiting' = Waiting \ InBatch' /\ InBatch' \subseteq Waiting
  BY <1>1, <1>2, <1>5, <1>9 DEF Waiting
<1>11. InBatch = {}
  BY <1>1 DEF Inv, Types, InBatch
<1>12. Holders'
  BY <1>1, <1>7, <1>10, <1>11 DEF Inv, Holders
<1>13. SetsAgree'
  <2>1. ASSUME NEW u \in active'
        PROVE  /\ objs'[u[1]] # Free /\ objs'[u[1]].seq = u[2]
               /\ Entry(u[1], objs'[u[1]]) \in heap'
    <3>1. /\ u \in active /\ u[1] \in Addr /\ u = <<u[1], u[2]>>
          /\ objs[u[1]] # Free /\ objs[u[1]].seq = u[2]
          /\ Entry(u[1], objs[u[1]]) \in heap
      BY <1>1, <2>1 DEF Inv, SetsAgree, Types
    <3>2. Entry(u[1], objs[u[1]])[2] = u[1]
      BY DEF Entry
    <3>3. Entry(u[1], objs[u[1]]) \notin due
      BY <1>1, <2>1, <3>1, <3>2
    <3> QED BY <1>1, <3>1, <3>3
  <2>2. ASSUME NEW e \in heap'
        PROVE  /\ objs'[e[2]] # Free /\ e = Entry(e[2], objs'[e[2]])
               /\ <<e[2], objs'[e[2]].seq>> \in active'
    <3>1. e \in heap /\ e \notin due
      BY <1>1, <2>2
    <3>2. \A g \in due : <<g[2], objs[g[2]].seq>> # <<e[2], objs[e[2]].seq>>
      BY <1>2, <1>5, <3>1
    <3> QED BY <1>1, <1>4, <3>1, <3>2
  <2> QED BY <2>1, <2>2 DEF SetsAgree
<1> QED BY <1>6, <1>7, <1>8, <1>10, <1>12, <1>13 DEF Inv

LEMMA ResetKeeps ==
  ASSUME Inv, Reset
  PROVE  /\ Inv' /\ InBatch' = {}
         /\ \A a \in Addr \ InBatch : objs'[a] = objs[a]
         /\ \A a \in InBatch \ Restarted : objs'[a] = Free
         /\ \A a \in Restarted : objs'[a] = Restart(a) /\ objs'[a].seq = objs[a].seq
<1> USE DEF clocks, history
<1>1. /\ objs' = [a \in Addr |-> IF a \in Restarted THEN Restart(a)
                                 ELSE IF a \in InBatch THEN Free ELSE objs[a]]
      /\ heap' = heap \cup {Entry(a, Restart(a)) : a \in Restarted}
      /\ active' = active \cup {<<a, objs[a].seq>> : a \in Restarted}
      /\ calling' = FALSE /\ pc' = "loop" /\ batch' = <<>> /\ pos' = 1 /\ readAt' = 0
      /\ UNCHANGED <<clocks, made, inbox, canceling, history, asked>>
  BY DEF Reset, EndCalling
<1>2. Restarted \subseteq InBatch /\ InBatch \subseteq Addr
  BY DEF Restarted, InBatch, Inv, Types
<1>3. \A a \in InBatch : objs[a] # Free /\ objs[a] \in Object
  BY <1>2 DEF Inv, Holders, Types
<1>4. \A a \in Restarted : /\ Restart(a) \in Object /\ Restart(a) # Free
                           /\ Restart(a).seq = objs[a].seq /\ Restart(a).exp \in Int
                           /\ objs[a].seq \in Seqs
  <2> SUFFICES ASSUME NEW a \in Restarted
               PROVE  /\ Restart(a) \in Object /\ Restart(a) # Free
                      /\ Restart(a).seq = objs[a].seq /\ Restart(a).exp \in Int
                      /\ objs[a].seq \in Seqs
    OBVIOUS
  <2>1. objs[a] \in Object /\ objs[a].interval \in Nat /\ readAt \in Int /\ objs[a].seq \in Seqs
    BY <1>2, <1>3, ObjectType DEF Inv, Types
  <2>2. readAt + objs[a].interval \in Int
    BY <2>1
  <2>3. Restart(a) \in Object /\ Restart(a).seq = objs[a].seq
    BY <2>1, <2>2 DEF Restart, Object
  <2> QED BY <2>1, <2>3, ObjectType
<1>5. /\ \A a \in Addr \ InBatch : objs'[a] = objs[a]
      /\ \A a \in InBatch \ Restarted : objs'[a] = Free
      /\ \A a \in Restarted : objs'[a] = Restart(a) /\ objs'[a].seq = objs[a].seq
  BY <1>1, <1>2, <1>4
<1>6. objs' \in [Addr -> Object \cup {Free}]
  BY <1>1, <1>4 DEF Inv, Types
<1>7. InBatch' = {} /\ Waiting' = Waiting \cup Restarted /\ Queued' = Queued
  <2>1. InBatch' = {}
    BY <1>1 DEF InBatch
  <2>2. \A a \in Restarted : Entry(a, Restart(a))[2] = a
    BY DEF Entry
  <2>3. Waiting' = Waiting \cup Restarted
    BY <1>1, <2>2 DEF Waiting
  <2>4. Queued' = Queued
    BY <1>1 DEF Queued
  <2> QED BY <2>1, <2>3, <2>4
<1>8. Types'
  <2>1. \A a \in Restarted : Entry(a, Restart(a)) \in Int \X Addr
    BY <1>2, <1>4 DEF Entry
  <2>2. heap' \subseteq Int \X Addr
    BY <1>1, <2>1 DEF Inv, Types
  <2>3. active' \subseteq Addr \X Seqs
    BY <1>1, <1>2, <1>4 DEF Inv, Types
  <2>4. batch' \in Seq(Int \X Addr) /\ Len(batch') = 0 /\ pos' \in 1 .. Len(batch') + 1
    BY <1>1
  <2>5. /\ pc' = "loop" /\ readAt' \in Int /\ calling' = FALSE /\ batch' = <<>>
    BY <1>1
  <2> QED BY <1>1, <1>6, <2>2, <2>3, <2>4, <2>5 DEF Inv, Types
<1>9. Located'
  BY <1>1, <1>2, <1>3, <1>5 DEF Inv, Located
<1>10. BatchInv'
  BY <1>1 DEF BatchInv
<1>11. Holders'
  BY <1>2, <1>4, <1>5, <1>7 DEF Inv, Holders
<1>12. InboxInv'
  <2>1. \A i \in Adds : made[inbox[i].timer] \in Queued /\ made[inbox[i].timer] \in Addr
    BY DEF Inv, InboxInv, Adds, Queued, Types
  <2>2. \A a \in Queued : a \notin InBatch
    BY DEF Inv, Holders
  <2> QED BY <1>1, <1>5, <2>1, <2>2 DEF Inv, InboxInv, Adds
<1>13. SetsAgree'
  <2>1. ASSUME NEW u \in active'
        PROVE  /\ objs'[u[1]] # Free /\ objs'[u[1]].seq = u[2]
               /\ Entry(u[1], objs'[u[1]]) \in heap'
    <3>1. CASE u \in active
      <4>1. /\ u[1] \in Addr /\ objs[u[1]] # Free /\ objs[u[1]].seq = u[2]
            /\ Entry(u[1], objs[u[1]]) \in heap
        BY <3>1 DEF Inv, SetsAgree, Types
      <4>2. u[1] \in Waiting
        BY <4>1 DEF Waiting, Entry
      <4>3. objs'[u[1]] = objs[u[1]]
        BY <1>5, <4>1, <4>2 DEF Inv, Holders
      <4> QED BY <1>1, <4>1, <4>3
    <3>2. ASSUME NEW a \in Restarted, u = <<a, objs[a].seq>>
          PROVE  /\ objs'[u[1]] # Free /\ objs'[u[1]].seq = u[2]
                 /\ Entry(u[1], objs'[u[1]]) \in heap'
      BY <1>1, <1>4, <1>5, <3>2
    <3> QED BY <1>1, <2>1, <3>1, <3>2
  <2>2. ASSUME NEW e \in heap'
        PROVE  /\ objs'[e[2]] # Free /\ e = Entry(e[2], objs'[e[2]])
               /\ <<e[2], objs'[e[2]].seq>> \in active'
    <3>1. CASE e \in heap
      <4>1. /\ e[2] \in Addr /\ objs[e[2]] # Free /\ e = Entry(e[2], objs[e[2]])
            /\ <<e[2], objs[e[2]].seq>> \in active /\ e[2] \in Waiting
        BY <3>1 DEF Inv, SetsAgree, Types, Waiting
      <4>2. objs'[e[2]] = objs[e[2]]
        BY <1>5, <4>1 DEF Inv, Holders
      <4> QED BY <1>1, <4>1, <4>2
    <3>2. ASSUME NEW a \in Restarted, e = Entry(a, Restart(a))
          PROVE  /\ objs'[e[2]] # Free /\ e = Entry(e[2], objs'[e[2]])
                 /\ <<e[2], objs'[e[2]].seq>> \in active'
      <4>1. e[2] = a
        BY <3>2 DEF Entry
      <4> QED BY <1>1, <1>4, <1>5, <3>2, <4>1
    <3> QED BY <1>1, <2>2, <3>1, <3>2
  <2> QED BY <2>1, <2>2 DEF SetsAgree
<1> QED BY <1>5, <1>7, <1>8, <1>9, <1>10, <1>11, <1>12, <1>13 DEF Inv

LEMMA DestroyKeeps ==
  ASSUME Inv, Destroy
  PROVE  Inv'
<1> USE DEF clocks, history
<1>1. /\ pc = "loop" /\ pc' = "gone" /\ heap' = {} /\ active' = {}
      /\ objs' = [a \in Addr |-> IF a \in Waiting THEN Free ELSE objs[a]]
      /\ UNCHANGED <<clocks, made, inbox, canceling, batch, pos, readAt, calling,
                     history, asked>>
  BY DEF Destroy, Waiting
<1>2. Types'
  BY <1>1 DEF Inv, Types
<1>3. Located' /\ BatchInv' /\ SetsAgree'
  BY <1>1 DEF Inv, Located, BatchInv, SetsAgree
<1>4. Queued' = Queued /\ Waiting' = {} /\ InBatch' = InBatch /\ InBatch = {}
  BY <1>1 DEF Inv, Types, Queued, Waiting, InBatch
<1>5. Holders'
  BY <1>1, <1>4 DEF Inv, Holders
<1>6. InboxInv'
  <2>1. \A i \in Adds : made[inbox[i].timer] \in Queued /\ made[inbox[i].timer] \in Addr
    BY DEF Inv, InboxInv, Adds, Queued, Types
  <2>2. \A a \in Queued : a \notin Waiting
    BY DEF Inv, Holders
  <2> QED BY <1>1, <2>1, <2>2 DEF Inv, InboxInv, Adds
<1> QED BY <1>2, <1>3, <1>5, <1>6 DEF Inv

LEMMA CancelElsewhereKeeps ==
  ASSUME Inv, IdInv, NEW s \in Seqs, CancelElsewhere(s)
  PROVE  Inv'
<1> DEFINE f == [op |-> "cancel", timer |-> s]
<1> USE DEF clocks, lists, reading, history
<1>1. /\ s \in DOMAIN made /\ asked' = asked \cup {s} /\ inbox' = Append(inbox, f)
      /\ UNCHANGED <<clocks, objs, made, lists, canceling, armed, reading, history>>
  BY DEF CancelElsewhere, Ask, IdInv
<1>2. f \in Functors /\ f.op = "cancel" /\ f.timer = s
  BY DEF Functors
<1>3. /\ Queued' = Queued
      /\ DOMAIN inbox' = DOMAIN inbox \cup {Len(inbox) + 1}
      /\ \A i \in DOMAIN inbox : inbox'[i] = inbox[i]
      /\ inbox'[Len(inbox) + 1] = f
      /\ inbox' \in Seq(Functors)
  <2>1. f.op # "add"
    BY <1>2
  <2> HIDE DEF f
  <2> QED BY <1>1, <1>2, <2>1, PutQueued DEF Inv
<1>4. Types'
  BY <1>1, <1>3 DEF Inv, Types
<1>5. Located' /\ BatchInv' /\ SetsAgree' /\ Holders'
  <2>1. Waiting' = Waiting /\ InBatch' = InBatch
    BY <1>1 DEF Waiting, InBatch
  <2>2. Holders'
    BY <1>1, <1>3, <2>1 DEF Inv, Holders
  <2> QED BY <1>1, <2>2 DEF Inv, Located, BatchInv, SetsAgree
<1>6. InboxInv'
  <2>1. Adds' = Adds
    BY <1>2, <1>3 DEF Adds
  <2>2. \A i \in Adds : inbox'[i] = inbox[i]
    BY <1>3 DEF Adds
  <2>3. /\ \A i \in DOMAIN inbox' : inbox'[i].timer \in DOMAIN made
        /\ \A i \in DOMAIN inbox' : inbox'[i].op = "cancel" => inbox'[i].timer \in asked'
    BY <1>1, <1>2, <1>3 DEF Inv, InboxInv
  <2>4. \A i \in Adds' : LET a == made'[inbox'[i].timer]
                         IN  objs'[a] # Free /\ objs'[a].seq = inbox'[i].timer
    BY <1>1, <2>1, <2>2 DEF Inv, InboxInv
  <2>5. \A i, j \in Adds' : inbox'[i].timer = inbox'[j].timer => i = j
    BY <2>1, <2>2 DEF Inv, InboxInv
  <2> QED BY <1>1, <2>3, <2>4, <2>5 DEF InboxInv
<1> QED BY <1>4, <1>5, <1>6 DEF Inv

\* Steps that leave the lists and the objects alone.
LEMMA QuietKeeps ==
  ASSUME Inv, Types', UNCHANGED <<objs, made, inbox, lists, batch, asked>>
  PROVE  Inv'
<1> USE DEF lists
<1>1. Queued' = Queued /\ Waiting' = Waiting /\ InBatch' = InBatch
  BY DEF Queued, Waiting, InBatch
<1>2. Holders'
  BY <1>1 DEF Inv, Holders
<1>3. InboxInv' /\ Located' /\ BatchInv' /\ SetsAgree'
  BY DEF Inv, InboxInv, Adds, Located, BatchInv, SetsAgree
<1> QED BY <1>2, <1>3 DEF Inv

LEMMA RunTimerKeeps ==
  ASSUME Inv, RunTimer
  PROVE  /\ Inv'
         /\ \A s \in Seqs : ran'[s] >= ran[s]
         /\ LET a == batch[pos][2]
            IN  a \in InBatch /\ objs[a] \in Object /\ objs[a].seq \in Seqs
                /\ ran'[objs[a].seq] > 0
<1> USE DEF clocks, lists
<1> DEFINE a == batch[pos][2]
<1>1. pos \in DOMAIN batch /\ a \in InBatch
  BY DEF Inv, Types, RunTimer, InBatch
<1>2. objs[a] \in Object /\ objs[a].seq \in Seqs
  BY <1>1, ObjectType DEF Inv, Holders, Types
<1>3. ran' = [ran EXCEPT ![objs[a].seq] = @ + 1]
  BY DEF RunTimer
<1> HIDE DEF a
<1>4. /\ ran' \in [Seqs -> Nat] /\ \A s \in Seqs : ran'[s] >= ran[s]
      /\ ran'[objs[a].seq] > 0
  <2>1. ran \in [Seqs -> Nat]
    BY DEF Inv, Types
  <2> DEFINE q == objs[a].seq
  <2>2. q \in Seqs /\ ran' = [ran EXCEPT ![q] = @ + 1]
    BY <1>2, <1>3
  <2> HIDE DEF q
  <2>3. ran' \in [Seqs -> Nat] /\ ran'[q] > 0 /\ \A s \in Seqs : ran'[s] >= ran[s]
    BY <2>1, <2>2
  <2> QED BY <2>3 DEF q
<1>5. Types'
  BY <1>4 DEF Inv, Types, RunTimer
<1>6. Inv'
  BY <1>5, QuietKeeps DEF RunTimer
<1> QED BY <1>1, <1>2, <1>4, <1>6 DEF a

LEMMA Starts == Init => Inv
<1> SUFFICES ASSUME Init PROVE Inv
  OBVIOUS
<1>1. /\ objs = [a \in Addr |-> Free] /\ made = <<>> /\ inbox = <<>> /\ heap = {} /\ active = {}
      /\ batch = <<>> /\ pos = 1 /\ canceling = {} /\ pc = "loop" /\ calling = FALSE
      /\ mono = 0 /\ skew = 0 /\ sets = 0 /\ readAt = 0 /\ asked = {}
      /\ ran = [s \in Seqs |-> 0]
  BY DEF Init
<1>2. Types
  <2>1. /\ made \in Seq(Addr) /\ inbox \in Seq(Functors) /\ batch \in Seq(Int \X Addr)
        /\ Len(made) = 0 /\ Len(batch) = 0
    BY <1>1
  <2>2. mono \in 0 .. MaxTime /\ sets \in 0 .. MaxSets /\ Len(made) <= MaxTimers
    BY <1>1, <2>1, Numbers
  <2>3. pos \in 1 .. Len(batch) + 1 /\ ran \in [Seqs -> Nat]
    BY <1>1, <2>1
  <2>4. objs \in [Addr -> Object \cup {Free}]
    BY <1>1
  <2>5. heap \subseteq Int \X Addr /\ active \subseteq Addr \X Seqs /\ canceling \subseteq Addr \X Seqs
    BY <1>1
  <2>6. asked \subseteq DOMAIN made /\ skew \in Int /\ readAt \in Int
    BY <1>1
  <2> QED BY <1>1, <2>1, <2>2, <2>3, <2>4, <2>5, <2>6 DEF Types
<1>3. Queued = {} /\ Waiting = {} /\ InBatch = {}
  BY <1>1 DEF Queued, Waiting, InBatch
<1>4. Holders
  BY <1>1, <1>3 DEF Holders
<1>5. Located /\ InboxInv /\ BatchInv /\ SetsAgree
  BY <1>1 DEF Located, InboxInv, Adds, BatchInv, SetsAgree
<1> QED BY <1>2, <1>4, <1>5 DEF Inv

\* The choices of a caller are Timer objects.
LEMMA ChoiceType ==
  ASSUME Inv, NEW t \in Choices
  PROVE  t \in Object
<1>1. wall \in Int /\ MaxTime \in Int
  BY Numbers DEF Inv, Types, wall
<1>2. wall .. MaxTime \subseteq Int /\ Intervals \subseteq Nat
  BY <1>1, TimerAssumption DEF TimerAssumption
<1> QED BY <1>2 DEF Choices, Object

LEMMA Stays == Inv /\ IdInv /\ [Next]_vars => Inv'
<1> SUFFICES ASSUME Inv, IdInv, [Next]_vars PROVE Inv'
  OBVIOUS
<1>1. CASE UNCHANGED vars
  <2>1. UNCHANGED <<clocks, objs, made, inbox, lists, canceling, reading, history, asked>>
    BY <1>1 DEF vars
  <2>2. Types'
    BY <2>1 DEF Inv, Types, clocks, lists, reading, history
  <2> QED BY <2>1, <2>2, QuietKeeps DEF reading
<1>2. CASE Tick \/ SetWallClock
  <2>1. UNCHANGED <<objs, made, inbox, lists, canceling, reading, history, asked>>
    BY <1>2 DEF Tick, SetWallClock
  <2>2. mono' \in 0 .. MaxTime /\ skew' \in Int /\ sets' \in 0 .. MaxSets
    <3>1. mono \in 0 .. MaxTime /\ skew \in Int /\ sets \in 0 .. MaxSets
      BY DEF Inv, Types
    <3>2. CASE Tick
      <4>1. mono < MaxTime /\ mono' = mono + 1 /\ UNCHANGED <<skew, sets>>
        BY <3>2 DEF Tick
      <4> QED BY <3>1, <4>1, Numbers
    <3>3. CASE SetWallClock
      <4>1. sets < MaxSets /\ sets' = sets + 1 /\ \E d \in {-1, 1} : skew' = skew + d
        BY <3>3 DEF SetWallClock
      <4>2. UNCHANGED mono
        BY <3>3 DEF SetWallClock
      <4> QED BY <3>1, <4>1, <4>2, Numbers
    <3> QED BY <1>2, <3>2, <3>3
  <2>3. Types'
    BY <2>1, <2>2 DEF Inv, Types, lists, reading, history
  <2> QED BY <2>1, <2>3, QuietKeeps DEF reading
<1>3. CASE AddElsewhere
  BY <1>3, AddElsewhereKeeps, ChoiceType DEF AddElsewhere
<1>4. CASE AddOnLoop
  BY <1>4, AddOnLoopKeeps, ChoiceType DEF AddOnLoop
<1>5. ASSUME NEW s \in Seqs, CancelElsewhere(s) PROVE Inv'
  BY <1>5, CancelElsewhereKeeps
<1>6. ASSUME NEW s \in Seqs, CancelOnLoop(s) PROVE Inv'
  <2>1. /\ id[s] # 0 /\ s \in DOMAIN made /\ cancel_in_loop(s) /\ pc \in {"loop", "callback"}
        /\ UNCHANGED <<clocks, timers, reading, ran>> /\ inbox' = inbox
        /\ asked' = asked \cup {s}
    BY <1>6 DEF CancelOnLoop, Ask, IdInv
  <2>2. s \in asked' /\ asked \subseteq asked' /\ asked' \subseteq DOMAIN made
    BY <2>1 DEF Inv, Types
  <2> QED BY <2>1, <2>2, CancelKeeps
<1>7. CASE RunAdd
  BY <1>7, RunAddKeeps
<1>8. CASE RunCancel
  <2>1. /\ Head(inbox).timer \in DOMAIN made /\ Head(inbox).timer \in asked
        /\ id[Head(inbox).timer] # 0
    BY <1>8, TakeQueued DEF RunCancel, Inv, InboxInv, IdInv
  <2>2. /\ cancel_in_loop(Head(inbox).timer) /\ pc \in {"loop", "callback"}
        /\ UNCHANGED <<clocks, timers, reading, ran, asked>>
        /\ inbox # <<>> /\ inbox' = Tail(inbox) /\ Head(inbox).op = "cancel"
    BY <1>8 DEF RunCancel
  <2>3. asked' \subseteq DOMAIN made
    BY <2>2 DEF Inv, Types
  <2> QED BY <2>1, <2>2, <2>3, CancelKeeps
<1>9. CASE HandleRead
  BY <1>9, HandleReadKeeps
<1>10. CASE RunTimer
  BY <1>10, RunTimerKeeps
<1>11. CASE CallbackReturns
  <2>1. Types'
    <3>1. pos + 1 \in 1 .. Len(batch) + 1
      BY <1>11 DEF Inv, Types, CallbackReturns
    <3> QED BY <1>11, <3>1 DEF Inv, Types, CallbackReturns, clocks, lists, history
  <2> QED BY <1>11, <2>1, QuietKeeps DEF CallbackReturns
<1>12. CASE Reset
  BY <1>12, ResetKeeps
<1>13. CASE Destroy
  BY <1>13, DestroyKeeps
<1>14. ASSUME NEW s \in Seqs, ReadSequence(s) PROVE Inv'
  <2>1. UNCHANGED <<clocks, objs, made, inbox, lists, canceling, reading, history, asked>>
    BY <1>14 DEF ReadSequence
  <2>2. Types'
    BY <2>1 DEF Inv, Types, clocks, lists, reading, history
  <2> QED BY <2>1, <2>2, QuietKeeps DEF reading
<1> QED
  BY <1>1, <1>2, <1>3, <1>4, <1>5, <1>6, <1>7, <1>8, <1>9, <1>10, <1>11, <1>12, <1>13, <1>14
     DEF Next, Caller, LoopStep

\* What a step does to made and id: a timer that was named stays so.
LEMMA IdKeeps ==
  ASSUME Inv, IdInv, [Next]_vars
  PROVE  /\ DOMAIN made \subseteq DOMAIN made'
         /\ \A s \in DOMAIN made : made'[s] = made[s]
         /\ id' \in [Seqs -> 0 .. MaxTimers]
         /\ \A s \in Seqs : id'[s] = id[s] \/ (id[s] = 0 /\ s \in DOMAIN made')
<1>1. CASE UNCHANGED <<made, id>>
  BY <1>1 DEF IdInv
<1>2. CASE AddElsewhere
  <2>1. PICK a \in Addr, t \in Object : New(a, t) /\ UNCHANGED id
    BY <1>2, ChoiceType DEF AddElsewhere
  <2>2. /\ DOMAIN made' = DOMAIN made \cup {t.seq}
        /\ \A s \in DOMAIN made : made'[s] = made[s]
    BY <2>1, NewTimer
  <2> QED BY <2>1, <2>2 DEF IdInv
<1>3. CASE AddOnLoop
  <2>1. PICK a \in Addr, t \in Object : New(a, t) /\ id' = [id EXCEPT ![t.seq] = t.seq]
    BY <1>3, ChoiceType DEF AddOnLoop
  <2>2. /\ t.seq \in Seqs /\ DOMAIN made' = DOMAIN made \cup {t.seq} /\ t.seq \notin DOMAIN made
        /\ \A s \in DOMAIN made : made'[s] = made[s]
    BY <2>1, NewTimer
  <2>3. id[t.seq] = 0 /\ t.seq \in 0 .. MaxTimers
    BY <2>2, Numbers DEF IdInv, Seqs
  <2> QED BY <2>1, <2>2, <2>3 DEF IdInv
<1>4. ASSUME NEW s \in Seqs, ReadSequence(s)
      PROVE  /\ UNCHANGED made /\ id' \in [Seqs -> 0 .. MaxTimers]
             /\ \A r \in Seqs : id'[r] = id[r] \/ (id[r] = 0 /\ r \in DOMAIN made')
  <2>1. PICK q \in IF objs[made[s]] = Free THEN Seqs ELSE {objs[made[s]].seq} :
          id' = [id EXCEPT ![s] = q]
    BY <1>4 DEF ReadSequence
  <2>2. s \in DOMAIN made /\ made[s] \in Addr /\ id[s] = 0 /\ UNCHANGED made
    BY <1>4 DEF ReadSequence, Inv, Types
  <2>3. q \in Seqs
    <3>1. CASE objs[made[s]] = Free
      BY <2>1, <3>1
    <3>2. CASE objs[made[s]] # Free
      <4>1. objs[made[s]] \in Object
        BY <2>2, <3>2 DEF Inv, Types
      <4> QED BY <2>1, <3>2, <4>1, ObjectType
    <3> QED BY <3>1, <3>2
  <2>4. q \in 0 .. MaxTimers
    BY <2>3, Numbers DEF Seqs
  <2> QED BY <2>1, <2>2, <2>4 DEF IdInv
<1> QED
  BY <1>1, <1>2, <1>3, <1>4
     DEF Next, Caller, LoopStep, vars, Tick, SetWallClock, CancelElsewhere, CancelOnLoop,
         RunAdd, RunCancel, HandleRead, RunTimer, CallbackReturns, Reset, Destroy

\* An object stays the timer's own until it is deleted, and none becomes it again.
LEMMA OwnStays ==
  ASSUME Inv, IdInv, [Next]_vars, NEW s \in DOMAIN made,
         objs'[made[s]] # Free, objs'[made[s]].seq = s
  PROVE  objs[made[s]] # Free /\ objs[made[s]].seq = s
<1>0. made[s] \in Addr
  BY DEF Inv, Types
<1>1. CASE objs'[made[s]] = objs[made[s]]
  BY <1>1
<1>2. CASE AddElsewhere \/ AddOnLoop
  <2>1. PICK a \in Addr, t \in Object : New(a, t)
    BY <1>2, ChoiceType DEF AddElsewhere, AddOnLoop
  <2>2. objs' = [objs EXCEPT ![a] = t] /\ t.seq \notin DOMAIN made
    BY <2>1, NewTimer
  <2>3. made[s] # a
    BY <2>2 DEF Inv, Types
  <2> QED BY <1>0, <1>1, <2>2, <2>3 DEF Inv, Types
<1>3. ASSUME NEW r, cancel_in_loop(r) PROVE objs[made[s]] # Free /\ objs[made[s]].seq = s
  BY <1>0, <1>3 DEF cancel_in_loop, drop, remember, Inv, Types
<1>4. CASE Reset
  BY <1>0, <1>4, ResetKeeps DEF Restarted, Inv, Holders
<1>5. CASE Destroy
  BY <1>0, <1>5 DEF Destroy
<1> QED
  BY <1>1, <1>2, <1>3, <1>4, <1>5
     DEF Next, Caller, LoopStep, vars, Tick, SetWallClock, CancelElsewhere, CancelOnLoop,
         ReadSequence, RunAdd, RunCancel, HandleRead, RunTimer, CallbackReturns

LEMMA IdStarts == Init => IdInv
<1> SUFFICES ASSUME Init PROVE IdInv
  OBVIOUS
<1>1. made = <<>> /\ asked = {} /\ id = [s \in Seqs |-> 0] /\ 0 \in 0 .. MaxTimers
  BY Numbers DEF Init
<1> QED BY <1>1 DEF IdInv

LEMMA IdStays == Inv /\ IdInv /\ [Next]_vars => IdInv'
<1> SUFFICES ASSUME Inv, IdInv, [Next]_vars PROVE IdInv'
  OBVIOUS
<1>1. /\ DOMAIN made \subseteq DOMAIN made' /\ \A s \in DOMAIN made : made'[s] = made[s]
      /\ id' \in [Seqs -> 0 .. MaxTimers]
      /\ \A s \in Seqs : id'[s] = id[s] \/ (id[s] = 0 /\ s \in DOMAIN made')
  BY IdKeeps
<1>2. \A s \in Seqs : id'[s] # 0 => s \in DOMAIN made'
  BY <1>1 DEF IdInv
<1>3. \A s \in asked' : id'[s] # 0
  <2>1. \A s \in asked' : s \in Seqs /\ id[s] # 0
    <3>1. \A s \in asked : s \in Seqs /\ id[s] # 0
      BY MadeSeqs DEF Inv, Types, IdInv
    <3>2. \A s \in asked' : s \in asked \/ (s \in Seqs /\ id[s] # 0)
      BY DEF Next, Caller, LoopStep, vars, Tick, SetWallClock, AddElsewhere, AddOnLoop,
             CancelElsewhere, CancelOnLoop, Ask, ReadSequence, RunAdd, RunCancel, HandleRead,
             RunTimer, CallbackReturns, Reset, Destroy
    <3> QED BY <3>1, <3>2
  <2> QED BY <1>1, <2>1
<1>a. DOMAIN made' \subseteq Seqs
  <2>1. Types'
    BY Stays DEF Inv
  <2>2. (Types => DOMAIN made \subseteq Seqs)'
    BY MadeSeqs, PTL
  <2> QED BY <2>1, <2>2
<1>4. ASSUME NEW s \in DOMAIN made', objs'[made'[s]] # Free, objs'[made'[s]].seq = s
      PROVE  id'[s] \in {0, s}
  <2>0. s \in Seqs
    BY <1>a
  <2>1. CASE s \in DOMAIN made
    <3>1. objs[made[s]] # Free /\ objs[made[s]].seq = s
      BY <1>1, <1>4, <2>1, OwnStays
    <3>2. CASE id'[s] = id[s]
      BY <2>1, <3>1, <3>2 DEF IdInv
    <3>3. CASE ReadSequence(s)
      BY <2>0, <3>1, <3>3 DEF ReadSequence, IdInv
    <3>4. ASSUME NEW r \in Seqs, ReadSequence(r), r # s PROVE id'[s] = id[s]
      BY <2>0, <3>4 DEF ReadSequence, IdInv
    <3>5. CASE AddOnLoop
      <4>1. PICK a \in Addr, t \in Object : New(a, t) /\ id' = [id EXCEPT ![t.seq] = t.seq]
        BY <3>5, ChoiceType DEF AddOnLoop
      <4>2. t.seq # s
        <5>1. t.seq \notin DOMAIN made
          BY <4>1, NewTimer
        <5> QED BY <2>1, <5>1
      <4> QED BY <2>0, <3>2, <4>1, <4>2 DEF IdInv
    <3> QED
      BY <3>2, <3>3, <3>4, <3>5
         DEF Next, Caller, LoopStep, vars, Tick, SetWallClock, AddElsewhere,
             CancelElsewhere, CancelOnLoop, RunAdd, RunCancel, HandleRead,
             RunTimer, CallbackReturns, Reset, Destroy
  <2>2. CASE s \notin DOMAIN made
    <3>1. id[s] = 0
      BY <2>0, <2>2 DEF IdInv
    <3>2. CASE AddOnLoop
      <4>1. PICK a \in Addr, t \in Object : New(a, t) /\ id' = [id EXCEPT ![t.seq] = t.seq]
        BY <3>2, ChoiceType DEF AddOnLoop
      <4>2. t.seq = s
        <5>1. DOMAIN made' = DOMAIN made \cup {t.seq}
          BY <4>1, NewTimer
        <5> QED BY <1>4, <2>2, <5>1
      <4> QED BY <2>0, <4>1, <4>2 DEF IdInv
    <3>3. CASE id'[s] = id[s]
      BY <3>1, <3>3
    <3>4. ASSUME NEW r \in Seqs, ReadSequence(r) PROVE id'[s] = id[s]
      <4>1. r # s
        BY <2>2, <3>4 DEF ReadSequence
      <4> QED BY <2>0, <3>4, <4>1 DEF ReadSequence, IdInv
    <3> QED
      BY <3>2, <3>3, <3>4
         DEF Next, Caller, LoopStep, vars, Tick, SetWallClock, AddElsewhere,
             CancelElsewhere, CancelOnLoop, RunAdd, RunCancel, HandleRead,
             RunTimer, CallbackReturns, Reset, Destroy
  <2> QED BY <2>1, <2>2
<1> QED BY <1>1, <1>2, <1>3, <1>4 DEF IdInv

LEMMA Always == Spec => [](Inv /\ IdInv)
BY Starts, Stays, IdStarts, IdStays, PTL DEF Spec

-----------------------------------------------------------------------------
\* SetsAgree: timers_ and active_timers_ always hold the same timers, each under
\* its own expiration and its own sequence number (timer_queue.cpp:218-219).
THEOREM Agreement == Spec => []SetsAgree
<1>1. Inv => SetsAgree
  BY DEF Inv
<1> QED BY <1>1, Always, PTL

\* OneHolder: whatever is added and cancelled, and from wherever, each Timer object
\* is held by exactly one of a functor, timers_ and the running batch, and deleted
\* once (timer_queue.cpp:76-83, 168, 196-216).
THEOREM Ownership == Spec => []OneHolder
<1>1. Inv => OneHolder
  <2> SUFFICES ASSUME Inv PROVE OneHolder
    OBVIOUS
  <2>1. Cardinality(InBatch) = Len(batch)
    <3> DEFINE f == [i \in 1 .. Len(batch) |-> batch[i][2]]
    <3>1. Len(batch) \in Nat /\ DOMAIN batch = 1 .. Len(batch)
      BY DEF Inv, Types
    <3>2. f \in Bijection(1 .. Len(batch), InBatch)
      BY <3>1 DEF Inv, BatchInv, InBatch, Bijection, Injection, Surjection, IsInjective
    <3>3. ExistsBijection(1 .. Len(batch), InBatch)
      BY <3>2 DEF ExistsBijection
    <3> QED BY <3>1, <3>3, FS_CountingElements
  <2> QED BY <2>1 DEF Inv, Holders, OneHolder
<1> QED BY <1>1, Always, PTL

-----------------------------------------------------------------------------
(* A timer stays until it has run: the timers of a batch that were passed    *)
(* have run, so reset() deletes no other.                                    *)
Passed == {i \in DOMAIN batch : i < pos \/ (i = pos /\ pc = "callback")}
HaveRun == \A i \in Passed : ran[objs[batch[i][2]].seq] > 0
StayInv == HaveRun /\ NobodyElsesTimer

\* Who was named stays named.
LEMMA NamedStays ==
  ASSUME Inv, IdInv, [Next]_vars, NEW s, Named(s)
  PROVE  Named(s)'
<1>1. s \in DOMAIN made /\ \E u \in asked : Timer_id(u) = Timer(s)
  BY DEF Named
<1>2. PICK u \in asked : <<made[u], id[u]>> = <<made[s], s>>
  BY <1>1 DEF Timer_id, Timer
<1>3. u \in DOMAIN made /\ u \in Seqs /\ id[u] # 0
  <2>1. u \in DOMAIN made /\ made \in Seq(Addr) /\ Len(made) <= MaxTimers
    BY DEF Inv, Types
  <2>2. id[u] # 0
    BY DEF IdInv
  <2> QED BY <2>1, <2>2, Numbers DEF Seqs
<1>4. s \in DOMAIN made' /\ made'[s] = made[s] /\ made'[u] = made[u] /\ id'[u] = id[u]
  BY <1>1, <1>3, IdKeeps
<1>5. u \in asked'
  BY DEF Next, Caller, LoopStep, vars, Tick, SetWallClock, AddElsewhere, AddOnLoop,
         CancelElsewhere, CancelOnLoop, Ask, ReadSequence, RunAdd, RunCancel, HandleRead,
         RunTimer, CallbackReturns, Reset, Destroy
<1> QED BY <1>2, <1>4, <1>5 DEF Named, Timer_id, Timer

\* What is left of StayInv for a step that moves no batch.
LEMMA StayKeeps ==
  ASSUME Inv, StayInv, UNCHANGED <<batch, pos, ran>>, pc' = pc \/ pc' = "gone",
         pc' = "callback" => pc = "callback", pc = "gone" => pc' = "gone",
         \A a \in InBatch : objs'[a] = objs[a],
         \A s : Named(s) => Named(s)', \A s \in DOMAIN made : made'[s] = made[s],
         \A s \in DOMAIN made :
           ~Named(s)' /\ pc' # "gone" => objs'[made[s]] = objs[made[s]],
         \A s \in DOMAIN made' \ DOMAIN made : objs'[made'[s]] # Free /\ objs'[made'[s]].seq = s
  PROVE  StayInv'
<1>1. HaveRun'
  <2>1. Passed' \subseteq Passed
    BY DEF Passed
  <2>2. \A i \in Passed : batch[i][2] \in InBatch
    BY DEF Passed, InBatch
  <2> QED BY <2>1, <2>2 DEF StayInv, HaveRun
<1>2. NobodyElsesTimer'
  <2> SUFFICES ASSUME NEW s \in DOMAIN made', ~Named(s)', ran[s] = 0, pc' # "gone"
               PROVE  objs'[made'[s]] # Free /\ objs'[made'[s]].seq = s
    BY DEF NobodyElsesTimer
  <2>1. CASE s \in DOMAIN made
    <3>1. objs[made[s]] # Free /\ objs[made[s]].seq = s
      BY <2>1 DEF StayInv, NobodyElsesTimer
    <3> QED BY <2>1, <3>1
  <2> QED BY <2>1
<1> QED BY <1>1, <1>2 DEF StayInv

LEMMA CancelStays ==
  ASSUME Inv, StayInv, NEW s \in DOMAIN made, cancel_in_loop(s),
         UNCHANGED <<timers, batch, pos, ran, pc>>, s \in asked', \A r : Named(r) => Named(r)'
  PROVE  StayInv'
<1>1. CASE UNCHANGED objs
  BY <1>1, StayKeeps
<1>2. CASE IsActive(s) /\ drop(s)
  <2>1. /\ \A a \in Addr : a # made[s] => objs'[a] = objs[a]
        /\ made[s] \in Waiting /\ objs[made[s]].seq = id[s] /\ objs[made[s]] # Free
        /\ id[s] \in DOMAIN made /\ made[id[s]] = made[s]
    BY <1>2, DropKeeps
  <2>2. \A a \in InBatch : a \in Addr /\ a # made[s]
    BY <2>1 DEF Inv, Holders
  <2>n. Named(id[s])'
    BY <2>1 DEF Named, Timer_id, Timer
  <2>3. ASSUME NEW r \in DOMAIN made, ~Named(r)', ran[r] = 0, pc # "gone"
        PROVE  objs'[made[r]] # Free /\ objs'[made[r]].seq = r
    <3>1. objs[made[r]] # Free /\ objs[made[r]].seq = r /\ made[r] \in Addr
      BY <2>3 DEF StayInv, NobodyElsesTimer, Inv, Types
    <3>2. made[r] # made[s]
      <4> SUFFICES ASSUME made[r] = made[s] PROVE FALSE
        OBVIOUS
      <4>1. r = id[s]
        BY <2>1, <3>1
      <4>2. id[s]' = id[s]
        OBVIOUS
      <4> QED BY <2>n, <2>3, <4>1, <4>2 DEF Named, Timer_id, Timer
    <3> QED BY <2>1, <2>3, <3>1, <3>2
  <2>4. NobodyElsesTimer'
    BY <2>3 DEF NobodyElsesTimer
  <2>5. Passed' = Passed /\ \A i \in Passed : batch[i][2] \in InBatch
    BY DEF Passed, InBatch
  <2>6. HaveRun'
    BY <2>1, <2>2, <2>5 DEF StayInv, HaveRun
  <2> QED BY <2>4, <2>6 DEF StayInv
<1> QED BY <1>1, <1>2 DEF cancel_in_loop, remember

LEMMA NewStays ==
  ASSUME Inv, StayInv, NEW a \in Addr, NEW t \in Object, New(a, t), pc # "gone",
         \A s : Named(s) => Named(s)', UNCHANGED <<reading, history>>
  PROVE  StayInv'
<1>1. /\ a \notin InBatch /\ t # Free /\ objs[a] = Free /\ objs' = [objs EXCEPT ![a] = t]
      /\ DOMAIN made' = DOMAIN made \cup {t.seq} /\ t.seq \notin DOMAIN made
      /\ made'[t.seq] = a /\ \A s \in DOMAIN made : made'[s] = made[s]
  BY NewTimer
<1>2. \A b \in InBatch : b \in Addr /\ objs'[b] = objs[b]
  BY <1>1 DEF Inv, Holders, Types
<1>3. ASSUME NEW s \in DOMAIN made', ~Named(s)', ran[s] = 0
      PROVE  objs'[made'[s]] # Free /\ objs'[made'[s]].seq = s
  <2>1. CASE s \in DOMAIN made
    <3>1. objs[made[s]] # Free /\ objs[made[s]].seq = s /\ made[s] \in Addr
      BY <1>3, <2>1 DEF StayInv, NobodyElsesTimer, Inv, Types
    <3> QED BY <1>1, <2>1, <3>1
  <2>2. CASE s = t.seq
    BY <1>1, <2>2 DEF Inv, Types
  <2> QED BY <1>1, <1>3, <2>1, <2>2
<1>4. NobodyElsesTimer'
  BY <1>3 DEF NobodyElsesTimer, history
<1>5. Passed' = Passed /\ \A i \in Passed : batch[i][2] \in InBatch
  BY DEF Passed, InBatch, reading
<1>6. HaveRun'
  BY <1>2, <1>5 DEF StayInv, HaveRun, reading, history
<1> QED BY <1>4, <1>6 DEF StayInv

LEMMA ResetStays ==
  ASSUME Inv, StayInv, Reset
  PROVE  StayInv'
<1>1. /\ InBatch' = {} /\ \A a \in Addr \ InBatch : objs'[a] = objs[a]
      /\ Inv' /\ \A a \in Restarted : objs'[a].seq = objs[a].seq /\ objs'[a] = Restart(a)
  BY ResetKeeps
<1>2. /\ batch' = <<>> /\ pc = "run" /\ pos > Len(batch) /\ pc' = "loop"
      /\ UNCHANGED <<timers, ran, asked>>
  BY DEF Reset, history
<1>3. HaveRun'
  BY <1>2 DEF HaveRun, Passed
<1>4. \A a \in InBatch : ran[objs[a].seq] > 0
  <2>1. \A i \in DOMAIN batch : i < pos
    BY <1>2 DEF Inv, Types
  <2> QED BY <2>1 DEF StayInv, HaveRun, Passed, InBatch
<1>5. ASSUME NEW s \in DOMAIN made, ~Named(s), ran[s] = 0
      PROVE  objs'[made[s]] # Free /\ objs'[made[s]].seq = s
  <2>1. objs[made[s]] # Free /\ objs[made[s]].seq = s /\ made[s] \in Addr
    BY <1>2, <1>5 DEF StayInv, NobodyElsesTimer, Inv, Types
  <2>2. made[s] \notin InBatch
    BY <1>4, <1>5, <2>1
  <2> QED BY <1>1, <2>1, <2>2
<1>6. NobodyElsesTimer'
  BY <1>2, <1>5 DEF NobodyElsesTimer, Named, Timer_id, Timer
<1> QED BY <1>3, <1>6 DEF StayInv

LEMMA StaysStarts == Init => StayInv
<1> SUFFICES ASSUME Init PROVE StayInv
  OBVIOUS
<1>1. batch = <<>> /\ made = <<>>
  BY DEF Init
<1> QED BY <1>1 DEF StayInv, HaveRun, Passed, NobodyElsesTimer

LEMMA StaysUntilRun == Inv /\ IdInv /\ StayInv /\ [Next]_vars => StayInv'
<1> SUFFICES ASSUME Inv, IdInv, StayInv, [Next]_vars PROVE StayInv'
  OBVIOUS
<1>n. \A s : Named(s) => Named(s)'
  BY NamedStays
<1>1. CASE \/ UNCHANGED vars \/ Tick \/ SetWallClock \/ RunAdd
           \/ \E s \in Seqs : ReadSequence(s)
  <2>1. UNCHANGED <<objs, made, reading, ran>>
    BY <1>1 DEF vars, Tick, SetWallClock, RunAdd, ReadSequence, reading, history
  <2> QED BY <1>n, <2>1 DEF StayInv, HaveRun, Passed, NobodyElsesTimer, reading
<1>2. CASE AddElsewhere
  BY <1>2, <1>n, NewStays, ChoiceType DEF AddElsewhere
<1>3. CASE AddOnLoop
  BY <1>3, <1>n, NewStays, ChoiceType DEF AddOnLoop
<1>4. ASSUME NEW s \in Seqs, CancelElsewhere(s) PROVE StayInv'
  <2>1. UNCHANGED <<objs, made, batch, pos, pc, ran>>
    BY <1>4 DEF CancelElsewhere, Ask, reading, history
  <2> QED BY <1>n, <2>1, StayKeeps
<1>5. ASSUME NEW s \in Seqs, CancelOnLoop(s) PROVE StayInv'
  BY <1>5, <1>n, CancelStays DEF CancelOnLoop, Ask, IdInv, reading
<1>6. CASE RunCancel
  <2>1. Head(inbox).timer \in DOMAIN made /\ Head(inbox).timer \in asked
    BY <1>6, TakeQueued DEF RunCancel, Inv, InboxInv
  <2>2. cancel_in_loop(Head(inbox).timer) /\ UNCHANGED <<timers, batch, pos, ran, pc, asked>>
    BY <1>6 DEF RunCancel, reading
  <2> QED BY <1>n, <2>1, <2>2, CancelStays
<1>7. CASE HandleRead
  <2>1. pos' = 1 /\ pc' = "run" /\ pc = "loop" /\ UNCHANGED <<objs, made, ran>>
    BY <1>7 DEF HandleRead, history
  <2>2. batch' \in Seq(Int \X Addr)
    BY <1>7, HandleReadKeeps DEF Inv, Types
  <2>3. Passed' = {}
    BY <2>1, <2>2 DEF Passed
  <2> QED BY <1>n, <2>1, <2>3 DEF StayInv, HaveRun, NobodyElsesTimer
<1>8. CASE RunTimer
  <2>1. /\ pc = "run" /\ pc' = "callback" /\ UNCHANGED <<objs, made, batch, pos>>
    BY <1>8 DEF RunTimer
  <2>2. /\ \A s \in Seqs : ran'[s] >= ran[s] /\ ran[s] \in Nat /\ ran'[s] \in Nat
        /\ ran'[objs[batch[pos][2]].seq] > 0
    BY <1>8, RunTimerKeeps DEF Inv, Types
  <2>3. \A i \in DOMAIN batch : objs[batch[i][2]].seq \in Seqs
    <3>1. \A a \in InBatch : objs[a] \in Object
      BY DEF Inv, Holders, Types
    <3> QED BY <3>1, ObjectType DEF InBatch
  <2>4. Passed' \subseteq Passed \cup {pos}
    BY <2>1 DEF Passed
  <2>5. HaveRun'
    <3> SUFFICES ASSUME NEW i \in Passed' PROVE ran'[objs[batch[i][2]].seq] > 0
      BY <2>1 DEF HaveRun
    <3>1. CASE i = pos
      BY <2>2, <3>1
    <3>2. CASE i \in Passed
      <4>1. ran[objs[batch[i][2]].seq] > 0 /\ objs[batch[i][2]].seq \in Seqs
        BY <2>3, <3>2 DEF StayInv, HaveRun, Passed
      <4> QED BY <2>2, <4>1
    <3> QED BY <2>4, <3>1, <3>2
  <2>6. \A s \in DOMAIN made : ran'[s] = 0 => ran[s] = 0
    <3>1. \A s \in DOMAIN made : s \in Seqs
      BY Numbers DEF Inv, Types, Seqs
    <3> QED BY <2>2, <3>1
  <2> QED BY <1>n, <2>1, <2>5, <2>6 DEF StayInv, NobodyElsesTimer
<1>9. CASE CallbackReturns
  <2>1. /\ pc = "callback" /\ pc' = "run" /\ pos' = pos + 1
        /\ UNCHANGED <<objs, made, batch, ran>>
    BY <1>9 DEF CallbackReturns, history
  <2>2. Passed' = Passed
    BY <2>1 DEF Passed, Inv, Types
  <2> QED BY <1>n, <2>1, <2>2 DEF StayInv, HaveRun, NobodyElsesTimer
<1>10. CASE Reset
  BY <1>10, ResetStays
<1>11. CASE Destroy
  <2>1. pc' = "gone" /\ batch' = batch /\ batch = <<>>
    BY <1>11 DEF Destroy, Inv, Types
  <2> QED BY <2>1 DEF StayInv, HaveRun, Passed, NobodyElsesTimer
<1> QED
  BY <1>1, <1>2, <1>3, <1>4, <1>5, <1>6, <1>7, <1>8, <1>9, <1>10, <1>11
     DEF Next, Caller, LoopStep

\* NobodyElsesTimer: a timer that no cancel() named keeps its object until it has run,
\* however addresses are reused and other timers cancelled (timer_queue.cpp:196-216).
THEOREM TimersKept == Spec => []NobodyElsesTimer
<1>1. StayInv => NobodyElsesTimer
  BY DEF StayInv
<1> QED BY <1>1, StaysStarts, StaysUntilRun, Always, PTL DEF Spec

-----------------------------------------------------------------------------
(* A cancelled timer: its functor has run, it is in neither set, and if its  *)
(* object is still there its batch is running and reset() will find it among *)
(* the cancelled.                                                            *)
Gone(s) ==
  /\ Timer(s) \notin active /\ Known(s)
  /\ objs[made[s]] # Free /\ objs[made[s]].seq = s =>
       made[s] \in InBatch /\ Timer(s) \in canceling
CancelInv == cancelled \subseteq asked /\ \A s \in cancelled : Gone(s)

\* What cancels no timer and starts no batch.
LEMMA GoneKeeps ==
  ASSUME Inv, CancelInv, UNCHANGED <<cancelled, batch>>, asked \subseteq asked',
         canceling \subseteq canceling',
         \A s \in cancelled :
           /\ made'[s] = made[s]
           /\ Timer(s) \in active' => Timer(s) \in active
           /\ Known(s) => Known(s)'
           /\ objs'[made[s]] # Free /\ objs'[made[s]].seq = s => objs'[made[s]] = objs[made[s]]
  PROVE  CancelInv'
<1>1. InBatch' = InBatch
  BY DEF InBatch
<1>2. ASSUME NEW s \in cancelled PROVE Gone(s)'
  <2>1. Gone(s)
    BY DEF CancelInv
  <2>2. Timer(s)' = Timer(s)
    BY <1>2 DEF Timer
  <2>3. Timer(s)' \notin active' /\ Known(s)'
    BY <1>2, <2>1, <2>2 DEF Gone
  <2>4. objs'[made'[s]] # Free /\ objs'[made'[s]].seq = s =>
          made'[s] \in InBatch' /\ Timer(s)' \in canceling'
    BY <1>1, <1>2, <2>1, <2>2 DEF Gone
  <2> QED BY <2>3, <2>4 DEF Gone
<1> QED BY <1>2 DEF CancelInv

\* A functor at the end, or the first taken away.
LEMMA KnownStays ==
  ASSUME Types, InboxInv, NEW s,
         \/ inbox' = inbox
         \/ inbox # <<>> /\ inbox' = Tail(inbox)
         \/ \E f \in Functors : inbox' = Append(inbox, f) /\ f # [op |-> "add", timer |-> s],
         Known(s)
  PROVE  Known(s)'
<1>1. CASE inbox' = inbox
  BY <1>1 DEF Known
<1>2. CASE inbox # <<>> /\ inbox' = Tail(inbox)
  <2>1. \A i \in DOMAIN inbox' : i + 1 \in DOMAIN inbox /\ inbox'[i] = inbox[i + 1]
    BY <1>2 DEF Types
  <2> QED BY <2>1 DEF Known
<1>3. ASSUME NEW f \in Functors, inbox' = Append(inbox, f), f # [op |-> "add", timer |-> s]
      PROVE  Known(s)'
  <2>1. \A i \in DOMAIN inbox' : inbox'[i] = f \/ (i \in DOMAIN inbox /\ inbox'[i] = inbox[i])
    BY <1>3 DEF Types
  <2> QED BY <1>3, <2>1 DEF Known
<1> QED BY <1>1, <1>2, <1>3

\* An object with its functor run is in the set, or in a batch.
LEMMA KnownElsewhere ==
  ASSUME Inv, NEW s \in DOMAIN made, Known(s), Timer(s) \notin active,
         objs[made[s]] # Free, objs[made[s]].seq = s
  PROVE  made[s] \in InBatch /\ calling
<1>1. made[s] \in Addr
  BY DEF Inv, Types
<1>2. made[s] \notin Waiting
  <2> SUFFICES ASSUME NEW e \in heap, e[2] = made[s] PROVE FALSE
    BY DEF Waiting
  <2> QED BY DEF Inv, SetsAgree, Timer
<1>3. made[s] \notin Queued
  <2> SUFFICES ASSUME NEW i \in DOMAIN inbox, inbox[i].op = "add", made[inbox[i].timer] = made[s]
               PROVE  FALSE
    BY DEF Queued
  <2>1. inbox[i].timer = s
    BY DEF Inv, InboxInv, Adds
  <2>2. inbox[i] \in Functors
    BY DEF Inv, Types
  <2>3. inbox[i] = [op |-> "add", timer |-> s]
    BY <2>1, <2>2 DEF Functors
  <2> QED BY <2>3 DEF Known
<1>4. made[s] \in InBatch
  BY <1>1, <1>2, <1>3 DEF Inv, Holders
<1>5. calling
  BY <1>4 DEF InBatch, Inv, Types
<1> QED BY <1>4, <1>5

\* The Timer_id of a timer whose object is still there is its own.
LEMMA OwnId ==
  ASSUME Inv, IdInv, NEW s \in DOMAIN made, id[s] # 0,
         objs[made[s]] # Free /\ objs[made[s]].seq = s
  PROVE  Timer_id(s) = Timer(s)
BY DEF IdInv, Timer_id, Timer

LEMMA CancelDone ==
  ASSUME Inv, IdInv, CancelInv, NEW s \in DOMAIN made, id[s] # 0, cancel_in_loop(s),
         UNCHANGED <<timers, batch>>, asked \subseteq asked', s \in asked',
         inbox' = inbox \/ (inbox # <<>> /\ inbox' = Tail(inbox))
  PROVE  CancelInv'
<1>1. \A r : Known(r) => Known(r)'
  BY KnownStays DEF Inv
<1>2. /\ canceling \subseteq canceling' /\ active' \subseteq active /\ InBatch' = InBatch
      /\ \A r : Timer(r)' = Timer(r)
  BY DEF cancel_in_loop, drop, remember, lists, InBatch, Timer
<1>3. \A r \in DOMAIN made : objs'[made[r]] # Free => objs'[made[r]] = objs[made[r]]
  BY DEF cancel_in_loop, drop, remember, lists, Inv, Types
<1>4. \A r \in cancelled : r \in DOMAIN made
  BY DEF CancelInv, Inv, Types
<1>5. ASSUME NEW r \in cancelled PROVE Gone(r)'
  <2>1. Gone(r) /\ r \in DOMAIN made
    BY <1>4, <1>5 DEF CancelInv
  <2>2. Timer(r)' \notin active' /\ Known(r)'
    BY <1>1, <1>2, <2>1 DEF Gone
  <2> QED BY <1>2, <1>3, <2>1, <2>2 DEF Gone
<1>6. ASSUME Known(s) PROVE Gone(s)'
  <2>1. Known(s)'
    BY <1>1, <1>6
  <2>a. Timer(s) \in active => Timer_id(s) = Timer(s)
    <3>1. Timer(s) \in active => objs[made[s]] # Free /\ objs[made[s]].seq = s
      BY DEF Inv, SetsAgree, Timer
    <3> QED BY <3>1, OwnId
  <2>2. CASE IsActive(s) /\ drop(s)
    <3>1. objs'[made[s]] = Free
      BY <2>2, DropKeeps
    <3>2. Timer(s)' \notin active'
      BY <1>2, <2>2, <2>a DEF drop
    <3> QED BY <2>1, <3>1, <3>2 DEF Gone
  <2>3. CASE ~IsActive(s) /\ remember(s)
    <3>0. Timer(s) \notin active
      BY <2>3, <2>a DEF IsActive
    <3>1. Timer(s)' \notin active'
      BY <1>2, <3>0
    <3>2. ASSUME objs'[made'[s]] # Free, objs'[made'[s]].seq = s
          PROVE  made'[s] \in InBatch' /\ Timer(s)' \in canceling'
      <4>1. objs[made[s]] # Free /\ objs[made[s]].seq = s
        BY <2>3, <3>2 DEF remember
      <4>2. made[s] \in InBatch /\ calling
        BY <1>6, <3>0, <4>1, KnownElsewhere
      <4>3. Timer_id(s) \in canceling'
        BY <2>3, <4>2 DEF remember
      <4>4. Timer_id(s) = Timer(s)
        BY <4>1, OwnId
      <4> QED BY <1>2, <4>2, <4>3, <4>4
    <3> QED BY <2>1, <3>1, <3>2 DEF Gone
  <2> QED BY <2>2, <2>3 DEF cancel_in_loop
<1>7. cancelled' = IF Known(s) THEN cancelled \cup {s} ELSE cancelled
  BY DEF cancel_in_loop
<1> QED BY <1>5, <1>6, <1>7 DEF CancelInv

LEMMA CancelReset ==
  ASSUME Inv, CancelInv, Reset
  PROVE  CancelInv'
<1>1. /\ \A a \in Addr \ InBatch : objs'[a] = objs[a]
      /\ \A a \in InBatch \ Restarted : objs'[a] = Free
      /\ \A a \in Restarted : objs'[a].seq = objs[a].seq
  BY ResetKeeps
<1>2. /\ UNCHANGED <<made, inbox, canceling, cancelled, asked>>
      /\ active' = active \cup {<<a, objs[a].seq>> : a \in Restarted}
  BY DEF Reset, history
<1>3. \A a \in Restarted : <<a, objs[a].seq>> \notin canceling /\ a \in InBatch
                           /\ objs[a] # Free
  BY DEF Restarted, Inv, Holders
<1>4. ASSUME NEW s \in cancelled PROVE Gone(s)'
  <2>1. Gone(s) /\ s \in DOMAIN made /\ made[s] \in Addr
    BY <1>4 DEF CancelInv, Inv, Types
  <2>2. ~(objs'[made[s]] # Free /\ objs'[made[s]].seq = s)
    BY <1>1, <1>3, <2>1 DEF Gone, Timer
  <2>3. ASSUME NEW a \in Restarted, Timer(s) = <<a, objs[a].seq>> PROVE FALSE
    <3>1. made[s] = a /\ s = objs[a].seq
      BY <2>3 DEF Timer
    <3> QED BY <1>3, <2>1, <3>1 DEF Gone, Timer
  <2>4. Timer(s)' \notin active'
    BY <1>2, <2>1, <2>3 DEF Gone, Timer
  <2> QED BY <1>2, <2>1, <2>2, <2>4 DEF Gone, Known
<1> QED BY <1>2, <1>4 DEF CancelInv

LEMMA CancelStarts == Init => CancelInv
BY DEF Init, CancelInv

LEMMA CancelHolds == Inv /\ IdInv /\ CancelInv /\ [Next]_vars => CancelInv'
<1> SUFFICES ASSUME Inv, IdInv, CancelInv, [Next]_vars PROVE CancelInv'
  OBVIOUS
<1>a. \A s \in cancelled : s \in DOMAIN made /\ made[s] \in Addr
  BY DEF CancelInv, Inv, Types
<1>1. CASE \/ UNCHANGED vars \/ Tick \/ SetWallClock \/ RunTimer \/ CallbackReturns
           \/ \E s \in Seqs : ReadSequence(s)
  <2>1. UNCHANGED <<objs, made, inbox, active, batch, canceling, asked, cancelled>>
    BY <1>1 DEF vars, Tick, SetWallClock, RunTimer, CallbackReturns, ReadSequence, lists,
                reading, history
  <2> QED BY <2>1, GoneKeeps DEF Known, Timer
<1>2. CASE AddElsewhere
  <2>1. PICK a \in Addr, t \in Object :
          New(a, t) /\ inbox' = Append(inbox, [op |-> "add", timer |-> t.seq])
    BY <1>2, ChoiceType DEF AddElsewhere
  <2>2. UNCHANGED <<active, batch, canceling, asked, cancelled>>
    BY <1>2 DEF AddElsewhere, lists, reading, history
  <2>3. /\ t.seq \notin DOMAIN made /\ objs' = [objs EXCEPT ![a] = t] /\ t.seq \in Seqs
        /\ \A s \in DOMAIN made : made'[s] = made[s]
    BY <2>1, NewTimer
  <2>4. \A s \in DOMAIN made : Known(s) => Known(s)'
    <3> SUFFICES ASSUME NEW s \in DOMAIN made, Known(s) PROVE Known(s)'
      OBVIOUS
    <3>1. [op |-> "add", timer |-> t.seq] \in Functors
      BY <2>3 DEF Functors
    <3>2. [op |-> "add", timer |-> t.seq] # [op |-> "add", timer |-> s]
      BY <2>3
    <3> QED BY <2>1, <3>1, <3>2, KnownStays DEF Inv
  <2>5. \A s \in cancelled : objs'[made[s]] # Free /\ objs'[made[s]].seq = s =>
                             objs'[made[s]] = objs[made[s]]
    BY <1>a, <2>3 DEF Inv, Types
  <2> QED BY <1>a, <2>2, <2>3, <2>4, <2>5, GoneKeeps
<1>3. CASE AddOnLoop
  <2>1. PICK a \in Addr, t \in Object : New(a, t) /\ insert(a, t)
    BY <1>3, ChoiceType DEF AddOnLoop
  <2>2. UNCHANGED <<inbox, batch, canceling, asked, cancelled>>
    BY <1>3 DEF AddOnLoop, reading, history
  <2>3. /\ t.seq \notin DOMAIN made /\ objs' = [objs EXCEPT ![a] = t]
        /\ \A s \in DOMAIN made : made'[s] = made[s]
    BY <2>1, NewTimer
  <2>4. \A s \in cancelled : Timer(s) \in active' => Timer(s) \in active
    BY <1>a, <2>1, <2>3 DEF insert, Timer
  <2>5. \A s \in cancelled : objs'[made[s]] # Free /\ objs'[made[s]].seq = s =>
                             objs'[made[s]] = objs[made[s]]
    BY <1>a, <2>3 DEF Inv, Types
  <2>6. \A s : Known(s) => Known(s)'
    BY <2>2 DEF Known
  <2> QED BY <1>a, <2>2, <2>3, <2>4, <2>5, <2>6, GoneKeeps
<1>4. ASSUME NEW s \in Seqs, CancelElsewhere(s) PROVE CancelInv'
  <2>1. /\ UNCHANGED <<objs, made, active, batch, canceling, cancelled>> /\ asked \subseteq asked'
        /\ inbox' = Append(inbox, [op |-> "cancel", timer |-> s])
    BY <1>4 DEF CancelElsewhere, Ask, lists, reading, history
  <2>2. \A r : Known(r) => Known(r)'
    <3>1. [op |-> "cancel", timer |-> s] \in Functors
      BY DEF Functors
    <3>2. \A r : [op |-> "cancel", timer |-> s] # [op |-> "add", timer |-> r]
      <4> SUFFICES ASSUME NEW r, [op |-> "cancel", timer |-> s] = [op |-> "add", timer |-> r]
                   PROVE  FALSE
        OBVIOUS
      <4>1. [op |-> "cancel", timer |-> s].op = [op |-> "add", timer |-> r].op
        OBVIOUS
      <4> QED BY <4>1
    <3> QED BY <2>1, <3>1, <3>2, KnownStays DEF Inv
  <2> QED BY <2>1, <2>2, GoneKeeps
<1>5. ASSUME NEW s \in Seqs, CancelOnLoop(s) PROVE CancelInv'
  BY <1>5, CancelDone DEF CancelOnLoop, Ask, IdInv, reading
<1>6. CASE RunCancel
  <2>1. /\ Head(inbox).timer \in DOMAIN made /\ Head(inbox).timer \in asked
        /\ id[Head(inbox).timer] # 0
    BY <1>6, TakeQueued DEF RunCancel, Inv, InboxInv, IdInv
  <2>2. /\ cancel_in_loop(Head(inbox).timer) /\ UNCHANGED <<timers, batch, asked>>
        /\ inbox # <<>> /\ inbox' = Tail(inbox)
    BY <1>6 DEF RunCancel, reading
  <2> QED BY <2>1, <2>2, CancelDone
<1>7. CASE RunAdd
  <2> DEFINE h == Head(inbox)
  <2>1. /\ UNCHANGED <<objs, made, batch, canceling, asked, cancelled>>
        /\ active' = active \cup {<<made[h.timer], objs[made[h.timer]].seq>>}
        /\ inbox # <<>> /\ inbox' = Tail(inbox) /\ h.op = "add"
    BY <1>7 DEF RunAdd, insert, reading, history
  <2>2. h = inbox[1] /\ 1 \in Adds
    BY <2>1, TakeQueued DEF Adds, Inv
  <2>3. objs[made[h.timer]].seq = h.timer /\ h \in Functors
    <3>1. objs[made[inbox[1].timer]].seq = inbox[1].timer
      BY <2>2 DEF Inv, InboxInv
    <3>2. h \in Functors
      BY <2>1, TakeQueued DEF Inv
    <3> QED BY <2>2, <3>1, <3>2
  <2>4. ASSUME NEW s \in cancelled PROVE Timer(s) \in active' => Timer(s) \in active
    <3>1. s # h.timer
      <4> SUFFICES ASSUME s = h.timer PROVE FALSE
        OBVIOUS
      <4>1. h = [op |-> "add", timer |-> s]
        BY <2>1, <2>3 DEF Functors
      <4> QED BY <2>2, <2>4, <4>1 DEF CancelInv, Gone, Known, Adds
    <3> QED BY <2>1, <2>3, <3>1 DEF Timer
  <2>5. \A r : Known(r) => Known(r)'
    BY <2>1, KnownStays DEF Inv
  <2> QED BY <2>1, <2>4, <2>5, GoneKeeps
<1>8. CASE HandleRead
  <2>1. /\ pc = "loop" /\ UNCHANGED <<objs, made, inbox, asked, cancelled>> /\ active' \subseteq active
    BY <1>8 DEF HandleRead, get_expired, history
  <2>2. InBatch = {}
    BY <2>1 DEF Inv, Types, InBatch
  <2>3. \A s \in cancelled : Gone(s)'
    BY <2>1, <2>2 DEF CancelInv, Gone, Known, Timer
  <2> QED BY <2>1, <2>3 DEF CancelInv
<1>9. CASE Reset
  BY <1>9, CancelReset
<1>10. CASE Destroy
  <2>1. /\ UNCHANGED <<made, inbox, batch, canceling, asked, cancelled>> /\ active' = {}
        /\ \A a \in Addr : objs'[a] = objs[a] \/ objs'[a] = Free
    BY <1>10 DEF Destroy, history
  <2> QED BY <1>a, <2>1, GoneKeeps DEF Known
<1> QED
  BY <1>1, <1>2, <1>3, <1>4, <1>5, <1>6, <1>7, <1>8, <1>9, <1>10
     DEF Next, Caller, LoopStep

\* CancelledNeverWaits: a timer the queue knew when it handled the cancellation is
\* never put back, whether it waited or its batch was running (timer_queue.cpp:119-139,
\* 196-216).
THEOREM CancelledGone == Spec => []CancelledNeverWaits
<1>1. Inv /\ CancelInv => CancelledNeverWaits
  BY DEF CancelInv, Gone, CancelledNeverWaits, Inv, Types, InBatch
<1> QED BY <1>1, CancelStarts, CancelHolds, Always, PTL DEF Spec

-----------------------------------------------------------------------------
(* The alarm: armed for no later than what waits, or due already.            *)
InTime == armed <= mono \/ \A e \in heap : armed <= e[1]
AlarmInv ==
  /\ armed \in Nat \cup {-1}
  /\ sets = 0 => skew = 0
  /\ pc = "loop" /\ heap # {} => armed # -1 /\ (sets = 0 => InTime)

LEMMA DeadlineType ==
  ASSUME Types, NEW when \in Int
  PROVE  /\ Deadline(when) \in Nat
         /\ skew = 0 => Deadline(when) <= mono \/ Deadline(when) <= when
BY Numbers DEF Types, Deadline, wall

LEMMA EarliestIs ==
  ASSUME NEW E, E \subseteq Int \X Addr, IsFiniteSet(E), E # {}
  PROVE  /\ Earliest(E) \in Int /\ \A e \in E : Earliest(E) <= e[1]
         /\ \E e \in E : Earliest(E) = e[1]
<1> DEFINE T == {e[1] : e \in E}
           f == [e \in E |-> e[1]]
<1>1. T \subseteq Int /\ T # {}
  OBVIOUS
<1>2. IsFiniteSet(T)
  <2>1. f \in Surjection(E, T)
    BY DEF Surjection
  <2> HIDE DEF f, T
  <2> QED BY <2>1, FS_Surjection
<1>3. \E x \in T : \A y \in T : x <= y
  <2> HIDE DEF T
  <2> QED BY <1>1, <1>2, LeastExists
<1>4. \E x \in T : \A e \in E : x <= e[1]
  BY <1>3
<1>5. Earliest(E) \in T /\ \A e \in E : Earliest(E) <= e[1]
  BY <1>4 DEF Earliest
<1> QED BY <1>1, <1>5

LEMMA HeapFiniteNext == Inv' => IsFiniteSet(heap)'
<1>1. Inv => IsFiniteSet(heap)
  BY HeapFinite
<1> QED BY <1>1, PTL

\* The functor in front finds the Timer object it adds.
LEMMA AddsObject ==
  ASSUME Inv, RunAdd
  PROVE  objs[made[Head(inbox).timer]] \in Object
<1>1. Head(inbox) = inbox[1] /\ 1 \in DOMAIN inbox /\ inbox[1].op = "add"
  BY TakeQueued DEF Inv, RunAdd
<1>2. 1 \in Adds
  BY <1>1 DEF Adds
<1>3. inbox[1].timer \in DOMAIN made
  BY <1>1 DEF Inv, InboxInv
<1>4. objs[made[inbox[1].timer]] # Free
  BY <1>2 DEF Inv, InboxInv
<1> QED BY <1>1, <1>3, <1>4 DEF Inv, Types

\* insert() moves the alarm forward when it has to.
LEMMA InsertAlarm ==
  ASSUME Inv, AlarmInv, NEW a, NEW t \in Object, insert(a, t), UNCHANGED <<clocks, pc>>
  PROVE  AlarmInv'
<1>1. t.exp \in Int /\ \A e \in heap : e[1] \in Int
  BY ObjectType DEF Inv, Types
<1>2. /\ Deadline(t.exp) \in Nat
      /\ skew = 0 => Deadline(t.exp) <= mono \/ Deadline(t.exp) <= t.exp
  BY <1>1, DeadlineType DEF Inv
<1>3. /\ armed' = IF Sooner(t) THEN Deadline(t.exp) ELSE armed
      /\ \A e \in heap' : e \in heap \/ e[1] = t.exp
      /\ mono' = mono /\ skew' = skew /\ sets' = sets /\ pc' = pc /\ mono \in Nat
  BY Numbers DEF insert, Entry, clocks, Inv, Types
<1>4. CASE Sooner(t)
  <2>1. \A e \in heap' : t.exp <= e[1] /\ e[1] \in Int
    BY <1>1, <1>3, <1>4 DEF Sooner
  <2>2. skew = 0 => InTime'
    BY <1>1, <1>2, <1>3, <1>4, <2>1 DEF InTime
  <2> QED BY <1>2, <1>3, <1>4, <2>2 DEF AlarmInv
<1>5. CASE ~Sooner(t)
  <2>1. PICK g \in heap : g[1] <= t.exp
    BY <1>1, <1>5 DEF Sooner
  <2>2. armed \in Int
    BY DEF AlarmInv
  <2>3. InTime => InTime'
    BY <1>1, <1>3, <1>5, <2>1, <2>2 DEF InTime
  <2> QED BY <1>3, <1>5, <2>1, <2>3 DEF AlarmInv
<1> QED BY <1>4, <1>5

\* Steps on which the alarm stays, with no timer added.
LEMMA AlarmKeeps ==
  ASSUME Inv, AlarmInv, UNCHANGED <<armed, skew, sets>>, mono <= mono', mono' \in Int,
         heap' \subseteq heap, pc' = "loop" => pc = "loop"
  PROVE  AlarmInv'
<1>1. mono \in Int /\ armed \in Int
  BY DEF AlarmInv, Inv, Types
<1>2. InTime => InTime'
  BY <1>1 DEF InTime
<1> QED BY <1>2 DEF AlarmInv

LEMMA AlarmStarts == Init => AlarmInv
BY DEF Init, AlarmInv

LEMMA AlarmHolds == Inv /\ Inv' /\ AlarmInv /\ [Next]_vars => AlarmInv'
<1> SUFFICES ASSUME Inv, Inv', AlarmInv, [Next]_vars PROVE AlarmInv'
  OBVIOUS
<1>m. mono \in Nat /\ mono' \in Nat /\ mono <= mono
  BY Numbers DEF Inv, Types
<1>1. CASE \/ UNCHANGED vars \/ RunTimer \/ CallbackReturns
           \/ \E s \in Seqs : CancelElsewhere(s) \/ CancelOnLoop(s)
           \/ \E s \in Seqs : ReadSequence(s)
           \/ AddElsewhere \/ RunCancel \/ Tick
  <2>1. UNCHANGED <<armed, skew, sets>> /\ (mono' = mono \/ mono' = mono + 1)
    BY <1>1 DEF vars, RunTimer, CallbackReturns, CancelElsewhere, CancelOnLoop, ReadSequence,
                AddElsewhere, RunCancel, Tick, clocks
  <2>2. heap' \subseteq heap
    BY <1>1 DEF vars, RunTimer, CallbackReturns, CancelElsewhere, CancelOnLoop, ReadSequence,
                AddElsewhere, RunCancel, Tick, lists, cancel_in_loop, drop, remember
  <2>3. pc' = "loop" => pc = "loop"
    BY <1>1 DEF vars, RunTimer, CallbackReturns, CancelElsewhere, CancelOnLoop, ReadSequence,
                AddElsewhere, RunCancel, Tick, reading
  <2>4. mono <= mono'
    BY <1>m, <2>1
  <2> QED BY <1>m, <2>1, <2>2, <2>3, <2>4, AlarmKeeps
<1>2. CASE SetWallClock
  <2>1. UNCHANGED <<armed, heap, pc>> /\ sets' = sets + 1 /\ sets \in Nat
    BY <1>2, Numbers DEF SetWallClock, lists, reading, Inv, Types
  <2>2. sets' # 0
    BY <2>1
  <2> QED BY <2>1, <2>2 DEF AlarmInv
<1>3. CASE AddOnLoop
  BY <1>3, ChoiceType, InsertAlarm DEF AddOnLoop, reading
<1>4. CASE RunAdd
  <2>1. objs[made[Head(inbox).timer]] \in Object
    BY <1>4, AddsObject
  <2> QED BY <1>4, <2>1, InsertAlarm DEF RunAdd, reading
<1>5. CASE HandleRead \/ Destroy
  BY <1>5 DEF HandleRead, Destroy, AlarmInv, clocks
<1>6. CASE Reset
  <2>1. /\ armed' = IF heap' # {} THEN Deadline(Earliest(heap')) ELSE armed
        /\ mono' = mono /\ skew' = skew /\ sets' = sets
    BY <1>6 DEF Reset, Rearm, clocks
  <2>2. CASE heap' = {}
    BY <2>1, <2>2 DEF AlarmInv
  <2>3. CASE heap' # {}
    <3>1. heap' \subseteq Int \X Addr
      BY DEF Inv, Types
    <3>2. Earliest(heap') \in Int /\ \A e \in heap' : Earliest(heap') <= e[1] /\ e[1] \in Int
      BY <2>3, <3>1, HeapFiniteNext, EarliestIs
    <3>3. /\ Deadline(Earliest(heap')) \in Nat
          /\ skew = 0 => \/ Deadline(Earliest(heap')) <= mono
                         \/ Deadline(Earliest(heap')) <= Earliest(heap')
      BY <3>2, DeadlineType DEF Inv
    <3>4. skew = 0 => InTime'
      BY <2>1, <2>3, <3>2, <3>3 DEF InTime
    <3> QED BY <2>1, <2>3, <3>3, <3>4 DEF AlarmInv
  <2> QED BY <2>2, <2>3
<1> QED BY <1>1, <1>2, <1>3, <1>4, <1>5, <1>6 DEF Next, Caller, LoopStep

\* AlarmSet: while a timer waits the timerfd is armed and, as long as the wall clock
\* follows the monotonic one, no later than the earliest expiration
\* (timer_queue.cpp:101-107, 196-216).
THEOREM Alarmed == Spec => []AlarmSet
<1>1. Inv /\ AlarmInv => AlarmSet
  <2> SUFFICES ASSUME Inv, AlarmInv, pc = "loop", heap # {}
               PROVE  armed # -1 /\ (sets = 0 => armed <= Earliest(heap) \/ armed <= mono)
    BY DEF AlarmSet
  <2>1. armed # -1 /\ (sets = 0 => InTime)
    BY DEF AlarmInv
  <2>2. \E e \in heap : Earliest(heap) = e[1]
    <3>1. heap \subseteq Int \X Addr /\ IsFiniteSet(heap)
      BY HeapFinite DEF Inv, Types
    <3> QED BY <3>1, EarliestIs
  <2> QED BY <2>1, <2>2 DEF InTime
<1> QED BY <1>1, AlarmStarts, AlarmHolds, Always, PTL DEF Spec

\* TypeOK: every variable keeps its type.
THEOREM TypeCorrect == Spec => []TypeOK
<1>1. Inv /\ IdInv /\ CancelInv /\ AlarmInv => TypeOK
  <2> SUFFICES ASSUME Inv, IdInv, CancelInv, AlarmInv PROVE TypeOK
    OBVIOUS
  <2>1. DOMAIN made \subseteq Seqs
    BY MadeSeqs DEF Inv
  <2>2. cancelled \subseteq asked /\ asked \subseteq Seqs /\ armed \in Nat \cup {-1}
    BY <2>1 DEF CancelInv, AlarmInv, Inv, Types
  <2> QED BY <2>2 DEF TypeOK, Inv, Types, IdInv
<1> QED BY <1>1, CancelStarts, CancelHolds, AlarmStarts, AlarmHolds, Always, PTL DEF Spec
=============================================================================
