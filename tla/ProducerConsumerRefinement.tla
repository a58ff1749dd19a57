---------------------- MODULE ProducerConsumerRefinement ----------------------
(***************************************************************************)
(* The ring of ProducerConsumer, with its mutexes, counters and signals,   *)
(* implements BoundedFifo, for every set of threads and items and every    *)
(* capacity: initial states map to initial states and every step to a step *)
(* of the bounded queue or to a stutter.                                   *)
(***************************************************************************)
EXTENDS ProducerConsumerProofs, Sequences

USE ThreadsAssumption, ItemsAssumption, CapacityAssumption

-----------------------------------------------------------------------------
(* Sequences                                                               *)

LEMMA AppendIs ==
    ASSUME NEW S, NEW s \in Seq(S), NEW x \in S, NEW t \in Seq(S),
           Len(t) = Len(s) + 1, \A i \in 1 .. Len(s) : t[i] = s[i], t[Len(s) + 1] = x
    PROVE  t = Append(s, x)
OBVIOUS

LEMMA TailIs ==
    ASSUME NEW S, NEW s \in Seq(S), s # <<>>, NEW t \in Seq(S),
           Len(t) = Len(s) - 1, \A i \in 1 .. Len(t) : t[i] = s[i + 1]
    PROVE  t = Tail(s)
OBVIOUS

LEMMA SequenceOf ==
    ASSUME NEW S, NEW n \in Nat, NEW s, s = [i \in 1 .. n |-> s[i]],
           \A i \in 1 .. n : s[i] \in S
    PROVE  s \in Seq(S) /\ Len(s) = n
OBVIOUS

-----------------------------------------------------------------------------
(* The contents                                                            *)

\* A queue that was not destroyed holds the objects between head and tail.
ContentsOK ==
    ~destroyed =>
        /\ head \in Nat /\ tail - head \in 0 .. Capacity
        /\ Contents \in Seq(Items) /\ Len(Contents) = tail - head
        /\ \A i \in 1 .. tail - head :
              /\ (head + i - 1) % Capacity \in Slots
              /\ Contents[i] = buffer[(head + i - 1) % Capacity]
              /\ Contents[i] \in Queued

LEMMA ContentsAre == IDInv => ContentsOK
<1> SUFFICES ASSUME IDInv, ~destroyed PROVE ContentsOK
    BY DEF ContentsOK
<1>1. /\ head \in Nat /\ tail \in Nat /\ head <= tail
      /\ tail - head \in 0 .. Capacity
    BY DEF IDInv, IInv, TypeOK, SizeCounts
<1>2. /\ Contents = [i \in 1 .. tail - head |-> Contents[i]]
      /\ \A i \in 1 .. tail - head : Contents[i] = buffer[(head + i - 1) % Capacity]
    BY DEF Contents
<1> HIDE DEF Contents
<1>3. ASSUME NEW i \in 1 .. tail - head
      PROVE  /\ (head + i - 1) % Capacity \in Slots
             /\ Contents[i] \in Items /\ Contents[i] \in Queued
    <2> DEFINE s == (head + i - 1) % Capacity
    <2>1. head + i - 1 \in head .. tail - 1 /\ head + i - 1 \in Nat /\ Capacity # 0
        BY <1>1
    <2>2. s \in Slots
        BY <2>1, ModRange DEF Slots
    <2>3. s \in Window
        BY <2>1 DEF Window
    <2>4. buffer[s] # NULL /\ buffer[s] \in Items \cup {NULL}
        BY <2>2, <2>3 DEF IDInv, IInv, DInv, TypeOK, RingFilled
    <2>5. Contents[i] = buffer[s]
        BY <1>2
    <2> QED
        BY <2>2, <2>4, <2>5 DEF Queued
<1>4. Contents \in Seq(Items) /\ Len(Contents) = tail - head
    BY <1>1, <1>2, <1>3, SequenceOf
<1> QED
    BY <1>1, <1>2, <1>3, <1>4 DEF ContentsOK

\* Nothing in use when the queue is created.
LEMMA InitRefines == Init => Fifo!Init
<1> SUFFICES ASSUME Init PROVE Fifo!Init
    OBVIOUS
<1>1. Contents = <<>>
    BY DEF Init, Contents
<1> QED
    BY <1>1 DEF Init, Fifo!Init, Fifo!Threads, Threads

-----------------------------------------------------------------------------
(* The steps                                                               *)

\* A step that touches neither the ring nor what threads carry.
LEMMA QuietRefines ==
    UNCHANGED <<item, buffer, head, tail, destroyed>> => UNCHANGED Fifo!vars
BY DEF Fifo!vars, Contents

\* pcq_enqueue begins with an object malloc has just returned.
LEMMA EnqueueRefines ==
    ASSUME IDInv, ContentsOK, NEW p \in Producers, NEW v \in Items, Enqueue(p, v)
    PROVE  Fifo!Offer(p, v)
<1>1. /\ ~destroyed /\ pc[p] = "idle" /\ v \notin heap
      /\ item' = [item EXCEPT ![p] = v]
      /\ UNCHANGED <<buffer, head, tail, destroyed>>
    BY DEF Enqueue
<1>2. item[p] = NULL
    BY <1>1 DEF IDInv, DInv, Carrying
<1>3. v \notin Queued /\ v \notin Carried /\ v # NULL
    BY <1>1 DEF IDInv, DInv, ItemConservation
<1>4. v \notin Fifo!InUse
    <2>1. \A i \in DOMAIN Contents : Contents[i] # v
        BY <1>1, <1>3 DEF ContentsOK
    <2>2. \A t \in Threads : item[t] # v
        BY <1>3 DEF Carried
    <2> QED
        BY <2>1, <2>2 DEF Fifo!InUse, Fifo!Threads, Threads
<1>5. UNCHANGED Contents
    BY <1>1 DEF Contents
<1> QED
    BY <1>1, <1>2, <1>4, <1>5 DEF Fifo!Offer

\* The object enters the queue when tail moves.
LEMMA InsertRefines ==
    ASSUME IDInv, ContentsOK, ContentsOK', NEW p \in Producers, EnqueueInsert(p)
    PROVE  Fifo!Put(p)
<1> DEFINE n == tail - head
<1>1. /\ pc[p] = "access"
      /\ buffer' = [buffer EXCEPT ![tail % Capacity] = item[p]]
      /\ tail' = tail + 1 /\ item' = [item EXCEPT ![p] = NULL]
      /\ UNCHANGED <<head, destroyed>>
    BY DEF EnqueueInsert
<1>2. /\ ~destroyed /\ item[p] \in Items /\ item[p] # NULL /\ n < Capacity
      /\ buffer \in [Slots -> Items \cup {NULL}] /\ tail \in Nat /\ head \in Nat
    BY <1>1 DEF IDInv, IInv, DInv, TypeOK, Carrying, DeadQueue, RoomChecked, Moving, Threads
<1>3. n \in Nat /\ tail' - head' = n + 1 /\ head' = head /\ head + (n + 1) - 1 = tail
    BY <1>1, <1>2 DEF ContentsOK
<1>4. /\ Contents \in Seq(Items) /\ Contents' \in Seq(Items)
      /\ Len(Contents) = n /\ Len(Contents') = n + 1
    BY <1>1, <1>2, <1>3 DEF ContentsOK
<1>5. \A i \in 1 .. n + 1 : Contents'[i] = buffer'[(head + i - 1) % Capacity]
    BY <1>1, <1>2, <1>3 DEF ContentsOK
<1>6. \A i \in 1 .. n : Contents'[i] = Contents[i]
    <2> TAKE i \in 1 .. n
    <2> DEFINE k == head + i - 1
    <2>1. k \in Nat /\ k < tail /\ tail - k < Capacity
        BY <1>2, <1>3
    <2>2. k % Capacity # tail % Capacity
        BY <1>2, <2>1, ModInjective
    <2>3. k % Capacity \in Slots /\ Contents[i] = buffer[k % Capacity]
        BY <1>2 DEF ContentsOK
    <2>4. Contents'[i] = buffer'[k % Capacity]
        BY <1>3, <1>5
    <2> HIDE DEF k
    <2> QED
        BY <1>1, <1>2, <2>2, <2>3, <2>4
<1>7. Contents'[n + 1] = item[p]
    <2>1. Contents'[n + 1] = buffer'[tail % Capacity]
        BY <1>3, <1>5
    <2>2. tail % Capacity \in Slots
        BY <1>2, <1>3, ModRange DEF Slots
    <2> QED
        BY <1>1, <1>2, <2>1, <2>2
<1>8. Contents' = Append(Contents, item[p])
    BY <1>2, <1>4, <1>6, <1>7, AppendIs
<1> QED
    BY <1>1, <1>2, <1>4, <1>8 DEF Fifo!Put

\* ... and leaves it when head moves.
LEMMA RemoveRefines ==
    ASSUME IDInv, ContentsOK, ContentsOK', NEW c \in Consumers, DequeueRemove(c)
    PROVE  Fifo!Take(c)
<1> DEFINE n == tail - head
<1>1. /\ pc[c] = "access"
      /\ buffer' = [buffer EXCEPT ![head % Capacity] = NULL]
      /\ head' = head + 1 /\ item' = [item EXCEPT ![c] = buffer[head % Capacity]]
      /\ UNCHANGED <<tail, destroyed>>
    BY DEF DequeueRemove
<1>2. /\ ~destroyed /\ item[c] = NULL /\ head < tail
      /\ buffer \in [Slots -> Items \cup {NULL}] /\ tail \in Nat /\ head \in Nat
    BY <1>1 DEF IDInv, IInv, DInv, TypeOK, Carrying, DeadQueue, RoomChecked, Moving, Threads
<1>3. n \in Nat \ {0} /\ n <= Capacity /\ tail' - head' = n - 1 /\ head' = head + 1
    BY <1>1, <1>2 DEF ContentsOK
<1>4. /\ Contents \in Seq(Items) /\ Contents' \in Seq(Items)
      /\ Len(Contents) = n /\ Len(Contents') = n - 1 /\ Contents # <<>>
    BY <1>1, <1>2, <1>3 DEF ContentsOK
<1>5. /\ \A i \in 1 .. n : Contents[i] = buffer[(head + i - 1) % Capacity]
      /\ \A i \in 1 .. n - 1 : /\ Contents'[i] = buffer'[(head' + i - 1) % Capacity]
                               /\ (head' + i - 1) % Capacity \in Slots
    BY <1>1, <1>2, <1>3 DEF ContentsOK
<1>6. Head(Contents) = buffer[head % Capacity]
    <2>1. 1 \in 1 .. n /\ head + 1 - 1 = head
        BY <1>2, <1>3
    <2>2. Contents[1] = buffer[head % Capacity]
        BY <1>5, <2>1
    <2> QED
        BY <1>4, <2>2
<1>7. \A i \in 1 .. n - 1 : Contents'[i] = Contents[i + 1]
    <2> TAKE i \in 1 .. n - 1
    <2> DEFINE k == head + i
    <2>1. k \in Nat /\ head < k /\ k - head < Capacity
        BY <1>2, <1>3
    <2>2. k % Capacity # head % Capacity
        BY <1>2, <2>1, ModInjective
    <2>3. i + 1 \in 1 .. n /\ head + (i + 1) - 1 = k /\ head' + i - 1 = k
        BY <1>2, <1>3
    <2>4. Contents[i + 1] = buffer[k % Capacity]
        BY <1>5, <2>3
    <2>5. Contents'[i] = buffer'[k % Capacity] /\ k % Capacity \in Slots
        BY <1>5, <2>3
    <2> HIDE DEF k
    <2> QED
        BY <1>1, <1>2, <2>2, <2>4, <2>5
<1>8. Contents' = Tail(Contents)
    BY <1>4, <1>7, TailIs
<1> QED
    BY <1>1, <1>2, <1>4, <1>6, <1>8 DEF Fifo!Take

\* The request is handled and freed.
LEMMA HandleRefines ==
    ASSUME IDInv, NEW c \in Consumers, Handle(c)
    PROVE  Fifo!Release(c)
<1>1. pc[c] = "handle" /\ item' = [item EXCEPT ![c] = NULL]
      /\ UNCHANGED <<buffer, head, tail, destroyed>>
    BY DEF Handle
<1>2. item[c] # NULL
    BY <1>1 DEF IDInv, DInv, Carrying
<1> QED
    BY <1>1, <1>2 DEF Fifo!Release, Contents

\* pcq_destroy comes when nobody carries an object.
LEMMA DestroyRefines == IDInv /\ Destroy => Fifo!Discard
<1> SUFFICES ASSUME IDInv, Destroy PROVE Fifo!Discard
    OBVIOUS
<1>1. /\ \A t \in Threads : pc[t] = "idle"
      /\ destroyed' = TRUE /\ UNCHANGED item
    BY DEF Destroy
<1>2. \A t \in Threads : item[t] = NULL
    BY <1>1 DEF IDInv, DInv, Carrying, Threads
<1>3. Contents' = <<>>
    BY <1>1 DEF Contents
<1> QED
    BY <1>1, <1>2, <1>3 DEF Fifo!Discard, Fifo!Threads, Threads

LEMMA StepRefines ==
    IDInv /\ ContentsOK /\ ContentsOK' /\ [Next]_vars => [Fifo!Next]_Fifo!vars
<1> SUFFICES ASSUME IDInv, ContentsOK, ContentsOK', [Next]_vars
             PROVE  [Fifo!Next]_Fifo!vars
    OBVIOUS
<1>1. CASE \E p \in Producers : \E v \in Items : Enqueue(p, v)
    BY <1>1, EnqueueRefines DEF Fifo!Next
<1>2. CASE \E p \in Producers : EnqueueInsert(p)
    BY <1>2, InsertRefines DEF Fifo!Next
<1>3. CASE \E c \in Consumers : DequeueRemove(c)
    BY <1>3, RemoveRefines DEF Fifo!Next
<1>4. CASE \E c \in Consumers : Handle(c)
    BY <1>4, HandleRefines DEF Fifo!Next
<1>5. CASE Destroy
    BY <1>5, DestroyRefines DEF Fifo!Next
<1>6. CASE UNCHANGED <<item, buffer, head, tail, destroyed>>
    BY <1>6, QuietRefines
<1>7. \A p \in Producers :
          \/ EnqueueLocks(p) \/ EnqueueWait(p) \/ EnqueueProceed(p) \/ EnqueueCompare(p)
          \/ EnqueueCount(p) \/ EnqueueUnlockHead(p) \/ EnqueueSignal(p)
          => UNCHANGED <<item, buffer, head, tail, destroyed>>
    BY DEF EnqueueLocks, EnqueueLockSize, EnqueueLockTail, EnqueueLockHead, EnqueueWait,
           EnqueueProceed, EnqueueCompare, EnqueueCount, EnqueueUnlockHead, EnqueueSignal
<1>8. \A c \in Consumers :
          \/ Dequeue(c) \/ DequeueLocks(c) \/ DequeueWait(c) \/ DequeueProceed(c)
          \/ DequeueCompare(c) \/ DequeueCount(c) \/ DequeueUnlockTail(c) \/ DequeueSignal(c)
          => UNCHANGED <<item, buffer, head, tail, destroyed>>
    BY DEF Dequeue, DequeueLocks, DequeueLockSize, DequeueLockHead, DequeueLockTail,
           DequeueWait, DequeueProceed, DequeueCompare, DequeueCount, DequeueUnlockTail,
           DequeueSignal
<1>9. (\E t \in Threads : SpuriousWakeup(t)) \/ Stutter \/ UNCHANGED vars
          => UNCHANGED <<item, buffer, head, tail, destroyed>>
    BY DEF SpuriousWakeup, Stutter, vars
<1> QED
    BY <1>1, <1>2, <1>3, <1>4, <1>5, <1>6, <1>7, <1>8, <1>9
    DEF Next, Producer, EnqueueSteps, Consumer, DequeueSteps

\* The ring buffer with its three mutexes, its two condition variables and its
\* late counters is a first-in first-out queue of at most Capacity objects that
\* neither loses nor invents one.
THEOREM RingIsFifo == Spec => ImplementsFifo
<1>1. Spec => []IDInv
    BY Invariant
<1>2. IDInv => ContentsOK
    BY ContentsAre
<1> QED
    BY <1>1, <1>2, InitRefines, StepRefines, PTL DEF Spec, ImplementsFifo, Fifo!Spec

=============================================================================
