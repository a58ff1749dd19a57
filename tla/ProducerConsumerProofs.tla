----------------------- MODULE ProducerConsumerProofs -----------------------
(* Theorems about ProducerConsumer, for every set of threads and items and *)
(* every capacity.                                                         *)
EXTENDS ProducerConsumer, FiniteSetTheorems, TLAPS

\* What a thread that tested the size still knows: it has held
\* current_size_lock ever since, so a producer has room and a consumer has an
\* element until it publishes the new size.
Moving == {"own_end", "other_end", "compare", "access"}
RoomChecked ==
    /\ \A p \in Producers : pc[p] \in Moving => tail - head < Capacity
    /\ \A c \in Consumers : pc[c] \in Moving => head < tail

\* TypeOK and the mutexes depend on the counters (pcq_current_size must not go
\* below zero, the ring must have a slot) and the counters on the mutexes.
IInv == TypeOK /\ LockDiscipline /\ SizeCounts /\ RoomChecked

\* An empty queue that nobody is in satisfies the invariant on mutexes and
\* counters.
LEMMA InitIInv == Init => IInv
  <1> USE ThreadsAssumption, CapacityAssumption
  <1> SUFFICES ASSUME Init PROVE IInv  OBVIOUS
  <1>1. pc \in [Threads -> Labels] /\ \A p \in Producers : pc[p] # "handle"
    BY DEF Init, Labels, Threads
  <1>2. TypeOK
    BY <1>1 DEF Init, TypeOK
  <1>3. LockDiscipline
    BY DEF Init, LockDiscipline, Threads, Locks, OwnEnd, OtherEnd, HoldsSize, HoldsOwnEnd, HoldsOtherEnd
  <1>4. SizeCounts /\ RoomChecked
    BY DEF Init, SizeCounts, RoomChecked, Moving, Threads
  <1> QED  BY <1>2, <1>3, <1>4 DEF IInv

\* Every call of pcq_enqueue and pcq_dequeue keeps it: one step per action.
LEMMA NextIInv == IInv /\ [Next]_vars => IInv'
  <1> SUFFICES ASSUME IInv, [Next]_vars PROVE IInv'  OBVIOUS
  <1> USE ThreadsAssumption, CapacityAssumption
  <1> USE DEF IInv, TypeOK, LockDiscipline, Labels, SizeCounts, RoomChecked, Moving,
         Locks, Slots, Threads, OwnEnd, OtherEnd, HoldsSize, HoldsOwnEnd, HoldsOtherEnd
  <1>1. ASSUME NEW p \in Producers, NEW v \in Items, Enqueue(p, v) PROVE IInv'
    BY <1>1 DEF Enqueue, Goto
  <1>2. ASSUME NEW p \in Producers, EnqueueLockSize(p) PROVE IInv'
    BY <1>2 DEF EnqueueLockSize, Goto, Lock
  <1>3. ASSUME NEW p \in Producers, EnqueueWait(p) PROVE IInv'
    BY <1>3 DEF EnqueueWait, Goto, Sleep, Unlock
  <1>4. ASSUME NEW p \in Producers, EnqueueProceed(p) PROVE IInv'
    BY <1>4 DEF EnqueueProceed, Goto
  <1>5. ASSUME NEW p \in Producers, EnqueueLockTail(p) PROVE IInv'
    BY <1>5 DEF EnqueueLockTail, Goto, Lock
  <1>6. ASSUME NEW p \in Producers, EnqueueLockHead(p) PROVE IInv'
    BY <1>6 DEF EnqueueLockHead, Goto, Lock
  <1>7. ASSUME NEW p \in Producers, EnqueueCompare(p) PROVE IInv'
    BY <1>7 DEF EnqueueCompare, Goto, Unlock
  <1>8. ASSUME NEW p \in Producers, EnqueueInsert(p) PROVE IInv'
    BY <1>8 DEF EnqueueInsert, Goto, Unlock
  <1>9. ASSUME NEW p \in Producers, EnqueueCount(p) PROVE IInv'
    BY <1>9 DEF EnqueueCount, Goto, Unlock
  <1>10. ASSUME NEW p \in Producers, EnqueueUnlockHead(p) PROVE IInv'
    BY <1>10 DEF EnqueueUnlockHead, Goto, Unlock
  <1>11. ASSUME NEW p \in Producers, EnqueueSignal(p) PROVE IInv'
    BY <1>11 DEF EnqueueSignal, Goto, SignalOne, Waiting
  <1>12. ASSUME NEW c \in Consumers, Dequeue(c) PROVE IInv'
    BY <1>12 DEF Dequeue, Goto
  <1>13. ASSUME NEW c \in Consumers, DequeueLockSize(c) PROVE IInv'
    BY <1>13 DEF DequeueLockSize, Goto, Lock
  <1>14. ASSUME NEW c \in Consumers, DequeueWait(c) PROVE IInv'
    BY <1>14 DEF DequeueWait, Goto, Sleep, Unlock
  <1>15. ASSUME NEW c \in Consumers, DequeueProceed(c) PROVE IInv'
    BY <1>15 DEF DequeueProceed, Goto
  <1>16. ASSUME NEW c \in Consumers, DequeueLockHead(c) PROVE IInv'
    BY <1>16 DEF DequeueLockHead, Goto, Lock
  <1>17. ASSUME NEW c \in Consumers, DequeueLockTail(c) PROVE IInv'
    BY <1>17 DEF DequeueLockTail, Goto, Lock
  <1>18. ASSUME NEW c \in Consumers, DequeueCompare(c) PROVE IInv'
    BY <1>18 DEF DequeueCompare, Goto, Unlock
  <1>19. ASSUME NEW c \in Consumers, DequeueRemove(c) PROVE IInv'
    BY <1>19 DEF DequeueRemove, Goto, Unlock
  <1>20. ASSUME NEW c \in Consumers, DequeueCount(c) PROVE IInv'
    BY <1>20 DEF DequeueCount, Goto, Unlock
  <1>21. ASSUME NEW c \in Consumers, DequeueUnlockTail(c) PROVE IInv'
    BY <1>21 DEF DequeueUnlockTail, Goto, Unlock
  <1>22. ASSUME NEW c \in Consumers, DequeueSignal(c) PROVE IInv'
    BY <1>22 DEF DequeueSignal, Goto, SignalOne, Waiting
  <1>23. ASSUME NEW c \in Consumers, Handle(c) PROVE IInv'
    BY <1>23 DEF Handle, Goto
  <1>24. ASSUME NEW t \in Threads, SpuriousWakeup(t) PROVE IInv'
    BY <1>24 DEF SpuriousWakeup, Goto
  <1>25. ASSUME Destroy PROVE IInv'
    BY <1>25 DEF Destroy
  <1>26. CASE UNCHANGED vars
    BY <1>26 DEF vars
  <1> QED
    BY <1>1, <1>2, <1>3, <1>4, <1>5, <1>6, <1>7, <1>8, <1>9, <1>10, <1>11, <1>12, <1>13, <1>14, <1>15, <1>16, <1>17, <1>18, <1>19, <1>20, <1>21, <1>22, <1>23, <1>24, <1>25, <1>26
    DEF Next, Producer, EnqueueLocks, EnqueueSteps, Consumer, DequeueLocks, DequeueSteps, Stutter

\* Places less than the capacity apart in the endless sequence are different
\* slots of the ring.
LEMMA ModInjective ==
    ASSUME NEW C \in Nat, NEW a \in Nat, NEW b \in Nat, a < b, b - a < C
    PROVE  a % C # b % C
  <1> SUFFICES ASSUME a % C = b % C PROVE FALSE  OBVIOUS
  <1>0. 0 < C OBVIOUS
  <1>1. a \div C \in Int /\ b \div C \in Int
    BY <1>0
  <1>a. a = C * (a \div C) + (a % C)
    BY <1>0
  <1>b. b = C * (b \div C) + (b % C)
    BY <1>0
  <1> DEFINE d == (b \div C) - (a \div C)
  <1>3. d \in Int  BY <1>1
  <1>c. a % C \in Int BY <1>0
  <1>7. C * d = C * (b \div C) - C * (a \div C)  BY <1>1
  <1>4. C * d = b - a  BY <1>1, <1>a,<1>b, <1>7, <1>c
  <1> HIDE DEF d
  <1>5. CASE d <= 0
    <2>1. C * d <= 0  BY <1>3, <1>5
    <2> QED BY <2>1, <1>4
  <1>6. CASE d >= 1
    <2>1. C * d >= C BY <1>3, <1>6
    <2> QED BY <2>1, <1>4
  <1> QED  BY <1>3, <1>5, <1>6

\* Every place is a slot of the ring.
LEMMA ModRange ==
    ASSUME NEW C \in Nat, C # 0, NEW a \in Nat PROVE a % C \in 0 .. C - 1
  OBVIOUS

\* A producer carries its object until the ring has it, a worker from the
\* moment the ring gives it up until the request is handled.
Carrying ==
    /\ \A p \in Producers :
         item[p] # NULL <=> pc[p] \notin {"idle", "count", "unlock_other", "signal"}
    /\ \A c \in Consumers :
         item[c] # NULL <=> pc[c] \in {"count", "unlock_other", "signal", "handle"}

\* pcq_destroy runs when no thread is in the queue, and none enters it again.
DeadQueue == destroyed => \A t \in Threads : pc[t] = "idle"

\* The ring and what threads carry, on top of mutexes and counters.
DInv == RingFilled /\ Carrying /\ ItemConservation /\ DeadQueue
IDInv == IInv /\ DInv

\* An object that was just allocated is not in use.
LEMMA EnqueueKeepsDInv ==
    ASSUME IDInv, NEW p \in Producers, NEW v \in Items, Enqueue(p, v)
    PROVE  DInv'
  <1>1. pc[p] = "idle" /\ ~destroyed /\ v \notin heap
    BY DEF Enqueue
  <1>2. /\ heap' = heap \cup {v}
        /\ item' = [item EXCEPT ![p] = v]
        /\ pc' = [pc EXCEPT ![p] = "lock_size"]
        /\ UNCHANGED <<buffer, head, tail, destroyed>>
    BY DEF Enqueue, Goto
  <1>3. item[p] = NULL /\ v # NULL
    BY <1>1, ThreadsAssumption, ItemsAssumption DEF IDInv, DInv, Carrying
  <1>4. p \in Threads /\ p \notin Consumers
    BY ThreadsAssumption DEF Threads
  <1>5. RingFilled'
    BY <1>2 DEF IDInv, DInv, RingFilled, Window
  <1>6. Carrying'
    BY <1>1, <1>2, <1>3, <1>4 DEF IDInv, DInv, IInv, TypeOK, Carrying, Threads
  <1>7. DeadQueue'
    BY <1>1, <1>2 DEF DeadQueue
  <1>8. Queued' = Queued /\ Carried' = Carried \cup {v}
    <2>1. Queued' = Queued
      BY <1>2 DEF Queued
    <2>2. Carried' = Carried \cup {v}
      BY <1>2, <1>3, <1>4 DEF Carried, IDInv, IInv, TypeOK
    <2> QED  BY <2>1, <2>2
  <1>9. v \notin Queued \cup Carried
    BY <1>1 DEF IDInv, DInv, ItemConservation
  <1>10. ItemConservation'
    <2>1. heap' = Queued' \cup Carried'
      BY <1>1, <1>2, <1>8 DEF IDInv, DInv, ItemConservation
    <2>2. \A t, u \in Threads : t # u /\ item'[t] # NULL => item'[t] # item'[u]
      BY <1>2, <1>9 DEF IDInv, DInv, ItemConservation, Carried, IInv, TypeOK
    <2>3. Queued' \cap Carried' = {}
      BY <1>8, <1>9 DEF IDInv, DInv, ItemConservation
    <2> QED
      BY <1>1, <1>2, <2>1, <2>2, <2>3 DEF IDInv, DInv, ItemConservation
  <1> QED
    BY <1>5, <1>6, <1>7, <1>10 DEF DInv

\* The object moves from the producer to the slot of tail, which was empty.
LEMMA InsertKeepsDInv ==
    ASSUME IDInv, NEW p \in Producers, EnqueueInsert(p)
    PROVE  DInv'
  <1> DEFINE s == tail % Capacity
             x == item[p]
  <1>1. pc[p] = "access"
    BY DEF EnqueueInsert
  <1>2. /\ buffer' = [buffer EXCEPT ![s] = x]
        /\ tail' = tail + 1
        /\ item' = [item EXCEPT ![p] = NULL]
        /\ pc' = [pc EXCEPT ![p] = "count"]
        /\ UNCHANGED <<head, heap, destroyed>>
    BY DEF EnqueueInsert, Goto
  <1>3. p \in Threads /\ p \notin Consumers
    BY ThreadsAssumption DEF Threads
  <1>4. tail - head < Capacity /\ head <= tail /\ head \in Nat /\ tail \in Nat
    BY <1>1 DEF IDInv, IInv, RoomChecked, Moving, TypeOK, SizeCounts
  <1>5. x # NULL /\ ~destroyed
    BY <1>1, <1>3 DEF IDInv, DInv, Carrying, DeadQueue
  <1>6. s \in Slots
    BY <1>4, ModRange, CapacityAssumption DEF Slots
  <1>7. Window' = Window \cup {s}
    BY <1>2, <1>4 DEF Window
  <1>8. s \notin Window
    <2> SUFFICES ASSUME NEW k \in head .. tail - 1, k % Capacity = s
                 PROVE  FALSE
      BY DEF Window
    <2>1. k \in Nat /\ k < tail /\ tail - k < Capacity
      BY <1>4, CapacityAssumption
    <2> QED  BY <1>4, <2>1, CapacityAssumption, ModInjective
  <1>9. buffer[s] = NULL
    BY <1>6, <1>8 DEF IDInv, DInv, RingFilled
  <1>10. buffer \in [Slots -> Items \cup {NULL}] /\ item \in [Threads -> Items \cup {NULL}]
    BY DEF IDInv, IInv, TypeOK
  <1> HIDE DEF s, x
  <1>11. RingFilled'
    BY <1>2, <1>5, <1>6, <1>7, <1>10 DEF IDInv, DInv, RingFilled
  <1>12. Carrying'
    BY <1>1, <1>2, <1>3, <1>10 DEF IDInv, DInv, IInv, TypeOK, Carrying, Threads
  <1>13. Queued' = Queued \cup {x}
    BY <1>2, <1>5, <1>6, <1>9, <1>10 DEF Queued
  <1>14. \A t \in Threads \ {p} : item[t] # x
    BY <1>3, <1>5 DEF IDInv, DInv, ItemConservation, x
  <1>15. Carried' = Carried \ {x}
    BY <1>2, <1>3, <1>10, <1>14 DEF Carried, x
  <1>16. x \in Carried
    BY <1>3, <1>5 DEF Carried, x
  <1>17. x \notin Queued
    BY <1>16 DEF IDInv, DInv, ItemConservation
  <1>18. ItemConservation'
    <2>1. heap' = Queued' \cup Carried'
      BY <1>2, <1>5, <1>13, <1>15, <1>16 DEF IDInv, DInv, ItemConservation
    <2>2. \A t, u \in Threads : t # u /\ item'[t] # NULL => item'[t] # item'[u]
      BY <1>2, <1>10 DEF IDInv, DInv, ItemConservation
    <2>3. \A i, j \in Slots : i # j /\ buffer'[i] # NULL => buffer'[i] # buffer'[j]
      BY <1>2, <1>6, <1>10, <1>17, <1>5 DEF IDInv, DInv, ItemConservation, Queued
    <2>4. Queued' \cap Carried' = {}
      BY <1>13, <1>15 DEF IDInv, DInv, ItemConservation
    <2> QED
      BY <1>2, <1>5, <2>1, <2>2, <2>3, <2>4 DEF ItemConservation
  <1>19. DeadQueue'
    BY <1>2, <1>5 DEF DeadQueue
  <1> QED
    BY <1>11, <1>12, <1>18, <1>19 DEF DInv

\* The object moves from the slot of head, which was full, to the worker.
LEMMA RemoveKeepsDInv ==
    ASSUME IDInv, NEW c \in Consumers, DequeueRemove(c)
    PROVE  DInv'
  <1> DEFINE s == head % Capacity
             x == buffer[s]
  <1>1. pc[c] = "access"
    BY DEF DequeueRemove
  <1>2. /\ buffer' = [buffer EXCEPT ![s] = NULL]
        /\ head' = head + 1
        /\ item' = [item EXCEPT ![c] = x]
        /\ pc' = [pc EXCEPT ![c] = "count"]
        /\ UNCHANGED <<tail, heap, destroyed>>
    BY DEF DequeueRemove, Goto
  <1>3. c \in Threads /\ c \notin Producers
    BY ThreadsAssumption DEF Threads
  <1>4. head < tail /\ tail - head <= Capacity /\ head \in Nat /\ tail \in Nat
    BY <1>1 DEF IDInv, IInv, RoomChecked, Moving, TypeOK, SizeCounts
  <1>5. item[c] = NULL /\ ~destroyed
    BY <1>1, <1>3 DEF IDInv, DInv, Carrying, DeadQueue
  <1>6. s \in Slots
    BY <1>4, ModRange, CapacityAssumption DEF Slots
  <1>7. Window = Window' \cup {s}
    BY <1>2, <1>4 DEF Window
  <1>8. s \notin Window'
    <2> SUFFICES ASSUME NEW k \in head' .. tail' - 1, k % Capacity = s
                 PROVE  FALSE
      BY DEF Window
    <2>1. k \in Nat /\ head < k /\ k - head < Capacity
      BY <1>2, <1>4, CapacityAssumption
    <2> QED  BY <1>4, <2>1, CapacityAssumption, ModInjective
  <1>9. x # NULL
    BY <1>6, <1>7 DEF IDInv, DInv, RingFilled
  <1>10. buffer \in [Slots -> Items \cup {NULL}] /\ item \in [Threads -> Items \cup {NULL}]
    BY DEF IDInv, IInv, TypeOK
  <1>11. x \in Queued /\ Queued' = Queued \ {x}
    <2>1. \A i \in Slots \ {s} : buffer[i] # x
      BY <1>6, <1>9 DEF IDInv, DInv, ItemConservation
    <2>2. x \in Queued
      BY <1>6, <1>9 DEF Queued
    <2> HIDE DEF s
    <2>3. Queued' = Queued \ {x}
      BY <1>2, <1>6, <1>10, <2>1 DEF Queued
    <2> QED  BY <2>2, <2>3
  <1> HIDE DEF s, x
  <1>12. RingFilled'
    BY <1>2, <1>6, <1>7, <1>8, <1>10 DEF IDInv, DInv, RingFilled
  <1>13. Carrying'
    BY <1>1, <1>2, <1>3, <1>9, <1>10 DEF IDInv, DInv, IInv, TypeOK, Carrying, Threads
  <1>14. Carried' = Carried \cup {x}
    BY <1>2, <1>3, <1>5, <1>9, <1>10 DEF Carried
  <1>15. x \notin Carried
    BY <1>11 DEF IDInv, DInv, ItemConservation
  <1>16. ItemConservation'
    <2>1. heap' = Queued' \cup Carried'
      BY <1>2, <1>5, <1>11, <1>14 DEF IDInv, DInv, ItemConservation
    <2>2. \A t, u \in Threads : t # u /\ item'[t] # NULL => item'[t] # item'[u]
      <3>1. \A t \in Threads : item[t] # x
        BY <1>9, <1>15 DEF Carried
      <3> QED
        BY <1>2, <1>10, <3>1 DEF IDInv, DInv, ItemConservation
    <2>3. \A i, j \in Slots : i # j /\ buffer'[i] # NULL => buffer'[i] # buffer'[j]
      BY <1>2, <1>6, <1>10 DEF IDInv, DInv, ItemConservation
    <2>4. Queued' \cap Carried' = {}
      BY <1>11, <1>14 DEF IDInv, DInv, ItemConservation
    <2> QED
      BY <1>2, <1>5, <2>1, <2>2, <2>3, <2>4 DEF ItemConservation
  <1>17. DeadQueue'
    BY <1>2, <1>5 DEF DeadQueue
  <1> QED
    BY <1>12, <1>13, <1>16, <1>17 DEF DInv

\* The object that is freed is the worker's and nobody else's.
LEMMA HandleKeepsDInv ==
    ASSUME IDInv, NEW c \in Consumers, Handle(c)
    PROVE  DInv'
  <1> DEFINE x == item[c]
  <1>1. /\ pc[c] = "handle"
        /\ heap' = heap \ {x}
        /\ item' = [item EXCEPT ![c] = NULL]
        /\ pc' = [pc EXCEPT ![c] = "idle"]
        /\ UNCHANGED <<buffer, head, tail, destroyed>>
    BY DEF Handle, Goto
  <1>2. c \in Threads /\ c \notin Producers
    BY ThreadsAssumption DEF Threads
  <1>3. x # NULL /\ ~destroyed
    BY <1>1, <1>2 DEF IDInv, DInv, Carrying, DeadQueue
  <1>4. item \in [Threads -> Items \cup {NULL}] /\ pc \in [Threads -> Labels]
    BY DEF IDInv, IInv, TypeOK
  <1>5. RingFilled'
    BY <1>1 DEF IDInv, DInv, RingFilled, Window
  <1>6. Carrying'
    BY <1>1, <1>2, <1>4 DEF IDInv, DInv, Carrying, Threads
  <1>7. DeadQueue'
    BY <1>1, <1>3 DEF DeadQueue
  <1>8. \A t \in Threads \ {c} : item[t] # x
    BY <1>2, <1>3 DEF IDInv, DInv, ItemConservation
  <1>9. x \in Carried
    BY <1>2, <1>3 DEF Carried
  <1> HIDE DEF x
  <1>10. Carried' = Carried \ {x} /\ Queued' = Queued
    <2>1. Carried' = Carried \ {x}
      BY <1>1, <1>2, <1>4, <1>8 DEF Carried, x
    <2>2. Queued' = Queued
      BY <1>1 DEF Queued
    <2> QED  BY <2>1, <2>2
  <1>11. ItemConservation'
    <2>1. heap' = Queued' \cup Carried'
      BY <1>1, <1>3, <1>9, <1>10 DEF IDInv, DInv, ItemConservation
    <2>2. \A t, u \in Threads : t # u /\ item'[t] # NULL => item'[t] # item'[u]
      BY <1>1, <1>4 DEF IDInv, DInv, ItemConservation
    <2>3. Queued' \cap Carried' = {}
      BY <1>10 DEF IDInv, DInv, ItemConservation
    <2> QED
      BY <1>1, <1>3, <2>1, <2>2, <2>3 DEF IDInv, DInv, ItemConservation
  <1> QED
    BY <1>5, <1>6, <1>7, <1>11 DEF DInv

\* No thread carries anything when the queue is destroyed.
LEMMA DestroyKeepsDInv ==
    ASSUME IDInv, Destroy
    PROVE  DInv'
  <1>1. /\ ~destroyed /\ destroyed'
        /\ \A t \in Threads : pc[t] = "idle"
        /\ heap' = heap \ {buffer[i] : i \in Slots}
        /\ UNCHANGED <<pc, item, buffer, head, tail>>
    BY DEF Destroy
  <1>2. RingFilled' /\ Carrying' /\ DeadQueue'
    BY <1>1 DEF IDInv, DInv, RingFilled, Window, Carrying, DeadQueue
  <1>3. \A t \in Threads : item[t] = NULL
    BY <1>1 DEF IDInv, DInv, Carrying, Threads
  <1>4. Carried = {} /\ heap = Queued
    BY <1>1, <1>3 DEF Carried, IDInv, DInv, ItemConservation
  <1>5. heap' = {}
    BY <1>1, <1>4 DEF Queued
  <1>6. Carried' = Carried
    BY <1>1 DEF Carried
  <1>7. ItemConservation'
    BY <1>1, <1>4, <1>5, <1>6 DEF IDInv, DInv, ItemConservation
  <1> QED
    BY <1>2, <1>7 DEF DInv

\* A step that leaves the ring and every element where it is.
LEMMA ElementsStay ==
    ASSUME IDInv, UNCHANGED <<item, buffer, head, tail, heap, destroyed>>,
           Carrying', DeadQueue'
    PROVE  DInv'
  BY DEF IDInv, DInv, RingFilled, Window, ItemConservation, Queued, Carried

\* Every step keeps the ring and the objects right.
LEMMA NextDInv == IDInv /\ [Next]_vars => DInv'
  <1> SUFFICES ASSUME IDInv, [Next]_vars PROVE DInv'  OBVIOUS
  <1> USE ThreadsAssumption DEF IDInv, DInv, IInv, TypeOK, Threads
  <1>1. ASSUME NEW p \in Producers, NEW v \in Items, Enqueue(p, v) PROVE DInv'
    BY <1>1, EnqueueKeepsDInv
  <1>2. ASSUME NEW p \in Producers, EnqueueLockSize(p) PROVE DInv'
    <2>1. UNCHANGED <<item, buffer, head, tail, heap, destroyed>>
      BY <1>2 DEF EnqueueLockSize
    <2>2. Carrying' /\ DeadQueue'
      BY <1>2 DEF EnqueueLockSize, Goto, Lock, Carrying, DeadQueue
    <2> QED  BY <2>1, <2>2, ElementsStay
  <1>3. ASSUME NEW p \in Producers, EnqueueWait(p) PROVE DInv'
    <2>1. UNCHANGED <<item, buffer, head, tail, heap, destroyed>>
      BY <1>3 DEF EnqueueWait
    <2>2. Carrying' /\ DeadQueue'
      BY <1>3 DEF EnqueueWait, Goto, Sleep, Unlock, Carrying, DeadQueue
    <2> QED  BY <2>1, <2>2, ElementsStay
  <1>4. ASSUME NEW p \in Producers, EnqueueProceed(p) PROVE DInv'
    <2>1. UNCHANGED <<item, buffer, head, tail, heap, destroyed>>
      BY <1>4 DEF EnqueueProceed
    <2>2. Carrying' /\ DeadQueue'
      BY <1>4 DEF EnqueueProceed, Goto, Carrying, DeadQueue
    <2> QED  BY <2>1, <2>2, ElementsStay
  <1>5. ASSUME NEW p \in Producers, EnqueueLockTail(p) PROVE DInv'
    <2>1. UNCHANGED <<item, buffer, head, tail, heap, destroyed>>
      BY <1>5 DEF EnqueueLockTail
    <2>2. Carrying' /\ DeadQueue'
      BY <1>5 DEF EnqueueLockTail, Goto, Lock, Carrying, DeadQueue
    <2> QED  BY <2>1, <2>2, ElementsStay
  <1>6. ASSUME NEW p \in Producers, EnqueueLockHead(p) PROVE DInv'
    <2>1. UNCHANGED <<item, buffer, head, tail, heap, destroyed>>
      BY <1>6 DEF EnqueueLockHead
    <2>2. Carrying' /\ DeadQueue'
      BY <1>6 DEF EnqueueLockHead, Goto, Lock, Carrying, DeadQueue
    <2> QED  BY <2>1, <2>2, ElementsStay
  <1>7. ASSUME NEW p \in Producers, EnqueueCompare(p) PROVE DInv'
    <2>1. UNCHANGED <<item, buffer, head, tail, heap, destroyed>>
      BY <1>7 DEF EnqueueCompare
    <2>2. Carrying' /\ DeadQueue'
      BY <1>7 DEF EnqueueCompare, Goto, Unlock, Carrying, DeadQueue
    <2> QED  BY <2>1, <2>2, ElementsStay
  <1>8. ASSUME NEW p \in Producers, EnqueueInsert(p) PROVE DInv'
    BY <1>8, InsertKeepsDInv
  <1>9. ASSUME NEW p \in Producers, EnqueueCount(p) PROVE DInv'
    <2>1. UNCHANGED <<item, buffer, head, tail, heap, destroyed>>
      BY <1>9 DEF EnqueueCount
    <2>2. Carrying' /\ DeadQueue'
      BY <1>9 DEF EnqueueCount, Goto, Unlock, Carrying, DeadQueue
    <2> QED  BY <2>1, <2>2, ElementsStay
  <1>10. ASSUME NEW p \in Producers, EnqueueUnlockHead(p) PROVE DInv'
    <2>1. UNCHANGED <<item, buffer, head, tail, heap, destroyed>>
      BY <1>10 DEF EnqueueUnlockHead
    <2>2. Carrying' /\ DeadQueue'
      BY <1>10 DEF EnqueueUnlockHead, Goto, Unlock, Carrying, DeadQueue
    <2> QED  BY <2>1, <2>2, ElementsStay
  <1>11. ASSUME NEW p \in Producers, EnqueueSignal(p) PROVE DInv'
    <2>1. UNCHANGED <<item, buffer, head, tail, heap, destroyed>>
      BY <1>11 DEF EnqueueSignal
    <2>2. Carrying' /\ DeadQueue'
      BY <1>11 DEF EnqueueSignal, Goto, SignalOne, Waiting, Carrying, DeadQueue
    <2> QED  BY <2>1, <2>2, ElementsStay
  <1>12. ASSUME NEW c \in Consumers, Dequeue(c) PROVE DInv'
    <2>1. UNCHANGED <<item, buffer, head, tail, heap, destroyed>>
      BY <1>12 DEF Dequeue
    <2>2. Carrying' /\ DeadQueue'
      BY <1>12 DEF Dequeue, Goto, Carrying, DeadQueue
    <2> QED  BY <2>1, <2>2, ElementsStay
  <1>13. ASSUME NEW c \in Consumers, DequeueLockSize(c) PROVE DInv'
    <2>1. UNCHANGED <<item, buffer, head, tail, heap, destroyed>>
      BY <1>13 DEF DequeueLockSize
    <2>2. Carrying' /\ DeadQueue'
      BY <1>13 DEF DequeueLockSize, Goto, Lock, Carrying, DeadQueue
    <2> QED  BY <2>1, <2>2, ElementsStay
  <1>14. ASSUME NEW c \in Consumers, DequeueWait(c) PROVE DInv'
    <2>1. UNCHANGED <<item, buffer, head, tail, heap, destroyed>>
      BY <1>14 DEF DequeueWait
    <2>2. Carrying' /\ DeadQueue'
      BY <1>14 DEF DequeueWait, Goto, Sleep, Unlock, Carrying, DeadQueue
    <2> QED  BY <2>1, <2>2, ElementsStay
  <1>15. ASSUME NEW c \in Consumers, DequeueProceed(c) PROVE DInv'
    <2>1. UNCHANGED <<item, buffer, head, tail, heap, destroyed>>
      BY <1>15 DEF DequeueProceed
    <2>2. Carrying' /\ DeadQueue'
      BY <1>15 DEF DequeueProceed, Goto, Carrying, DeadQueue
    <2> QED  BY <2>1, <2>2, ElementsStay
  <1>16. ASSUME NEW c \in Consumers, DequeueLockHead(c) PROVE DInv'
    <2>1. UNCHANGED <<item, buffer, head, tail, heap, destroyed>>
      BY <1>16 DEF DequeueLockHead
    <2>2. Carrying' /\ DeadQueue'
      BY <1>16 DEF DequeueLockHead, Goto, Lock, Carrying, DeadQueue
    <2> QED  BY <2>1, <2>2, ElementsStay
  <1>17. ASSUME NEW c \in Consumers, DequeueLockTail(c) PROVE DInv'
    <2>1. UNCHANGED <<item, buffer, head, tail, heap, destroyed>>
      BY <1>17 DEF DequeueLockTail
    <2>2. Carrying' /\ DeadQueue'
      BY <1>17 DEF DequeueLockTail, Goto, Lock, Carrying, DeadQueue
    <2> QED  BY <2>1, <2>2, ElementsStay
  <1>18. ASSUME NEW c \in Consumers, DequeueCompare(c) PROVE DInv'
    <2>1. UNCHANGED <<item, buffer, head, tail, heap, destroyed>>
      BY <1>18 DEF DequeueCompare
    <2>2. Carrying' /\ DeadQueue'
      BY <1>18 DEF DequeueCompare, Goto, Unlock, Carrying, DeadQueue
    <2> QED  BY <2>1, <2>2, ElementsStay
  <1>19. ASSUME NEW c \in Consumers, DequeueRemove(c) PROVE DInv'
    BY <1>19, RemoveKeepsDInv
  <1>20. ASSUME NEW c \in Consumers, DequeueCount(c) PROVE DInv'
    <2>1. UNCHANGED <<item, buffer, head, tail, heap, destroyed>>
      BY <1>20 DEF DequeueCount
    <2>2. Carrying' /\ DeadQueue'
      BY <1>20 DEF DequeueCount, Goto, Unlock, Carrying, DeadQueue
    <2> QED  BY <2>1, <2>2, ElementsStay
  <1>21. ASSUME NEW c \in Consumers, DequeueUnlockTail(c) PROVE DInv'
    <2>1. UNCHANGED <<item, buffer, head, tail, heap, destroyed>>
      BY <1>21 DEF DequeueUnlockTail
    <2>2. Carrying' /\ DeadQueue'
      BY <1>21 DEF DequeueUnlockTail, Goto, Unlock, Carrying, DeadQueue
    <2> QED  BY <2>1, <2>2, ElementsStay
  <1>22. ASSUME NEW c \in Consumers, DequeueSignal(c) PROVE DInv'
    <2>1. UNCHANGED <<item, buffer, head, tail, heap, destroyed>>
      BY <1>22 DEF DequeueSignal
    <2>2. Carrying' /\ DeadQueue'
      BY <1>22 DEF DequeueSignal, Goto, SignalOne, Waiting, Carrying, DeadQueue
    <2> QED  BY <2>1, <2>2, ElementsStay
  <1>23. ASSUME NEW c \in Consumers, Handle(c) PROVE DInv'
    BY <1>23, HandleKeepsDInv
  <1>24. ASSUME NEW t \in Threads, SpuriousWakeup(t) PROVE DInv'
    <2>1. UNCHANGED <<item, buffer, head, tail, heap, destroyed>>
      BY <1>24 DEF SpuriousWakeup
    <2>2. Carrying' /\ DeadQueue'
      BY <1>24 DEF SpuriousWakeup, Goto, Carrying, DeadQueue
    <2> QED  BY <2>1, <2>2, ElementsStay
  <1>25. ASSUME Destroy PROVE DInv'
    BY <1>25, DestroyKeepsDInv
  <1>26. CASE UNCHANGED vars
    BY <1>26, ElementsStay DEF vars, Carrying, DeadQueue
  <1> QED
    BY <1>1, <1>2, <1>3, <1>4, <1>5, <1>6, <1>7, <1>8, <1>9, <1>10, <1>11, <1>12, <1>13, <1>14, <1>15, <1>16, <1>17, <1>18, <1>19, <1>20, <1>21, <1>22, <1>23, <1>24, <1>25, <1>26
    DEF Next, Producer, EnqueueLocks, EnqueueSteps, Consumer, DequeueLocks, DequeueSteps, Stutter

\* Groups of threads can be counted.
LEMMA GroupsFinite ==
    ASSUME NEW A \in SUBSET Threads
    PROVE  IsFiniteSet(A) /\ Cardinality(A) \in Nat
  BY ThreadsAssumption, FS_Subset, FS_CardinalityType

\* The signals due and the threads on their way still cover n when there are
\* more of them.
LEMMA CoverGrows ==
    ASSUME NEW n \in Int,
           NEW P \in SUBSET Threads, NEW Q \in SUBSET Threads, P \subseteq Q,
           NEW C \in SUBSET Threads, NEW D \in SUBSET Threads, C \subseteq D,
           n <= Cardinality(P) + Cardinality(C)
    PROVE  n <= Cardinality(Q) + Cardinality(D)
  <1>1. /\ Cardinality(P) \in Nat /\ Cardinality(Q) \in Nat /\ Cardinality(P) <= Cardinality(Q)
        /\ Cardinality(C) \in Nat /\ Cardinality(D) \in Nat /\ Cardinality(C) <= Cardinality(D)
    BY GroupsFinite, FS_Subset
  <1> QED  BY <1>1

\* One more signal due covers one more.
LEMMA CoverOneMore ==
    ASSUME NEW n \in Int, NEW P \in SUBSET Threads, NEW C \in SUBSET Threads,
           n <= Cardinality(P) + Cardinality(C), NEW x \in Threads \ P
    PROVE  n + 1 <= Cardinality(P \cup {x}) + Cardinality(C)
  <1>1. Cardinality(P) \in Nat /\ Cardinality(C) \in Nat /\ IsFiniteSet(P)
    BY GroupsFinite
  <1>2. Cardinality(P \cup {x}) = Cardinality(P) + 1
    BY <1>1, FS_AddElement
  <1> QED  BY <1>1, <1>2

\* One thread fewer on its way covers one fewer.
LEMMA CoverOneLess ==
    ASSUME NEW n \in Int, NEW P \in SUBSET Threads, NEW C \in SUBSET Threads,
           n <= Cardinality(P) + Cardinality(C), NEW y \in C
    PROVE  n - 1 <= Cardinality(P) + Cardinality(C \ {y})
  <1>1. Cardinality(P) \in Nat /\ Cardinality(C) \in Nat /\ IsFiniteSet(C)
    BY GroupsFinite
  <1>2. Cardinality(C \ {y}) = Cardinality(C) - 1
    BY <1>1, FS_RemoveElement
  <1> QED  BY <1>1, <1>2

\* A signal that wakes a thread puts that thread on its way instead.
LEMMA CoverPassedOn ==
    ASSUME NEW n \in Int, NEW P \in SUBSET Threads, NEW C \in SUBSET Threads,
           n <= Cardinality(P) + Cardinality(C), NEW x \in P, NEW y \in Threads \ C
    PROVE  n <= Cardinality(P \ {x}) + Cardinality(C \cup {y})
  <1>1. /\ Cardinality(P) \in Nat /\ Cardinality(C) \in Nat
        /\ IsFiniteSet(P) /\ IsFiniteSet(C)
    BY GroupsFinite
  <1>2. /\ Cardinality(P \ {x}) = Cardinality(P) - 1
        /\ Cardinality(C \cup {y}) = Cardinality(C) + 1
    BY <1>1, FS_AddElement, FS_RemoveElement
  <1> QED  BY <1>1, <1>2

\* No step uncovers an element while a worker sleeps.
LEMMA NextPopper == IInv /\ NoLostPopperSignal /\ [Next]_vars => NoLostPopperSignal'
  <1> SUFFICES ASSUME IInv, NoLostPopperSignal, [Next]_vars PROVE NoLostPopperSignal'  OBVIOUS
  <1> DEFINE W == Waiting(Consumers)
             P == SignalsDue(Producers)
             C == OnTheWay(Consumers)
  <1>a. P \in SUBSET Threads /\ C \in SUBSET Threads /\ P' \in SUBSET Threads /\ C' \in SUBSET Threads
    BY DEF SignalsDue, OnTheWay, Threads
  <1>b. size \in Nat /\ size \in Int /\ pc \in [Threads -> Labels]
    BY CapacityAssumption DEF IInv, TypeOK
  <1>c. W # {} => size <= Cardinality(P) + Cardinality(C)
    BY DEF NoLostPopperSignal
  <1>d. ASSUME W' \subseteq W, P \subseteq P', C \subseteq C', size' = size
        PROVE  NoLostPopperSignal'
    <2> SUFFICES ASSUME W' # {} PROVE size' <= Cardinality(P') + Cardinality(C')
      BY DEF NoLostPopperSignal
    <2> HIDE DEF W, P, C
    <2>1. size' = size /\ W # {}
      BY <1>d
    <2> QED  BY <1>a, <1>b, <1>c, <1>d, <2>1, CoverGrows
  <1>1. ASSUME NEW p \in Producers, NEW v \in Items, Enqueue(p, v) PROVE NoLostPopperSignal'
    <2>1. W' \subseteq W /\ P \subseteq P' /\ C \subseteq C'
      BY <1>1, <1>b, ThreadsAssumption DEF Enqueue, Goto, Waiting, SignalsDue, OnTheWay, Threads
    <2> QED  BY <1>1, <2>1, <1>d DEF Enqueue
  <1>2. ASSUME NEW p \in Producers, EnqueueLockSize(p) PROVE NoLostPopperSignal'
    <2>1. W' \subseteq W /\ P \subseteq P' /\ C \subseteq C'
      BY <1>2, <1>b, ThreadsAssumption DEF EnqueueLockSize, Goto, Lock, Waiting, SignalsDue, OnTheWay, Threads
    <2> QED  BY <1>2, <2>1, <1>d DEF EnqueueLockSize
  <1>3. ASSUME NEW p \in Producers, EnqueueWait(p) PROVE NoLostPopperSignal'
    <2>1. W' \subseteq W /\ P \subseteq P' /\ C \subseteq C'
      BY <1>3, <1>b, ThreadsAssumption DEF EnqueueWait, Goto, Sleep, Unlock, Waiting, SignalsDue, OnTheWay, Threads
    <2> QED  BY <1>3, <2>1, <1>d DEF EnqueueWait
  <1>4. ASSUME NEW p \in Producers, EnqueueProceed(p) PROVE NoLostPopperSignal'
    <2>1. W' \subseteq W /\ P \subseteq P' /\ C \subseteq C'
      BY <1>4, <1>b, ThreadsAssumption DEF EnqueueProceed, Goto, Waiting, SignalsDue, OnTheWay, Threads
    <2> QED  BY <1>4, <2>1, <1>d DEF EnqueueProceed
  <1>5. ASSUME NEW p \in Producers, EnqueueLockTail(p) PROVE NoLostPopperSignal'
    <2>1. W' \subseteq W /\ P \subseteq P' /\ C \subseteq C'
      BY <1>5, <1>b, ThreadsAssumption DEF EnqueueLockTail, Goto, Lock, Waiting, SignalsDue, OnTheWay, Threads
    <2> QED  BY <1>5, <2>1, <1>d DEF EnqueueLockTail
  <1>6. ASSUME NEW p \in Producers, EnqueueLockHead(p) PROVE NoLostPopperSignal'
    <2>1. W' \subseteq W /\ P \subseteq P' /\ C \subseteq C'
      BY <1>6, <1>b, ThreadsAssumption DEF EnqueueLockHead, Goto, Lock, Waiting, SignalsDue, OnTheWay, Threads
    <2> QED  BY <1>6, <2>1, <1>d DEF EnqueueLockHead
  <1>7. ASSUME NEW p \in Producers, EnqueueCompare(p) PROVE NoLostPopperSignal'
    <2>1. W' \subseteq W /\ P \subseteq P' /\ C \subseteq C'
      BY <1>7, <1>b, ThreadsAssumption DEF EnqueueCompare, Goto, Unlock, Waiting, SignalsDue, OnTheWay, Threads
    <2> QED  BY <1>7, <2>1, <1>d DEF EnqueueCompare
  <1>8. ASSUME NEW p \in Producers, EnqueueInsert(p) PROVE NoLostPopperSignal'
    <2>1. W' \subseteq W /\ P \subseteq P' /\ C \subseteq C'
      BY <1>8, <1>b, ThreadsAssumption DEF EnqueueInsert, Goto, Unlock, Waiting, SignalsDue, OnTheWay, Threads
    <2> QED  BY <1>8, <2>1, <1>d DEF EnqueueInsert
  <1>9. ASSUME NEW p \in Producers, EnqueueCount(p) PROVE NoLostPopperSignal'
    <2>1. pc[p] = "count" /\ pc' = [pc EXCEPT ![p] = "unlock_other"] /\ size' = size + 1
      BY <1>9 DEF EnqueueCount, Goto
    <2>2. p \in Threads \ P /\ P' = P \cup {p} /\ C' = C /\ W' = W
      BY <1>b, <2>1, ThreadsAssumption DEF Waiting, SignalsDue, OnTheWay, Threads
    <2>3. (size)' = (size) + 1
      BY <1>b, <2>1, CapacityAssumption
    <2> SUFFICES ASSUME W' # {} PROVE (size)' <= Cardinality(P') + Cardinality(C')
      BY DEF NoLostPopperSignal
    <2> HIDE DEF W, P, C
    <2> QED  BY <1>a, <1>b, <1>c, <2>2, <2>3, CoverOneMore
  <1>10. ASSUME NEW p \in Producers, EnqueueUnlockHead(p) PROVE NoLostPopperSignal'
    <2>1. W' \subseteq W /\ P \subseteq P' /\ C \subseteq C'
      BY <1>10, <1>b, ThreadsAssumption DEF EnqueueUnlockHead, Goto, Unlock, Waiting, SignalsDue, OnTheWay, Threads
    <2> QED  BY <1>10, <2>1, <1>d DEF EnqueueUnlockHead
  <1>11. ASSUME NEW p \in Producers, EnqueueSignal(p) PROVE NoLostPopperSignal'
    <2>1. CASE W = {}
      <3>1. W' = {}
        BY <1>11, <1>b, <2>1, ThreadsAssumption DEF EnqueueSignal, SignalOne, Goto, Waiting, Threads
      <3> QED  BY <3>1 DEF NoLostPopperSignal
    <2>2. ASSUME NEW w \in W, pc' = [pc EXCEPT ![p] = "idle", ![w] = "lock_size"]
          PROVE  NoLostPopperSignal'
      <3>1. /\ p \in P /\ P' = P \ {p}
            /\ w \in Threads \ C /\ C' = C \cup {w}
        BY <1>11, <1>b, <2>2, ThreadsAssumption DEF EnqueueSignal, Waiting, SignalsDue, OnTheWay, Threads
      <3>2. (size)' = size /\ size <= Cardinality(P) + Cardinality(C)
        BY <1>11, <1>c, <2>2 DEF EnqueueSignal
      <3> HIDE DEF P, C
      <3>3. (size)' <= Cardinality(P') + Cardinality(C')
        BY <1>a, <1>b, <3>1, <3>2, CoverPassedOn
      <3> QED  BY <3>3 DEF NoLostPopperSignal, P, C
    <2> QED
      BY <1>11, <2>1, <2>2 DEF EnqueueSignal, SignalOne
  <1>12. ASSUME NEW c \in Consumers, Dequeue(c) PROVE NoLostPopperSignal'
    <2>1. W' \subseteq W /\ P \subseteq P' /\ C \subseteq C'
      BY <1>12, <1>b, ThreadsAssumption DEF Dequeue, Goto, Waiting, SignalsDue, OnTheWay, Threads
    <2> QED  BY <1>12, <2>1, <1>d DEF Dequeue
  <1>13. ASSUME NEW c \in Consumers, DequeueLockSize(c) PROVE NoLostPopperSignal'
    <2>1. W' \subseteq W /\ P \subseteq P' /\ C \subseteq C'
      BY <1>13, <1>b, ThreadsAssumption DEF DequeueLockSize, Goto, Lock, Waiting, SignalsDue, OnTheWay, Threads
    <2> QED  BY <1>13, <2>1, <1>d DEF DequeueLockSize
  <1>14. ASSUME NEW c \in Consumers, DequeueWait(c) PROVE NoLostPopperSignal'
    <2>1. (size)' = 0
      BY <1>14, CapacityAssumption DEF DequeueWait
    <2>2. 0 <= Cardinality(P') + Cardinality(C')
      <3> HIDE DEF P, C
      <3> QED  BY <1>a, GroupsFinite
    <2> QED  BY <2>1, <2>2 DEF NoLostPopperSignal
  <1>15. ASSUME NEW c \in Consumers, DequeueProceed(c) PROVE NoLostPopperSignal'
    <2>1. W' \subseteq W /\ P \subseteq P' /\ C \subseteq C'
      BY <1>15, <1>b, ThreadsAssumption DEF DequeueProceed, Goto, Waiting, SignalsDue, OnTheWay, Threads
    <2> QED  BY <1>15, <2>1, <1>d DEF DequeueProceed
  <1>16. ASSUME NEW c \in Consumers, DequeueLockHead(c) PROVE NoLostPopperSignal'
    <2>1. W' \subseteq W /\ P \subseteq P' /\ C \subseteq C'
      BY <1>16, <1>b, ThreadsAssumption DEF DequeueLockHead, Goto, Lock, Waiting, SignalsDue, OnTheWay, Threads
    <2> QED  BY <1>16, <2>1, <1>d DEF DequeueLockHead
  <1>17. ASSUME NEW c \in Consumers, DequeueLockTail(c) PROVE NoLostPopperSignal'
    <2>1. W' \subseteq W /\ P \subseteq P' /\ C \subseteq C'
      BY <1>17, <1>b, ThreadsAssumption DEF DequeueLockTail, Goto, Lock, Waiting, SignalsDue, OnTheWay, Threads
    <2> QED  BY <1>17, <2>1, <1>d DEF DequeueLockTail
  <1>18. ASSUME NEW c \in Consumers, DequeueCompare(c) PROVE NoLostPopperSignal'
    <2>1. W' \subseteq W /\ P \subseteq P' /\ C \subseteq C'
      BY <1>18, <1>b, ThreadsAssumption DEF DequeueCompare, Goto, Unlock, Waiting, SignalsDue, OnTheWay, Threads
    <2> QED  BY <1>18, <2>1, <1>d DEF DequeueCompare
  <1>19. ASSUME NEW c \in Consumers, DequeueRemove(c) PROVE NoLostPopperSignal'
    <2>1. W' \subseteq W /\ P \subseteq P' /\ C \subseteq C'
      BY <1>19, <1>b, ThreadsAssumption DEF DequeueRemove, Goto, Unlock, Waiting, SignalsDue, OnTheWay, Threads
    <2> QED  BY <1>19, <2>1, <1>d DEF DequeueRemove
  <1>20. ASSUME NEW c \in Consumers, DequeueCount(c) PROVE NoLostPopperSignal'
    <2>1. pc[c] = "count" /\ pc' = [pc EXCEPT ![c] = "unlock_other"] /\ size' = size - 1
      BY <1>20 DEF DequeueCount, Goto
    <2>2. c \in C /\ C' = C \ {c} /\ P' = P /\ W' = W
      BY <1>b, <2>1, ThreadsAssumption DEF Waiting, SignalsDue, OnTheWay, Threads
    <2>3. (size)' = (size) - 1
      BY <1>b, <2>1, CapacityAssumption
    <2> SUFFICES ASSUME W' # {} PROVE (size)' <= Cardinality(P') + Cardinality(C')
      BY DEF NoLostPopperSignal
    <2> HIDE DEF W, P, C
    <2> QED  BY <1>a, <1>b, <1>c, <2>2, <2>3, CoverOneLess
  <1>21. ASSUME NEW c \in Consumers, DequeueUnlockTail(c) PROVE NoLostPopperSignal'
    <2>1. W' \subseteq W /\ P \subseteq P' /\ C \subseteq C'
      BY <1>21, <1>b, ThreadsAssumption DEF DequeueUnlockTail, Goto, Unlock, Waiting, SignalsDue, OnTheWay, Threads
    <2> QED  BY <1>21, <2>1, <1>d DEF DequeueUnlockTail
  <1>22. ASSUME NEW c \in Consumers, DequeueSignal(c) PROVE NoLostPopperSignal'
    <2>1. W' \subseteq W /\ P \subseteq P' /\ C \subseteq C'
      BY <1>22, <1>b, ThreadsAssumption DEF DequeueSignal, Goto, SignalOne, Waiting, SignalsDue, OnTheWay, Threads
    <2> QED  BY <1>22, <2>1, <1>d DEF DequeueSignal
  <1>23. ASSUME NEW c \in Consumers, Handle(c) PROVE NoLostPopperSignal'
    <2>1. W' \subseteq W /\ P \subseteq P' /\ C \subseteq C'
      BY <1>23, <1>b, ThreadsAssumption DEF Handle, Goto, Waiting, SignalsDue, OnTheWay, Threads
    <2> QED  BY <1>23, <2>1, <1>d DEF Handle
  <1>24. ASSUME NEW t \in Threads, SpuriousWakeup(t) PROVE NoLostPopperSignal'
    <2>1. W' \subseteq W /\ P \subseteq P' /\ C \subseteq C'
      BY <1>24, <1>b, ThreadsAssumption DEF SpuriousWakeup, Goto, Waiting, SignalsDue, OnTheWay, Threads
    <2> QED  BY <1>24, <2>1, <1>d DEF SpuriousWakeup
  <1>25. ASSUME Destroy PROVE NoLostPopperSignal'
    BY <1>25, <1>d DEF Destroy, Waiting, SignalsDue, OnTheWay
  <1>26. CASE UNCHANGED vars
    BY <1>26, <1>d DEF vars, Waiting, SignalsDue, OnTheWay
  <1> QED
    BY <1>1, <1>2, <1>3, <1>4, <1>5, <1>6, <1>7, <1>8, <1>9, <1>10, <1>11, <1>12, <1>13, <1>14, <1>15, <1>16, <1>17, <1>18, <1>19, <1>20, <1>21, <1>22, <1>23, <1>24, <1>25, <1>26
    DEF Next, Producer, EnqueueLocks, EnqueueSteps, Consumer, DequeueLocks, DequeueSteps, Stutter

\* No step uncovers a free place while a producer sleeps.
LEMMA NextPusher == IInv /\ NoLostPusherSignal /\ [Next]_vars => NoLostPusherSignal'
  <1> SUFFICES ASSUME IInv, NoLostPusherSignal, [Next]_vars PROVE NoLostPusherSignal'  OBVIOUS
  <1> DEFINE W == Waiting(Producers)
             P == SignalsDue(Consumers)
             C == OnTheWay(Producers)
  <1>a. P \in SUBSET Threads /\ C \in SUBSET Threads /\ P' \in SUBSET Threads /\ C' \in SUBSET Threads
    BY DEF SignalsDue, OnTheWay, Threads
  <1>b. size \in Nat /\ Capacity - size \in Int /\ pc \in [Threads -> Labels]
    BY CapacityAssumption DEF IInv, TypeOK
  <1>c. W # {} => Capacity - size <= Cardinality(P) + Cardinality(C)
    BY DEF NoLostPusherSignal
  <1>d. ASSUME W' \subseteq W, P \subseteq P', C \subseteq C', size' = size
        PROVE  NoLostPusherSignal'
    <2> SUFFICES ASSUME W' # {} PROVE Capacity - size' <= Cardinality(P') + Cardinality(C')
      BY DEF NoLostPusherSignal
    <2> HIDE DEF W, P, C
    <2>1. Capacity - size' = Capacity - size /\ W # {}
      BY <1>d
    <2> QED  BY <1>a, <1>b, <1>c, <1>d, <2>1, CoverGrows
  <1>1. ASSUME NEW p \in Producers, NEW v \in Items, Enqueue(p, v) PROVE NoLostPusherSignal'
    <2>1. W' \subseteq W /\ P \subseteq P' /\ C \subseteq C'
      BY <1>1, <1>b, ThreadsAssumption DEF Enqueue, Goto, Waiting, SignalsDue, OnTheWay, Threads
    <2> QED  BY <1>1, <2>1, <1>d DEF Enqueue
  <1>2. ASSUME NEW p \in Producers, EnqueueLockSize(p) PROVE NoLostPusherSignal'
    <2>1. W' \subseteq W /\ P \subseteq P' /\ C \subseteq C'
      BY <1>2, <1>b, ThreadsAssumption DEF EnqueueLockSize, Goto, Lock, Waiting, SignalsDue, OnTheWay, Threads
    <2> QED  BY <1>2, <2>1, <1>d DEF EnqueueLockSize
  <1>3. ASSUME NEW p \in Producers, EnqueueWait(p) PROVE NoLostPusherSignal'
    <2>1. (Capacity - size)' = 0
      BY <1>3, CapacityAssumption DEF EnqueueWait
    <2>2. 0 <= Cardinality(P') + Cardinality(C')
      <3> HIDE DEF P, C
      <3> QED  BY <1>a, GroupsFinite
    <2> QED  BY <2>1, <2>2 DEF NoLostPusherSignal
  <1>4. ASSUME NEW p \in Producers, EnqueueProceed(p) PROVE NoLostPusherSignal'
    <2>1. W' \subseteq W /\ P \subseteq P' /\ C \subseteq C'
      BY <1>4, <1>b, ThreadsAssumption DEF EnqueueProceed, Goto, Waiting, SignalsDue, OnTheWay, Threads
    <2> QED  BY <1>4, <2>1, <1>d DEF EnqueueProceed
  <1>5. ASSUME NEW p \in Producers, EnqueueLockTail(p) PROVE NoLostPusherSignal'
    <2>1. W' \subseteq W /\ P \subseteq P' /\ C \subseteq C'
      BY <1>5, <1>b, ThreadsAssumption DEF EnqueueLockTail, Goto, Lock, Waiting, SignalsDue, OnTheWay, Threads
    <2> QED  BY <1>5, <2>1, <1>d DEF EnqueueLockTail
  <1>6. ASSUME NEW p \in Producers, EnqueueLockHead(p) PROVE NoLostPusherSignal'
    <2>1. W' \subseteq W /\ P \subseteq P' /\ C \subseteq C'
      BY <1>6, <1>b, ThreadsAssumption DEF EnqueueLockHead, Goto, Lock, Waiting, SignalsDue, OnTheWay, Threads
    <2> QED  BY <1>6, <2>1, <1>d DEF EnqueueLockHead
  <1>7. ASSUME NEW p \in Producers, EnqueueCompare(p) PROVE NoLostPusherSignal'
    <2>1. W' \subseteq W /\ P \subseteq P' /\ C \subseteq C'
      BY <1>7, <1>b, ThreadsAssumption DEF EnqueueCompare, Goto, Unlock, Waiting, SignalsDue, OnTheWay, Threads
    <2> QED  BY <1>7, <2>1, <1>d DEF EnqueueCompare
  <1>8. ASSUME NEW p \in Producers, EnqueueInsert(p) PROVE NoLostPusherSignal'
    <2>1. W' \subseteq W /\ P \subseteq P' /\ C \subseteq C'
      BY <1>8, <1>b, ThreadsAssumption DEF EnqueueInsert, Goto, Unlock, Waiting, SignalsDue, OnTheWay, Threads
    <2> QED  BY <1>8, <2>1, <1>d DEF EnqueueInsert
  <1>9. ASSUME NEW p \in Producers, EnqueueCount(p) PROVE NoLostPusherSignal'
    <2>1. pc[p] = "count" /\ pc' = [pc EXCEPT ![p] = "unlock_other"] /\ size' = size + 1
      BY <1>9 DEF EnqueueCount, Goto
    <2>2. p \in C /\ C' = C \ {p} /\ P' = P /\ W' = W
      BY <1>b, <2>1, ThreadsAssumption DEF Waiting, SignalsDue, OnTheWay, Threads
    <2>3. (Capacity - size)' = (Capacity - size) - 1
      BY <1>b, <2>1, CapacityAssumption
    <2> SUFFICES ASSUME W' # {} PROVE (Capacity - size)' <= Cardinality(P') + Cardinality(C')
      BY DEF NoLostPusherSignal
    <2> HIDE DEF W, P, C
    <2> QED  BY <1>a, <1>b, <1>c, <2>2, <2>3, CoverOneLess
  <1>10. ASSUME NEW p \in Producers, EnqueueUnlockHead(p) PROVE NoLostPusherSignal'
    <2>1. W' \subseteq W /\ P \subseteq P' /\ C \subseteq C'
      BY <1>10, <1>b, ThreadsAssumption DEF EnqueueUnlockHead, Goto, Unlock, Waiting, SignalsDue, OnTheWay, Threads
    <2> QED  BY <1>10, <2>1, <1>d DEF EnqueueUnlockHead
  <1>11. ASSUME NEW p \in Producers, EnqueueSignal(p) PROVE NoLostPusherSignal'
    <2>1. W' \subseteq W /\ P \subseteq P' /\ C \subseteq C'
      BY <1>11, <1>b, ThreadsAssumption DEF EnqueueSignal, Goto, SignalOne, Waiting, SignalsDue, OnTheWay, Threads
    <2> QED  BY <1>11, <2>1, <1>d DEF EnqueueSignal
  <1>12. ASSUME NEW c \in Consumers, Dequeue(c) PROVE NoLostPusherSignal'
    <2>1. W' \subseteq W /\ P \subseteq P' /\ C \subseteq C'
      BY <1>12, <1>b, ThreadsAssumption DEF Dequeue, Goto, Waiting, SignalsDue, OnTheWay, Threads
    <2> QED  BY <1>12, <2>1, <1>d DEF Dequeue
  <1>13. ASSUME NEW c \in Consumers, DequeueLockSize(c) PROVE NoLostPusherSignal'
    <2>1. W' \subseteq W /\ P \subseteq P' /\ C \subseteq C'
      BY <1>13, <1>b, ThreadsAssumption DEF DequeueLockSize, Goto, Lock, Waiting, SignalsDue, OnTheWay, Threads
    <2> QED  BY <1>13, <2>1, <1>d DEF DequeueLockSize
  <1>14. ASSUME NEW c \in Consumers, DequeueWait(c) PROVE NoLostPusherSignal'
    <2>1. W' \subseteq W /\ P \subseteq P' /\ C \subseteq C'
      BY <1>14, <1>b, ThreadsAssumption DEF DequeueWait, Goto, Sleep, Unlock, Waiting, SignalsDue, OnTheWay, Threads
    <2> QED  BY <1>14, <2>1, <1>d DEF DequeueWait
  <1>15. ASSUME NEW c \in Consumers, DequeueProceed(c) PROVE NoLostPusherSignal'
    <2>1. W' \subseteq W /\ P \subseteq P' /\ C \subseteq C'
      BY <1>15, <1>b, ThreadsAssumption DEF DequeueProceed, Goto, Waiting, SignalsDue, OnTheWay, Threads
    <2> QED  BY <1>15, <2>1, <1>d DEF DequeueProceed
  <1>16. ASSUME NEW c \in Consumers, DequeueLockHead(c) PROVE NoLostPusherSignal'
    <2>1. W' \subseteq W /\ P \subseteq P' /\ C \subseteq C'
      BY <1>16, <1>b, ThreadsAssumption DEF DequeueLockHead, Goto, Lock, Waiting, SignalsDue, OnTheWay, Threads
    <2> QED  BY <1>16, <2>1, <1>d DEF DequeueLockHead
  <1>17. ASSUME NEW c \in Consumers, DequeueLockTail(c) PROVE NoLostPusherSignal'
    <2>1. W' \subseteq W /\ P \subseteq P' /\ C \subseteq C'
      BY <1>17, <1>b, ThreadsAssumption DEF DequeueLockTail, Goto, Lock, Waiting, SignalsDue, OnTheWay, Threads
    <2> QED  BY <1>17, <2>1, <1>d DEF DequeueLockTail
  <1>18. ASSUME NEW c \in Consumers, DequeueCompare(c) PROVE NoLostPusherSignal'
    <2>1. W' \subseteq W /\ P \subseteq P' /\ C \subseteq C'
      BY <1>18, <1>b, ThreadsAssumption DEF DequeueCompare, Goto, Unlock, Waiting, SignalsDue, OnTheWay, Threads
    <2> QED  BY <1>18, <2>1, <1>d DEF DequeueCompare
  <1>19. ASSUME NEW c \in Consumers, DequeueRemove(c) PROVE NoLostPusherSignal'
    <2>1. W' \subseteq W /\ P \subseteq P' /\ C \subseteq C'
      BY <1>19, <1>b, ThreadsAssumption DEF DequeueRemove, Goto, Unlock, Waiting, SignalsDue, OnTheWay, Threads
    <2> QED  BY <1>19, <2>1, <1>d DEF DequeueRemove
  <1>20. ASSUME NEW c \in Consumers, DequeueCount(c) PROVE NoLostPusherSignal'
    <2>1. pc[c] = "count" /\ pc' = [pc EXCEPT ![c] = "unlock_other"] /\ size' = size - 1
      BY <1>20 DEF DequeueCount, Goto
    <2>2. c \in Threads \ P /\ P' = P \cup {c} /\ C' = C /\ W' = W
      BY <1>b, <2>1, ThreadsAssumption DEF Waiting, SignalsDue, OnTheWay, Threads
    <2>3. (Capacity - size)' = (Capacity - size) + 1
      BY <1>b, <2>1, CapacityAssumption
    <2> SUFFICES ASSUME W' # {} PROVE (Capacity - size)' <= Cardinality(P') + Cardinality(C')
      BY DEF NoLostPusherSignal
    <2> HIDE DEF W, P, C
    <2> QED  BY <1>a, <1>b, <1>c, <2>2, <2>3, CoverOneMore
  <1>21. ASSUME NEW c \in Consumers, DequeueUnlockTail(c) PROVE NoLostPusherSignal'
    <2>1. W' \subseteq W /\ P \subseteq P' /\ C \subseteq C'
      BY <1>21, <1>b, ThreadsAssumption DEF DequeueUnlockTail, Goto, Unlock, Waiting, SignalsDue, OnTheWay, Threads
    <2> QED  BY <1>21, <2>1, <1>d DEF DequeueUnlockTail
  <1>22. ASSUME NEW c \in Consumers, DequeueSignal(c) PROVE NoLostPusherSignal'
    <2>1. CASE W = {}
      <3>1. W' = {}
        BY <1>22, <1>b, <2>1, ThreadsAssumption DEF DequeueSignal, SignalOne, Goto, Waiting, Threads
      <3> QED  BY <3>1 DEF NoLostPusherSignal
    <2>2. ASSUME NEW w \in W, pc' = [pc EXCEPT ![c] = "handle", ![w] = "lock_size"]
          PROVE  NoLostPusherSignal'
      <3>1. /\ c \in P /\ P' = P \ {c}
            /\ w \in Threads \ C /\ C' = C \cup {w}
        BY <1>22, <1>b, <2>2, ThreadsAssumption DEF DequeueSignal, Waiting, SignalsDue, OnTheWay, Threads
      <3>2. (Capacity - size)' = Capacity - size /\ Capacity - size <= Cardinality(P) + Cardinality(C)
        BY <1>22, <1>c, <2>2 DEF DequeueSignal
      <3> HIDE DEF P, C
      <3>3. (Capacity - size)' <= Cardinality(P') + Cardinality(C')
        BY <1>a, <1>b, <3>1, <3>2, CoverPassedOn
      <3> QED  BY <3>3 DEF NoLostPusherSignal, P, C
    <2> QED
      BY <1>22, <2>1, <2>2 DEF DequeueSignal, SignalOne
  <1>23. ASSUME NEW c \in Consumers, Handle(c) PROVE NoLostPusherSignal'
    <2>1. W' \subseteq W /\ P \subseteq P' /\ C \subseteq C'
      BY <1>23, <1>b, ThreadsAssumption DEF Handle, Goto, Waiting, SignalsDue, OnTheWay, Threads
    <2> QED  BY <1>23, <2>1, <1>d DEF Handle
  <1>24. ASSUME NEW t \in Threads, SpuriousWakeup(t) PROVE NoLostPusherSignal'
    <2>1. W' \subseteq W /\ P \subseteq P' /\ C \subseteq C'
      BY <1>24, <1>b, ThreadsAssumption DEF SpuriousWakeup, Goto, Waiting, SignalsDue, OnTheWay, Threads
    <2> QED  BY <1>24, <2>1, <1>d DEF SpuriousWakeup
  <1>25. ASSUME Destroy PROVE NoLostPusherSignal'
    BY <1>25, <1>d DEF Destroy, Waiting, SignalsDue, OnTheWay
  <1>26. CASE UNCHANGED vars
    BY <1>26, <1>d DEF vars, Waiting, SignalsDue, OnTheWay
  <1> QED
    BY <1>1, <1>2, <1>3, <1>4, <1>5, <1>6, <1>7, <1>8, <1>9, <1>10, <1>11, <1>12, <1>13, <1>14, <1>15, <1>16, <1>17, <1>18, <1>19, <1>20, <1>21, <1>22, <1>23, <1>24, <1>25, <1>26
    DEF Next, Producer, EnqueueLocks, EnqueueSteps, Consumer, DequeueLocks, DequeueSteps, Stutter
-----------------------------------------------------------------------------
(* The theorems.                                                           *)

\* The ring is empty and nothing is allocated when the queue is created.
LEMMA InitDInv == Init => DInv
  <1> SUFFICES ASSUME Init PROVE DInv  OBVIOUS
  <1>1. /\ \A i \in Slots : buffer[i] = NULL
        /\ \A t \in Threads : item[t] = NULL /\ pc[t] = "idle"
        /\ head = 0 /\ tail = 0 /\ heap = {} /\ ~destroyed
    BY DEF Init
  <1>2. Window = {} /\ Queued = {} /\ Carried = {}
    BY <1>1 DEF Window, Queued, Carried
  <1>3. RingFilled /\ ItemConservation
    BY <1>1, <1>2 DEF RingFilled, ItemConservation
  <1>4. Carrying /\ DeadQueue
    BY <1>1 DEF Carrying, DeadQueue, Threads
  <1> QED  BY <1>3, <1>4 DEF DInv

\* Nobody sleeps in a queue that was just created.
LEMMA InitSignals == Init => NoLostPopperSignal /\ NoLostPusherSignal
  BY DEF Init, NoLostPopperSignal, NoLostPusherSignal, Waiting, Threads

\* The inductive invariant: mutexes and counters, then ring and elements.
LEMMA Invariant == Spec => []IDInv
  <1>1. Init => IDInv
    BY InitIInv, InitDInv DEF IDInv
  <1>2. IDInv /\ [Next]_vars => IDInv'
    BY NextIInv, NextDInv DEF IDInv
  <1> QED  BY <1>1, <1>2, PTL DEF Spec

\* Every variable keeps its type: in particular pcq_current_size, which
\* pcq_dequeue decrements, never goes below zero, and no index leaves the ring.
THEOREM TypeCorrect == Spec => []TypeOK
  <1>1. IDInv => TypeOK
    BY DEF IDInv, IInv
  <1> QED  BY <1>1, Invariant, PTL

\* Each of the three mutexes of pcq_enqueue and pcq_dequeue is held by the
\* thread whose position says so and by no other, for any number of threads.
THEOREM MutexesHeld == Spec => []LockDiscipline
  <1>1. IDInv => LockDiscipline
    BY DEF IDInv, IInv
  <1> QED  BY <1>1, Invariant, PTL

\* The opposite orders in which pcq_enqueue and pcq_dequeue lock head and tail
\* never deadlock: whoever asks for the second one holds current_size_lock, and
\* the one thread that may then hold that mutex waits for nothing.
THEOREM NoDeadlock == Spec => []NoLockCycle
  <1>1. IDInv => NoLockCycle
    <2> SUFFICES ASSUME IDInv,
                        NEW t \in Threads, NEW u \in Threads,
                        NEW m \in Locks, NEW n \in Locks,
                        Blocked(t, m), owner[m] = u, Blocked(u, n), owner[n] = t
                 PROVE  FALSE
      BY DEF NoLockCycle
    <2> USE ThreadsAssumption DEF IDInv, IInv, TypeOK, LockDiscipline, Threads, Locks,
              OwnEnd, OtherEnd, HoldsSize, HoldsOwnEnd, HoldsOtherEnd
    <2>1. pc[t] \in {"lock_size", "own_end", "other_end"} /\ pc[u] \in {"lock_size", "own_end", "other_end"}
      BY DEF Blocked
    <2>2. t \notin mustUnlock /\ u \notin mustUnlock
      BY <2>1
    <2>3. pc[t] = "lock_size" => \A l \in Locks : owner[l] # t
      BY <2>2
    <2>4. pc[u] = "lock_size" => \A l \in Locks : owner[l] # u
      BY <2>2
    <2>5. owner["size"] = t /\ owner["size"] = u
      BY <2>1, <2>3, <2>4
    <2>6. t = u
      BY <2>5
    <2> QED  BY <2>1, <2>2, <2>6 DEF Blocked
  <1> QED  BY <1>1, Invariant, PTL

\* pcq_current_size, head and tail agree and the ring never overflows.
THEOREM CountersAgree == Spec => []SizeCounts
  <1>1. IDInv => SizeCounts
    BY DEF IDInv, IInv
  <1> QED  BY <1>1, Invariant, PTL

\* A slot is full exactly between head and tail, whatever the capacity.
THEOREM RingCorrect == Spec => []RingFilled
  <1>1. IDInv => RingFilled
    BY DEF IDInv, DInv
  <1> QED  BY <1>1, Invariant, PTL

\* Every object is in the queue or with exactly one thread until it is freed.
THEOREM ItemsConserved == Spec => []ItemConservation
  <1>1. IDInv => ItemConservation
    BY DEF IDInv, DInv
  <1> QED  BY <1>1, Invariant, PTL

\* pcq_dequeue never returns NULL or a freed object.
THEOREM DequeuedObjectsLive == Spec => []DequeueReturnsObject
  <1>1. IDInv => DequeueReturnsObject
    <2> SUFFICES ASSUME IDInv, NEW c \in Consumers,
                        pc[c] \in {"count", "unlock_other", "signal", "handle"}
                 PROVE  item[c] \in heap
      BY DEF DequeueReturnsObject
    <2>1. c \in Threads /\ item[c] # NULL /\ ~destroyed
      BY DEF Threads, IDInv, DInv, Carrying, DeadQueue
    <2> QED  BY <2>1 DEF IDInv, DInv, ItemConservation, Carried
  <1> QED  BY <1>1, Invariant, PTL

\* No wakeup is lost although the signals are sent after the mutexes are
\* released: for any number of threads, the signals due and the threads on
\* their way cover every element a sleeping worker could take.
THEOREM PopperSignalsSuffice == Spec => []NoLostPopperSignal
  <1>1. IDInv => IInv
    BY DEF IDInv
  <1> QED  BY <1>1, Invariant, InitSignals, NextPopper, PTL DEF Spec

\* Likewise every free place a sleeping producer could fill.
THEOREM PusherSignalsSuffice == Spec => []NoLostPusherSignal
  <1>1. IDInv => IInv
    BY DEF IDInv
  <1> QED  BY <1>1, Invariant, InitSignals, NextPusher, PTL DEF Spec

\* The branch of pcq_dequeue that keeps tail_lock until the size is published is
\* never taken: an empty queue would need it, and a worker that got past the test
\* of the size has not found one, whatever the others did since.
TailNeverKept == \A c \in Consumers : c \notin mustUnlock

THEOREM DequeueReleasesTail == Spec => []TailNeverKept
  <1>1. Init => TailNeverKept
    BY DEF Init, TailNeverKept
  <1>2. IDInv /\ TailNeverKept /\ [Next]_vars => TailNeverKept'
    <2> SUFFICES ASSUME IDInv, TailNeverKept, [Next]_vars PROVE TailNeverKept'
      OBVIOUS
    <2> USE ThreadsAssumption DEF TailNeverKept
    <2>1. ASSUME NEW c \in Consumers, DequeueCompare(c) PROVE TailNeverKept'
      <3>1. head < tail /\ head \in Nat /\ tail \in Nat
        BY <2>1 DEF DequeueCompare, IDInv, IInv, RoomChecked, TypeOK, Moving
      <3> QED  BY <2>1, <3>1 DEF DequeueCompare
    <2>2. ASSUME NEW p \in Producers, EnqueueCompare(p) \/ EnqueueUnlockHead(p)
          PROVE  TailNeverKept'
      BY <2>2 DEF EnqueueCompare, EnqueueUnlockHead
    <2>3. CASE UNCHANGED mustUnlock
      BY <2>3
    <2>4. ASSUME NEW p \in Producers, Producer(p)
          PROVE  EnqueueCompare(p) \/ EnqueueUnlockHead(p) \/ UNCHANGED mustUnlock
      BY <2>4 DEF Producer, Enqueue, EnqueueLocks, EnqueueLockSize, EnqueueLockTail,
              EnqueueLockHead, EnqueueSteps, EnqueueWait, EnqueueProceed, EnqueueInsert,
              EnqueueCount, EnqueueSignal
    <2>5. ASSUME NEW c \in Consumers, Consumer(c)
          PROVE  DequeueCompare(c) \/ UNCHANGED mustUnlock \/ TailNeverKept'
      BY <2>5 DEF Consumer, Dequeue, DequeueLocks, DequeueLockSize, DequeueLockHead,
              DequeueLockTail, DequeueSteps, DequeueWait, DequeueProceed, DequeueRemove,
              DequeueCount, DequeueUnlockTail, DequeueSignal, Handle
    <2>6. ASSUME ~(\E p \in Producers : Producer(p)), ~(\E c \in Consumers : Consumer(c))
          PROVE  UNCHANGED mustUnlock
      BY <2>6 DEF Next, SpuriousWakeup, Destroy, Stutter, vars
    <2> QED  BY <2>1, <2>2, <2>3, <2>4, <2>5, <2>6
  <1> QED  BY <1>1, <1>2, Invariant, PTL DEF Spec

=============================================================================
