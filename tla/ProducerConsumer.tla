-------------------------- MODULE ProducerConsumer --------------------------
(***************************************************************************)
(* The request queue of the broker: producer-consumer/producer-consumer.c. *)
(*                                                                         *)
(* Producers are the threads that call pcq_enqueue (the main thread of     *)
(* mbroker.c), Consumers those that call pcq_dequeue in a loop             *)
(* (listen_for_requests, one per session).  A step of the model is one     *)
(* call on a mutex or condition variable, or the code between two such     *)
(* calls that runs under the mutexes the thread then holds.                *)
(*                                                                         *)
(* Both functions take the three mutexes current_size_lock, head_lock and  *)
(* tail_lock, the last two in OPPOSITE orders, and may still hold the      *)
(* mutex of the other end of the ring after current_size_lock is gone.     *)
(***************************************************************************)
EXTENDS Integers, FiniteSets

CONSTANTS
    Producers,      \* threads that call pcq_enqueue
    Consumers,      \* threads that call pcq_dequeue
    Items,          \* addresses malloc may return for a queue_obj_t
    NULL,           \* the C null pointer
    Nobody,         \* the owner of a free mutex
    Capacity,       \* pcq_capacity; atoi(argv[2]) in mbroker.c, 0 included
    MaxEnqueues     \* bound: no call of pcq_enqueue starts once tail reaches it

Threads == Producers \cup Consumers

ASSUME ThreadsAssumption ==
    /\ Producers \cap Consumers = {}
    /\ Nobody \notin Threads
    /\ IsFiniteSet(Threads)
ASSUME ItemsAssumption == NULL \notin Items
ASSUME CapacityAssumption == Capacity \in Nat
ASSUME BoundAssumption == MaxEnqueues \in Nat

VARIABLES
    pc,             \* where each thread is
    item,           \* the element each thread carries (elem, first), or NULL
    mustUnlock,     \* the producers whose must_unlock_head, the consumers whose
                    \* must_unlock_tail is true
    owner,          \* the thread that holds each mutex
    buffer,         \* pcq_buffer
    head, tail,     \* pcq_head, pcq_tail: they only ever grow
    size,           \* pcq_current_size
    heap,           \* the queue_obj_t that are allocated
    destroyed       \* pcq_destroy has run

vars == <<pc, item, mustUnlock, owner, buffer, head, tail, size, heap, destroyed>>

Locks == {"size", "head", "tail"}
Slots == 0 .. Capacity - 1

\* The mutex of the end of the ring a thread works on, and of the other end.
OwnEnd(t) == IF t \in Producers THEN "tail" ELSE "head"
OtherEnd(t) == IF t \in Producers THEN "head" ELSE "tail"

\* "idle" is outside the two functions.  "own_end" and "other_end" are the
\* calls that lock the two ends, "access" the code that touches the ring,
\* "unlock_other" the test of must_unlock, "handle" a worker's request.
Labels == {"idle", "lock_size", "check", "wait", "own_end", "other_end",
           "compare", "access", "count", "unlock_other", "signal", "handle"}

-----------------------------------------------------------------------------
(* Mutexes and condition variables, as pthreads promises them.             *)

Goto(t, label) == pc' = [pc EXCEPT ![t] = label]

Lock(t, m) ==
    /\ owner[m] = Nobody
    /\ owner' = [owner EXCEPT ![m] = t]

Unlock(m) == owner' = [owner EXCEPT ![m] = Nobody]

\* pthread_cond_wait gives the mutex up and sleeps in one step; a thread that
\* wakes locks it again and tests its condition again.
Sleep(t) ==
    /\ Goto(t, "wait")
    /\ Unlock("size")

Waiting(group) == {t \in group : pc[t] = "wait"}

\* pthread_cond_signal at the end of t's call: one sleeper of the group wakes,
\* if there is one; t goes on to next.
SignalOne(t, group, next) ==
    IF Waiting(group) = {}
    THEN Goto(t, next)
    ELSE \E w \in Waiting(group) :
            pc' = [pc EXCEPT ![t] = next, ![w] = "lock_size"]

\* pthread_cond_wait may also return without a signal.
SpuriousWakeup(t) ==
    /\ pc[t] = "wait"
    /\ Goto(t, "lock_size")
    /\ UNCHANGED <<item, mustUnlock, owner, buffer, head, tail, size, heap, destroyed>>

-----------------------------------------------------------------------------
(* pcq_create, pcq_destroy                                                 *)

Init ==
    /\ pc = [t \in Threads |-> "idle"]
    /\ item = [t \in Threads |-> NULL]
    /\ mustUnlock = {}
    /\ owner = [m \in Locks |-> Nobody]
    /\ buffer = [i \in Slots |-> NULL]
    /\ head = 0
    /\ tail = 0
    /\ size = 0
    /\ heap = {}
    /\ destroyed = FALSE

\* Runs when "all threads were closed": none is inside the queue or a request.
\* Every slot is passed to free, full or not; the slots keep their pointers.
Destroy ==
    /\ ~destroyed
    /\ \A t \in Threads : pc[t] = "idle"
    /\ destroyed' = TRUE
    /\ heap' = heap \ {buffer[i] : i \in Slots}
    /\ UNCHANGED <<pc, item, mustUnlock, owner, buffer, head, tail, size>>

-----------------------------------------------------------------------------
(* pcq_enqueue, called by main with an object it just allocated            *)

Enqueue(p, v) ==
    /\ pc[p] = "idle"
    /\ ~destroyed
    /\ tail < MaxEnqueues
    /\ v \notin heap
    /\ heap' = heap \cup {v}
    /\ item' = [item EXCEPT ![p] = v]
    /\ Goto(p, "lock_size")
    /\ UNCHANGED <<mustUnlock, owner, buffer, head, tail, size, destroyed>>

EnqueueLockSize(p) ==
    /\ pc[p] = "lock_size"
    /\ Lock(p, "size")
    /\ Goto(p, "check")
    /\ UNCHANGED <<item, mustUnlock, buffer, head, tail, size, heap, destroyed>>

EnqueueWait(p) ==
    /\ pc[p] = "check"
    /\ size = Capacity
    /\ Sleep(p)
    /\ UNCHANGED <<item, mustUnlock, buffer, head, tail, size, heap, destroyed>>

\* As EnqueueProceed, one element too late, or without the mutex.
EnqueueProceedOneMore(p) ==
    /\ pc[p] = "check"
    /\ size <= Capacity
    /\ Goto(p, "own_end")
    /\ UNCHANGED <<item, mustUnlock, owner, buffer, head, tail, size, heap, destroyed>>

EnqueueProceedUnlocked(p) ==
    /\ pc[p] = "check"
    /\ size # Capacity
    /\ Unlock("size")
    /\ Goto(p, "own_end")
    /\ UNCHANGED <<item, mustUnlock, buffer, head, tail, size, heap, destroyed>>

EnqueueProceed(p) ==
    /\ pc[p] = "check"
    /\ size # Capacity
    /\ Goto(p, "own_end")
    /\ UNCHANGED <<item, mustUnlock, owner, buffer, head, tail, size, heap, destroyed>>

EnqueueLockTail(p) ==
    /\ pc[p] = "own_end"
    /\ Lock(p, "tail")
    /\ Goto(p, "other_end")
    /\ UNCHANGED <<item, mustUnlock, buffer, head, tail, size, heap, destroyed>>

EnqueueLockHead(p) ==
    /\ pc[p] = "other_end"
    /\ Lock(p, "head")
    /\ Goto(p, "compare")
    /\ UNCHANGED <<item, mustUnlock, buffer, head, tail, size, heap, destroyed>>

\* An empty ring keeps head_lock until the size is published.
EnqueueCompare(p) ==
    /\ pc[p] = "compare"
    /\ IF head = tail
       THEN mustUnlock' = mustUnlock \cup {p} /\ UNCHANGED owner
       ELSE Unlock("head") /\ UNCHANGED mustUnlock
    /\ Goto(p, "access")
    /\ UNCHANGED <<item, buffer, head, tail, size, heap, destroyed>>

\* As EnqueueInsert, with the tail moved first.
EnqueueInsertLate(p) ==
    /\ pc[p] = "access"
    /\ tail' = tail + 1
    /\ buffer' = [buffer EXCEPT ![(tail + 1) % Capacity] = item[p]]
    /\ item' = [item EXCEPT ![p] = NULL]
    /\ Unlock("tail")
    /\ Goto(p, "count")
    /\ UNCHANGED <<mustUnlock, head, size, heap, destroyed>>

EnqueueInsert(p) ==
    /\ pc[p] = "access"
    /\ buffer' = [buffer EXCEPT ![tail % Capacity] = item[p]]
    /\ tail' = tail + 1
    /\ item' = [item EXCEPT ![p] = NULL]
    /\ Unlock("tail")
    /\ Goto(p, "count")
    /\ UNCHANGED <<mustUnlock, head, size, heap, destroyed>>

EnqueueCount(p) ==
    /\ pc[p] = "count"
    /\ size' = size + 1
    /\ Unlock("size")
    /\ Goto(p, "unlock_other")
    /\ UNCHANGED <<item, mustUnlock, buffer, head, tail, heap, destroyed>>

\* As EnqueueUnlockHead, whatever must_unlock_head says, or never.
EnqueueUnlockHeadAlways(p) ==
    /\ pc[p] = "unlock_other"
    /\ Unlock("head")
    /\ mustUnlock' = mustUnlock \ {p}
    /\ Goto(p, "signal")
    /\ UNCHANGED <<item, buffer, head, tail, size, heap, destroyed>>

EnqueueUnlockHeadNever(p) ==
    /\ pc[p] = "unlock_other"
    /\ mustUnlock' = mustUnlock \ {p}
    /\ Goto(p, "signal")
    /\ UNCHANGED <<item, owner, buffer, head, tail, size, heap, destroyed>>

EnqueueUnlockHead(p) ==
    /\ pc[p] = "unlock_other"
    /\ IF p \in mustUnlock THEN Unlock("head") ELSE UNCHANGED owner
    /\ mustUnlock' = mustUnlock \ {p}
    /\ Goto(p, "signal")
    /\ UNCHANGED <<item, buffer, head, tail, size, heap, destroyed>>

\* As EnqueueSignal, only for the first element, or never.
EnqueueSignalFirst(p) ==
    /\ pc[p] = "signal"
    /\ IF size = 1 THEN SignalOne(p, Consumers, "idle") ELSE Goto(p, "idle")
    /\ UNCHANGED <<item, mustUnlock, owner, buffer, head, tail, size, heap, destroyed>>

EnqueueSignalNever(p) ==
    /\ pc[p] = "signal"
    /\ Goto(p, "idle")
    /\ UNCHANGED <<item, mustUnlock, owner, buffer, head, tail, size, heap, destroyed>>

EnqueueSignal(p) ==
    /\ pc[p] = "signal"
    /\ SignalOne(p, Consumers, "idle")
    /\ UNCHANGED <<item, mustUnlock, owner, buffer, head, tail, size, heap, destroyed>>

-----------------------------------------------------------------------------
(* pcq_dequeue, called in a loop by listen_for_requests                    *)

Dequeue(c) ==
    /\ pc[c] = "idle"
    /\ ~destroyed
    /\ Goto(c, "lock_size")
    /\ UNCHANGED <<item, mustUnlock, owner, buffer, head, tail, size, heap, destroyed>>

DequeueLockSize(c) ==
    /\ pc[c] = "lock_size"
    /\ Lock(c, "size")
    /\ Goto(c, "check")
    /\ UNCHANGED <<item, mustUnlock, buffer, head, tail, size, heap, destroyed>>

DequeueWait(c) ==
    /\ pc[c] = "check"
    /\ size = 0
    /\ Sleep(c)
    /\ UNCHANGED <<item, mustUnlock, buffer, head, tail, size, heap, destroyed>>

\* As DequeueProceed, when a wakeup is taken for an element.
DequeueProceedUnchecked(c) ==
    /\ pc[c] = "check"
    /\ Goto(c, "own_end")
    /\ UNCHANGED <<item, mustUnlock, owner, buffer, head, tail, size, heap, destroyed>>

DequeueProceed(c) ==
    /\ pc[c] = "check"
    /\ size # 0
    /\ Goto(c, "own_end")
    /\ UNCHANGED <<item, mustUnlock, owner, buffer, head, tail, size, heap, destroyed>>

DequeueLockHead(c) ==
    /\ pc[c] = "own_end"
    /\ Lock(c, "head")
    /\ Goto(c, "other_end")
    /\ UNCHANGED <<item, mustUnlock, buffer, head, tail, size, heap, destroyed>>

DequeueLockTail(c) ==
    /\ pc[c] = "other_end"
    /\ Lock(c, "tail")
    /\ Goto(c, "compare")
    /\ UNCHANGED <<item, mustUnlock, buffer, head, tail, size, heap, destroyed>>

DequeueCompare(c) ==
    /\ pc[c] = "compare"
    /\ IF head = tail
       THEN mustUnlock' = mustUnlock \cup {c} /\ UNCHANGED owner
       ELSE Unlock("tail") /\ UNCHANGED mustUnlock
    /\ Goto(c, "access")
    /\ UNCHANGED <<item, buffer, head, tail, size, heap, destroyed>>

\* As DequeueRemove, with the slot left as it is.
DequeueRemoveKeeps(c) ==
    /\ pc[c] = "access"
    /\ item' = [item EXCEPT ![c] = buffer[head % Capacity]]
    /\ head' = head + 1
    /\ Unlock("head")
    /\ Goto(c, "count")
    /\ UNCHANGED <<mustUnlock, buffer, tail, size, heap, destroyed>>

DequeueRemove(c) ==
    /\ pc[c] = "access"
    /\ item' = [item EXCEPT ![c] = buffer[head % Capacity]]
    /\ buffer' = [buffer EXCEPT ![head % Capacity] = NULL]
    /\ head' = head + 1
    /\ Unlock("head")
    /\ Goto(c, "count")
    /\ UNCHANGED <<mustUnlock, tail, size, heap, destroyed>>

DequeueCount(c) ==
    /\ pc[c] = "count"
    /\ size' = size - 1
    /\ Unlock("size")
    /\ Goto(c, "unlock_other")
    /\ UNCHANGED <<item, mustUnlock, buffer, head, tail, heap, destroyed>>

DequeueUnlockTail(c) ==
    /\ pc[c] = "unlock_other"
    /\ IF c \in mustUnlock THEN Unlock("tail") ELSE UNCHANGED owner
    /\ mustUnlock' = mustUnlock \ {c}
    /\ Goto(c, "signal")
    /\ UNCHANGED <<item, buffer, head, tail, size, heap, destroyed>>

\* As DequeueSignal, on the other condition variable.
DequeueSignalPoppers(c) ==
    /\ pc[c] = "signal"
    /\ SignalOne(c, Consumers, "handle")
    /\ UNCHANGED <<item, mustUnlock, owner, buffer, head, tail, size, heap, destroyed>>

\* The last lines read first->opcode: item[c] must be a live object by then.
DequeueSignal(c) ==
    /\ pc[c] = "signal"
    /\ SignalOne(c, Producers, "handle")
    /\ UNCHANGED <<item, mustUnlock, owner, buffer, head, tail, size, heap, destroyed>>

\* parse_request returns and the worker frees the object.  It need not return:
\* the handlers wait for a client in open.
Handle(c) ==
    /\ pc[c] = "handle"
    /\ heap' = heap \ {item[c]}
    /\ item' = [item EXCEPT ![c] = NULL]
    /\ Goto(c, "idle")
    /\ UNCHANGED <<mustUnlock, owner, buffer, head, tail, size, destroyed>>

-----------------------------------------------------------------------------
\* The steps of a thread that need a mutex, and all the others inside a call.
EnqueueLocks(p) == EnqueueLockSize(p) \/ EnqueueLockTail(p) \/ EnqueueLockHead(p)
EnqueueSteps(p) ==
    \/ EnqueueWait(p) \/ EnqueueProceed(p) \/ EnqueueCompare(p)
    \/ EnqueueInsert(p) \/ EnqueueCount(p) \/ EnqueueUnlockHead(p)
    \/ EnqueueSignal(p)

DequeueLocks(c) == DequeueLockSize(c) \/ DequeueLockHead(c) \/ DequeueLockTail(c)
DequeueSteps(c) ==
    \/ DequeueWait(c) \/ DequeueProceed(c) \/ DequeueCompare(c)
    \/ DequeueRemove(c) \/ DequeueCount(c) \/ DequeueUnlockTail(c)
    \/ DequeueSignal(c)

Producer(p) ==
    \/ \E v \in Items : Enqueue(p, v)
    \/ EnqueueLocks(p)
    \/ EnqueueSteps(p)

Consumer(c) == Dequeue(c) \/ DequeueLocks(c) \/ DequeueSteps(c) \/ Handle(c)

\* Nothing is left to do: no request and every worker asleep, or all over.
Finished ==
    \/ destroyed
    \/ /\ \A p \in Producers : pc[p] = "idle"
       /\ \A c \in Consumers : pc[c] = "wait"
       /\ size = 0

Stutter == Finished /\ UNCHANGED vars

Next ==
    \/ \E p \in Producers : Producer(p)
    \/ \E c \in Consumers : Consumer(c)
    \/ \E t \in Threads : SpuriousWakeup(t)
    \/ Destroy
    \/ Stutter

Spec == Init /\ [][Next]_vars

\* A thread inside a call keeps running; one that asks for a mutex again and
\* again while others give it up obtains it; a worker whose handler returned
\* comes back for another request.  No handler has to return, nobody has to
\* call pcq_enqueue or pcq_destroy, and no spurious wakeup has to come.
Fairness ==
    /\ \A p \in Producers : WF_vars(EnqueueSteps(p)) /\ SF_vars(EnqueueLocks(p))
    /\ \A c \in Consumers :
            WF_vars(Dequeue(c) \/ DequeueSteps(c)) /\ SF_vars(DequeueLocks(c))

FairSpec == Spec /\ Fairness

-----------------------------------------------------------------------------
TypeOK ==
    /\ pc \in [Threads -> Labels]
    /\ \A p \in Producers : pc[p] # "handle"
    /\ item \in [Threads -> Items \cup {NULL}]
    /\ mustUnlock \subseteq Threads
    /\ owner \in [Locks -> Threads \cup {Nobody}]
    /\ buffer \in [Slots -> Items \cup {NULL}]
    /\ head \in Nat
    /\ tail \in Nat
    /\ size \in Nat
    /\ heap \subseteq Items
    /\ destroyed \in BOOLEAN

HoldsSize(t) == pc[t] \in {"check", "own_end", "other_end", "compare", "access", "count"}
HoldsOwnEnd(t) == pc[t] \in {"other_end", "compare", "access"}
HoldsOtherEnd(t) == pc[t] = "compare" \/ t \in mustUnlock

\* Every mutex is held by exactly the thread whose position says so, whichever
\* of the two unlock orders that thread took: none is leaked, released twice,
\* or released by a thread that does not hold it.
LockDiscipline ==
    \A t \in Threads :
        /\ owner["size"] = t <=> HoldsSize(t)
        /\ owner[OwnEnd(t)] = t <=> HoldsOwnEnd(t)
        /\ owner[OtherEnd(t)] = t <=> HoldsOtherEnd(t)
        /\ t \in mustUnlock => pc[t] \in {"access", "count", "unlock_other"}

Blocked(t, m) ==
    /\ \/ m = "size" /\ pc[t] = "lock_size"
       \/ m = OwnEnd(t) /\ pc[t] = "own_end"
       \/ m = OtherEnd(t) /\ pc[t] = "other_end"
    /\ owner[m] # Nobody

\* Head and tail are locked in opposite orders by the two functions, yet no
\* two threads ever wait for a mutex the other holds (nor one for itself).
NoLockCycle ==
    ~ \E t, u \in Threads : \E m, n \in Locks :
        /\ Blocked(t, m) /\ owner[m] = u
        /\ Blocked(u, n) /\ owner[n] = t

\* The counter pcq_current_size, which is what both functions test, says how
\* many elements lie between head and tail whenever a thread can test it, and
\* is off by the one just moved while a thread is between the two updates.
SizeCounts ==
    /\ head <= tail
    /\ tail - head <= Capacity
    /\ \A p \in Producers : pc[p] = "count" => size = tail - head - 1
    /\ \A c \in Consumers : pc[c] = "count" => size = tail - head + 1
    /\ (\A t \in Threads : pc[t] # "count") => size = tail - head

\* Slots hold an element exactly when they lie between head and tail: a full
\* ring is never overwritten, an empty slot never handed out.
Window == {k % Capacity : k \in head .. tail - 1}
RingFilled == \A i \in Slots : buffer[i] # NULL <=> i \in Window

Queued == {buffer[i] : i \in Slots} \ {NULL}
Carried == {item[t] : t \in Threads} \ {NULL}

\* Every allocated object is in the queue or in the hands of one thread, and of
\* one only: no request is lost, delivered twice, or freed while still in use.
ItemConservation ==
    /\ ~destroyed => heap = Queued \cup Carried
    /\ destroyed => heap = {} /\ Carried = {}
    /\ \A t, u \in Threads : t # u /\ item[t] # NULL => item[t] # item[u]
    /\ \A i, j \in Slots : i # j /\ buffer[i] # NULL => buffer[i] # buffer[j]
    /\ Queued \cap Carried = {}

\* pcq_dequeue dereferences what it returns (first->opcode): it is an object.
DequeueReturnsObject ==
    \A c \in Consumers : pc[c] \in {"count", "unlock_other", "signal", "handle"} =>
        item[c] \in heap

\* The signal comes after the mutexes are released, so it may come late.  Even
\* so no worker sleeps through a request: while one sleeps, every element is
\* covered by a signal still to be sent or by a worker already on its way.
SignalsDue(group) == {t \in group : pc[t] \in {"unlock_other", "signal"}}
OnTheWay(group) ==
    {t \in group : pc[t] \in {"lock_size", "check", "own_end", "other_end",
                              "compare", "access", "count"}}
NoLostPopperSignal ==
    Waiting(Consumers) # {} =>
        size <= Cardinality(SignalsDue(Producers)) + Cardinality(OnTheWay(Consumers))

\* The same for a producer that sleeps on a full queue and the free places.
NoLostPusherSignal ==
    Waiting(Producers) # {} =>
        Capacity - size <=
            Cardinality(SignalsDue(Consumers)) + Cardinality(OnTheWay(Producers))

-----------------------------------------------------------------------------
InQueue(v) == ~destroyed /\ v \in Queued

\* Every worker is inside a handler that never returns, from some time on.
AllWorkersHang == <>[](\A c \in Consumers : pc[c] = "handle")

\* A request stays in the queue only if no worker ever comes back for it: as
\* long as one of them does, however late, whoever else hangs and whatever
\* wakeups are stolen, the request is taken.
EveryRequestTaken == \A v \in Items : <>[]InQueue(v) => AllWorkersHang

-----------------------------------------------------------------------------
(* What the queue promises: BoundedFifo.  The elements between head and    *)
(* tail, oldest first, are its contents; an enqueue takes effect when tail *)
(* moves and a dequeue when head moves, long before the mutexes, the size  *)
(* and the signals have caught up.                                         *)

Contents ==
    IF destroyed THEN <<>>
    ELSE [i \in 1 .. tail - head |-> buffer[(head + i - 1) % Capacity]]

Fifo == INSTANCE BoundedFifo WITH contents <- Contents

\* The ring with its three mutexes and two condition variables behaves as a
\* bounded first-in first-out queue.
ImplementsFifo == Fifo!Spec

\* ... and, as long as it is not empty, workers keep taking from it.
ImplementsLiveFifo == Fifo!LiveSpec

\* ... and, as long as it is not full, producers inside pcq_enqueue keep adding
\* to it: they do not all sleep on a place that a worker has made, whether or
\* not the workers ever come back.  (main is the broker's only producer.)
RoomIsUsed == Fifo!PutsGoOn

=============================================================================
