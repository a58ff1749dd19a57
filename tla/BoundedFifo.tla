----------------------------- MODULE BoundedFifo -----------------------------
(***************************************************************************)
(* What the request queue promises its callers (producer-consumer.h): a    *)
(* first-in first-out queue of at most Capacity objects.  A thread carries *)
(* at most one object: the one it is about to put or the one it took.      *)
(***************************************************************************)
EXTENDS Integers, Sequences

CONSTANTS Producers, Consumers, Items, NULL, Capacity

VARIABLES
    contents,   \* the queued objects, oldest first
    item        \* the object each thread carries, or NULL

vars == <<contents, item>>

Threads == Producers \cup Consumers

InUse == {contents[i] : i \in DOMAIN contents} \cup {item[t] : t \in Threads}

Init ==
    /\ contents = <<>>
    /\ item = [t \in Threads |-> NULL]

\* A producer comes with an object nobody else has.
Offer(p, v) ==
    /\ item[p] = NULL
    /\ v \notin InUse
    /\ item' = [item EXCEPT ![p] = v]
    /\ UNCHANGED contents

Put(p) ==
    /\ item[p] # NULL
    /\ Len(contents) < Capacity
    /\ contents' = Append(contents, item[p])
    /\ item' = [item EXCEPT ![p] = NULL]

Take(c) ==
    /\ item[c] = NULL
    /\ contents # <<>>
    /\ item' = [item EXCEPT ![c] = Head(contents)]
    /\ contents' = Tail(contents)

\* The consumer is done with the object.
Release(c) ==
    /\ item[c] # NULL
    /\ item' = [item EXCEPT ![c] = NULL]
    /\ UNCHANGED contents

\* The queue is destroyed; what it held is gone.
Discard ==
    /\ \A t \in Threads : item[t] = NULL
    /\ contents' = <<>>
    /\ UNCHANGED item

Next ==
    \/ \E p \in Producers : (\E v \in Items : Offer(p, v)) \/ Put(p)
    \/ \E c \in Consumers : Take(c) \/ Release(c)
    \/ Discard

Spec == Init /\ [][Next]_vars

\* Objects do not stay in a queue that consumers visit.
SomeTake == \E c \in Consumers : Take(c)
LiveSpec == Spec /\ WF_vars(SomeTake)

\* Producers do not stay outside a queue that has room.
SomePut == \E p \in Producers : Put(p)
PutsGoOn == WF_vars(SomePut)

=============================================================================
