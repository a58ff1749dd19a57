------------------------------- MODULE BoxHolder -------------------------------
(***************************************************************************)
(* The registry of boxes of mbroker/box_metadata.c: an array of boxes under *)
(* one mutex.  main creates it and no handler calls it yet; this module is *)
(* the registry under callers that insert, remove and find boxes.  A call  *)
(* is one step from taking the mutex on, for nobody else can look at the   *)
(* array meanwhile; what differs is whether the mutex is given back.       *)
(***************************************************************************)
EXTENDS Integers, Sequences

CONSTANTS
    Callers,
    Names,          \* box names
    NoBox,          \* a NULL pointer
    Nobody,
    max_size        \* places in the array

VARIABLES
    boxes,          \* the array, a box being known by its name
    current_size,
    lock,           \* who holds holder->lock
    call,           \* the call every caller is in
    over            \* how the process ended, or "no"

vars == <<boxes, current_size, lock, call, over>>

Places == 1 .. max_size

\* box_holder_create.
Init ==
    /\ boxes = [i \in Places |-> NoBox]
    /\ current_size = 0
    /\ lock = Nobody
    /\ call = [t \in Callers |-> <<"none">>]
    /\ over = "no"

Ops == {"insert", "remove", "find"}
Calling(t, op) == call[t][1] = op
Name(t) == call[t][2]

\* A caller that has returned calls again; box_holder_insert comes with a new
\* box from box_metadata_create, of a name that may be there already.
Call(t) ==
    /\ over = "no"
    /\ Calling(t, "none")
    /\ \E op \in Ops, n \in Names : call' = [call EXCEPT ![t] = <<op, n>>]
    /\ UNCHANGED <<boxes, current_size, lock, over>>

\* pthread_mutex_lock in a call of op, for a mutex that does not count.
Enter(t, op) == over = "no" /\ Calling(t, op) /\ lock = Nobody
Return(t) == call' = [call EXCEPT ![t] = <<"none">>]

Insert(t) ==
    /\ Enter(t, "insert")
    /\ IF current_size < max_size
       THEN /\ boxes' = [boxes EXCEPT ![current_size + 1] = Name(t)]
            /\ current_size' = current_size + 1
            /\ Return(t)
            /\ UNCHANGED over
       ELSE over' = "assertion" /\ UNCHANGED <<boxes, current_size, call>>
    /\ UNCHANGED lock

\* The first place a box of this name is at.
FirstAt(i, n) ==
    /\ i \in 1 .. current_size
    /\ boxes[i] = n
    /\ \A j \in 1 .. i - 1 : boxes[j] # n
Found(n) == \E i \in Places : FirstAt(i, n)

\* box_metadata_destroy frees the box twice, as box->name is its first byte: the
\* allocator stops the process, or does not notice.
DestroyStopped == over' = "double free"
DestroyUnnoticed == UNCHANGED over

\* The boxes behind move up; the loop returns without an unlock.
RemoveFound(t) ==
    /\ Enter(t, "remove")
    /\ \E i \in Places :
          /\ FirstAt(i, Name(t))
          /\ \/ /\ boxes' = [j \in Places |->
                                IF j \in i .. current_size - 1 THEN boxes[j + 1]
                                ELSE IF j = i THEN NoBox ELSE boxes[j]]
                /\ current_size' = current_size - 1
                /\ lock' = t
                /\ Return(t)
                /\ DestroyUnnoticed
             \/ /\ DestroyStopped
                /\ UNCHANGED <<boxes, current_size, lock, call>>

RemoveMissing(t) ==
    /\ Enter(t, "remove")
    /\ ~Found(Name(t))
    /\ Return(t)
    /\ UNCHANGED <<boxes, current_size, lock, over>>

\* Both returns come before the unlock.
Find(t) ==
    /\ Enter(t, "find")
    /\ lock' = t
    /\ Return(t)
    /\ UNCHANGED <<boxes, current_size, over>>

Works(t) == Insert(t) \/ RemoveFound(t) \/ RemoveMissing(t) \/ Find(t)

Over == over # "no" /\ UNCHANGED vars

Next == (\E t \in Callers : Call(t) \/ Works(t)) \/ Over

\* A call that can go on does; nobody has to call.
FairSpec == Init /\ [][Next]_vars /\ \A t \in Callers : WF_vars(Works(t))

-----------------------------------------------------------------------------
\* "@return box_metadata_t* if the was box found or NULL otherwise": a call of
\* box_holder_find_box returns, unless the process ends.
FindReturns == \A t \in Callers : Calling(t, "find") ~> ~Calling(t, "find") \/ over # "no"

=============================================================================
