------------------------- MODULE BrokerRequestProofs -------------------------
(***************************************************************************)
(* What becomes of a request, for any clients and any number of sessions:  *)
(* theorems about Broker that count the hands a request is in.             *)
(***************************************************************************)
EXTENDS BrokerProofs, FiniteSetTheorems

USE DEF ClientsAssumption, SessionsAssumption
USE ClientsAssumption, SessionsAssumption

-----------------------------------------------------------------------------
(* Counting                                                                *)

\* Where c is found in a sequence or a function.
Places(s, c) == {i \in DOMAIN s : s[i] = c}

LEMMA CountPlaces == \A s, c : Count(s, c) = Cardinality(Places(s, c))
BY DEF Count, Places

LEMMA CountOfNone == \A c : Count(<<>>, c) = 0
BY FS_EmptySet DEF Count

LEMMA FinitePlaces ==
    ASSUME NEW s \in Seq(Clients), NEW c
    PROVE  /\ Places(s, c) \subseteq 1 .. Len(s)
           /\ IsFiniteSet(Places(s, c)) /\ Cardinality(Places(s, c)) \in Nat
<1>1. Places(s, c) \in SUBSET (1 .. Len(s)) /\ IsFiniteSet(1 .. Len(s))
    BY FS_Interval DEF Places
<1>2. IsFiniteSet(Places(s, c))
    BY <1>1, FS_Subset
<1> QED
    BY <1>1, <1>2, FS_CardinalityType

LEMMA CountAppend ==
    ASSUME NEW s \in Seq(Clients), NEW d \in Clients, NEW c
    PROVE  Count(Append(s, d), c) = Count(s, c) + (IF c = d THEN 1 ELSE 0)
<1>1. /\ IsFiniteSet(Places(s, c)) /\ Cardinality(Places(s, c)) \in Nat
      /\ Len(s) + 1 \notin Places(s, c)
    BY FinitePlaces
<1>2. CASE c = d
    <2>1. Places(Append(s, d), c) = Places(s, c) \cup {Len(s) + 1}
        BY <1>2 DEF Places
    <2>2. Cardinality(Places(s, c) \cup {Len(s) + 1}) = Cardinality(Places(s, c)) + 1
        BY <1>1, FS_AddElement
    <2> QED
        BY <2>1, <2>2, <1>2, CountPlaces
<1>3. CASE c # d
    <2>1. Places(Append(s, d), c) = Places(s, c)
        BY <1>3 DEF Places
    <2> QED
        BY <1>1, <1>3, <2>1, CountPlaces
<1> QED
    BY <1>2, <1>3

LEMMA CountTail ==
    ASSUME NEW s \in Seq(Clients), s # <<>>, NEW c
    PROVE  Count(Tail(s), c) = Count(s, c) - (IF c = Head(s) THEN 1 ELSE 0)
<1> DEFINE P == Places(s, c)
           Q == Places(Tail(s), c)
           next == [i \in Q |-> i + 1]
<1>1. IsFiniteSet(P) /\ Cardinality(P) \in Nat
    BY FinitePlaces
<1>2. IsFiniteSet(Q) /\ Cardinality(Q) \in Nat
    <2>1. Tail(s) \in Seq(Clients)
        OBVIOUS
    <2> QED
        BY <2>1, FinitePlaces
<1>3. \A i \in Q : i \in Nat /\ i + 1 \in P \ {1}
    BY DEF Places
<1>4. \A j \in P \ {1} : j - 1 \in Q /\ (j - 1) + 1 = j
    BY DEF Places
<1>5. 1 \in P <=> c = Head(s)
    BY DEF Places
<1> HIDE DEF P, Q
<1>6. Cardinality(Q) = Cardinality(P \ {1})
    <2>1. next \in [Q -> P \ {1}]
        BY <1>3
    <2>2. \A i, j \in Q : next[i] = next[j] => i = j
        BY <1>3
    <2>3. \A j \in P \ {1} : \E i \in Q : next[i] = j
        BY <1>4
    <2>4. next \in Bijection(Q, P \ {1})
        BY <2>1, <2>2, <2>3 DEF Bijection, Injection, Surjection, IsInjective
    <2>5. ExistsBijection(Q, P \ {1})
        BY <2>4 DEF ExistsBijection
    <2> QED
        BY <1>2, <2>5, FS_Bijection
<1>7. Cardinality(P \ {1}) = IF 1 \in P THEN Cardinality(P) - 1 ELSE Cardinality(P)
    BY <1>1, FS_RemoveElement
<1> QED
    BY <1>1, <1>5, <1>6, <1>7, CountPlaces DEF P, Q

-----------------------------------------------------------------------------
(* One pair of hands                                                       *)

\* RequestsConserved, and that a client which has not yet written is unknown.
HandsInv ==
    over = "no" =>
        \A c \in Clients :
            /\ Hands(c) <= 1
            /\ client[c] \in {"sent", "opening", "reading", "done", "failed"} => Hands(c) = 1
            /\ client[c] \in {"new", "connecting"} => Hands(c) = 0

LEMMA HandTypes ==
    ASSUME TypeOK, NEW c
    PROVE  /\ Count(registerPipe, c) \in Nat /\ Count(queue, c) \in Nat
           /\ Count(item, c) \in Nat
           /\ IsFiniteSet(DOMAIN item) /\ DOMAIN item = Workers \cup {Main}
<1>1. Count(registerPipe, c) \in Nat /\ Count(queue, c) \in Nat
    <2>1. registerPipe \in Seq(Clients) /\ queue \in Seq(Clients)
        BY DEF TypeOK
    <2> QED
        BY <2>1, FinitePlaces, CountPlaces
<1>2. DOMAIN item = Workers \cup {Main} /\ IsFiniteSet(DOMAIN item)
    <2>1. DOMAIN item = Workers \cup {Main}
        BY DEF TypeOK
    <2>2. Workers \cup {Main} = 0 .. MaxSessions
        BY DEF Workers, Main
    <2>3. IsFiniteSet(0 .. MaxSessions)
        BY FS_Interval
    <2> QED
        BY <2>1, <2>2, <2>3
<1>3. Count(item, c) \in Nat
    <2>1. Places(item, c) \in SUBSET DOMAIN item
        BY DEF Places
    <2> QED
        BY <1>2, <2>1, FS_Subset, FS_CardinalityType, CountPlaces
<1> QED
    BY <1>1, <1>2, <1>3

\* What a thread carries is in one of its hands.
LEMMA CarriedIsCounted ==
    ASSUME TypeOK, NEW t \in Workers \cup {Main}
    PROVE  Count(item, item[t]) >= 1
<1>1. t \in Places(item, item[t]) /\ IsFiniteSet(Places(item, item[t]))
    <2>1. Places(item, item[t]) \in SUBSET DOMAIN item
        BY DEF Places
    <2> QED
        BY <2>1, HandTypes, FS_Subset DEF Places
<1>2. Cardinality(Places(item, item[t])) # 0
    BY <1>1, FS_EmptySet
<1> QED
    BY <1>2, HandTypes, CountPlaces

LEMMA HandsType == ASSUME TypeOK, NEW c PROVE Hands(c) \in Nat
BY HandTypes DEF Hands

\* What thread t carries is replaced.
LEMMA CountReplace ==
    ASSUME TypeOK, NEW t \in Workers \cup {Main}, DOMAIN item' = DOMAIN item,
           \A u \in DOMAIN item \ {t} : item'[u] = item[u], NEW c
    PROVE  Count(item', c) = Count(item, c) - (IF item[t] = c THEN 1 ELSE 0)
                                            + (IF item'[t] = c THEN 1 ELSE 0)
<1> DEFINE P == Places(item, c)
           Q == Places(item', c)
<1>1. t \in DOMAIN item /\ IsFiniteSet(P)
    <2>1. P \in SUBSET DOMAIN item
        BY DEF Places
    <2> QED
        BY <2>1, HandTypes, FS_Subset
<1>2. Q = IF item'[t] = c THEN (P \ {t}) \cup {t} ELSE P \ {t}
    BY <1>1 DEF Places
<1>3. t \in P <=> item[t] = c
    BY <1>1 DEF Places
<1> HIDE DEF P, Q
<1>4. /\ IsFiniteSet(P \ {t})
      /\ Cardinality(P \ {t}) = IF t \in P THEN Cardinality(P) - 1 ELSE Cardinality(P)
    BY <1>1, FS_RemoveElement
<1>5. Cardinality((P \ {t}) \cup {t}) = Cardinality(P \ {t}) + 1
    BY <1>4, FS_AddElement
<1>6. Cardinality(P) \in Nat /\ Cardinality(P \ {t}) \in Nat
    BY <1>1, <1>4, FS_CardinalityType
<1>7. Cardinality(Q) = Cardinality(P) - (IF item[t] = c THEN 1 ELSE 0)
                          + (IF item'[t] = c THEN 1 ELSE 0)
    BY <1>2, <1>3, <1>4, <1>5, <1>6
<1> QED
    BY <1>7, CountPlaces DEF P, Q

\* A thread gets a request, or is rid of the one it has.
LEMMA CountGet ==
    ASSUME TypeOK, NEW t \in Workers \cup {Main}, item[t] = NoClient, NEW d \in Clients,
           item' = [item EXCEPT ![t] = d], NEW c \in Clients
    PROVE  Count(item', c) = Count(item, c) + (IF c = d THEN 1 ELSE 0)
<1>1. /\ DOMAIN item' = DOMAIN item /\ item'[t] = d
      /\ \A u \in DOMAIN item \ {t} : item'[u] = item[u]
    BY HandTypes
<1>2. Count(item', c) = Count(item, c) - (IF item[t] = c THEN 1 ELSE 0)
                                       + (IF item'[t] = c THEN 1 ELSE 0)
    BY <1>1, CountReplace
<1> QED
    BY <1>1, <1>2, HandTypes

LEMMA CountDrop ==
    ASSUME TypeOK, NEW t \in Workers \cup {Main}, item' = [item EXCEPT ![t] = NoClient],
           NEW c \in Clients
    PROVE  Count(item', c) = Count(item, c) - (IF c = item[t] THEN 1 ELSE 0)
<1>1. /\ DOMAIN item' = DOMAIN item /\ item'[t] = NoClient
      /\ \A u \in DOMAIN item \ {t} : item'[u] = item[u]
    BY HandTypes
<1>2. Count(item', c) = Count(item, c) - (IF item[t] = c THEN 1 ELSE 0)
                                       + (IF item'[t] = c THEN 1 ELSE 0)
    BY <1>1, CountReplace
<1> QED
    BY <1>1, <1>2, HandTypes

\* Nothing that Hands looks at changes.
LEMMA HandsUnchanged ==
    UNCHANGED <<registerPipe, queue, item, handled>> => \A c : Hands(c)' = Hands(c)
BY DEF Hands, Count

LEMMA HandsInit == Init => HandsInv
<1> SUFFICES ASSUME Init PROVE HandsInv
    OBVIOUS
<1>1. item = [t \in {Main} \cup Workers |-> NoClient] /\ queue = <<>>
      /\ registerPipe = <<>> /\ handled = {}
    BY DEF Init, Fifo!Init, Fifo!Threads
<1>2. \A c \in Clients : Count(item, c) = 0
    <2> TAKE c \in Clients
    <2>1. \A t \in DOMAIN item : item[t] = NoClient
        BY <1>1
    <2>2. Places(item, c) = {}
        BY <2>1 DEF Places
    <2> QED
        BY <2>2, FS_EmptySet, CountPlaces
<1>3. \A c \in Clients : Hands(c) = 0
    BY <1>1, <1>2, CountOfNone DEF Hands
<1> QED
    BY <1>3 DEF Init, HandsInv

\* Only a client that writes its request adds to the hands.
LEMMA ClientHands == TypeOK /\ HandsInv /\ ClientStep => HandsInv'
<1> SUFFICES ASSUME TypeOK, HandsInv, NEW d \in Clients, Start(d) \/ ClientSteps(d) \/ Kill(d)
             PROVE  HandsInv'
    BY DEF ClientStep
<1>1. over = "no" /\ UNCHANGED <<queue, item, handled, over>>
    BY DEF Start, ClientSteps, Kill, PubSends, SubSends, ManagerSends, Sends, OpenOwnPipe,
           ReadResponse, ReadNothing, ListNothing, Client, brokerVars
<1>2. \A c \in Clients \ {d} : client'[c] = client[c]
    BY DEF TypeOK, Start, ClientSteps, Kill, PubSends, SubSends, ManagerSends, Sends,
           OpenOwnPipe, ReadResponse, ReadNothing, ListNothing, Client
<1>3. CASE \E to \in {"sent", "done"} : Sends(d, to)
    <2>1. /\ client[d] = "connecting" /\ client'[d] \in {"sent", "done"}
          /\ registerPipe \in Seq(Clients) /\ registerPipe' = Append(registerPipe, d)
        BY <1>3 DEF TypeOK, Sends, Client
    <2>2. \A c : Count(registerPipe', c) = Count(registerPipe, c) + (IF c = d THEN 1 ELSE 0)
        BY <2>1, CountAppend
    <2>3. \A c : Hands(c)' = Hands(c) + (IF c = d THEN 1 ELSE 0)
        BY <1>1, <2>2, HandTypes DEF Hands
    <2> QED
        BY <1>1, <1>2, <2>1, <2>3, HandsType DEF HandsInv
<1>4. CASE ~\E to \in {"sent", "done"} : Sends(d, to)
    <2>1. UNCHANGED registerPipe
        BY <1>4 DEF Start, ClientSteps, Kill, PubSends, SubSends, ManagerSends,
                    OpenOwnPipe, ReadResponse, ReadNothing, ListNothing
    <2>2. \/ client[d] = "new" /\ client'[d] = "connecting"
          \/ /\ client[d] \in {"sent", "opening", "reading"}
             /\ client'[d] \in {"opening", "reading", "done", "failed"}
          \/ client'[d] = "dead"
        BY <1>4 DEF TypeOK, Start, ClientSteps, Kill, PubSends, SubSends, ManagerSends,
                    OpenOwnPipe, ReadResponse, ReadNothing, ListNothing, Client
    <2>3. \A c : Hands(c)' = Hands(c)
        BY <1>1, <2>1, HandsUnchanged
    <2> QED
        BY <1>1, <1>2, <2>2, <2>3 DEF HandsInv
<1> QED
    BY <1>3, <1>4

LEMMA MainHands == TypeOK /\ HandsInv /\ MainSteps => HandsInv'
<1> SUFFICES ASSUME TypeOK, HandsInv, MainSteps, over' = "no" PROVE HandsInv'
    BY DEF HandsInv
<1>1. over = "no" /\ UNCHANGED <<client, handled>>
    BY DEF MainSteps, MainOpen, MainTest, MainReadEnd, MainRead, MainEnqueue, MainJoin,
           MainClean, AtMain, mainFrame, clientVars, Exit
<1> SUFFICES \A c \in Clients : Hands(c)' = Hands(c)
    BY <1>1 DEF HandsInv
<1>2. Main \in Workers \cup {Main}
    OBVIOUS
<1> TAKE c \in Clients
<1>t. /\ Count(registerPipe, c) \in Nat /\ Count(queue, c) \in Nat
      /\ Count(item, c) \in Nat
    BY HandTypes
<1>3. CASE MainRead
    <2>1. /\ registerPipe \in Seq(Clients) /\ registerPipe # <<>>
          /\ registerPipe' = Tail(registerPipe)
          /\ item[Main] = NoClient /\ item' = [item EXCEPT ![Main] = Head(registerPipe)]
          /\ UNCHANGED queue
        BY <1>3 DEF TypeOK, MainRead, Fifo!Offer
    <2>2. Count(registerPipe', c)
             = Count(registerPipe, c) - (IF c = Head(registerPipe) THEN 1 ELSE 0)
        BY <2>1, CountTail
    <2>3. Count(item', c) = Count(item, c) + (IF c = Head(registerPipe) THEN 1 ELSE 0)
        BY <1>2, <2>1, CountGet, FirstRequest
    <2> QED
        BY <1>1, <1>t, <2>1, <2>2, <2>3 DEF Hands
<1>4. CASE MainEnqueue
    <2>1. /\ queue \in Seq(Clients) /\ item[Main] \in Clients
          /\ queue' = Append(queue, item[Main])
          /\ item' = [item EXCEPT ![Main] = NoClient]
          /\ UNCHANGED registerPipe
        BY <1>4 DEF TypeOK, MainEnqueue, Fifo!Put
    <2>2. Count(queue', c) = Count(queue, c) + (IF c = item[Main] THEN 1 ELSE 0)
        BY <2>1, CountAppend
    <2>3. Count(item', c) = Count(item, c) - (IF c = item[Main] THEN 1 ELSE 0)
        BY <1>2, <2>1, CountDrop
    <2> QED
        BY <1>1, <1>t, <2>1, <2>2, <2>3 DEF Hands
<1>5. CASE MainOpen \/ MainTest \/ MainReadEnd \/ MainJoin
    BY <1>5, HandsUnchanged DEF MainOpen, MainTest, MainReadEnd, MainJoin, mainFrame
<1>6. ~MainClean
    BY DEF MainClean, Exit
<1> QED
    BY <1>3, <1>4, <1>5, <1>6 DEF MainSteps

\* A request whose handler returns was not handled before.
LEMMA ReturnHands ==
    ASSUME TypeOK, HandsInv, over = "no", NEW w \in Workers, Return(w), NEW c \in Clients
    PROVE  Hands(c)' = Hands(c)
<1>1. /\ item[w] \in Clients /\ item' = [item EXCEPT ![w] = NoClient]
      /\ handled' = handled \cup {item[w]}
      /\ UNCHANGED <<registerPipe, queue>>
    BY DEF TypeOK, Return, Fifo!Release, workerFrame
<1>2. Count(item', c) = Count(item, c) - (IF c = item[w] THEN 1 ELSE 0)
    BY <1>1, CountDrop
<1>3. item[w] \notin handled
    <2>1. Hands(item[w]) <= 1 /\ Count(item, item[w]) >= 1
        BY <1>1, CarriedIsCounted DEF HandsInv
    <2> QED
        BY <2>1, HandTypes DEF Hands
<1> QED
    BY <1>1, <1>2, <1>3, HandTypes DEF Hands

LEMMA WorkerHands ==
    ASSUME TypeOK, HandsInv, NEW w \in Workers, WorkerSteps(w)
    PROVE  HandsInv'
<1> SUFFICES ASSUME over' = "no" PROVE HandsInv'
    BY DEF HandsInv
<1>1. over = "no" /\ ~\E how : over' = how /\ how # "no"
    BY DEF WorkerSteps, Take, MeetClient, OpenOther, HandleQuietly, HandleCreate, Send,
           AtWorker
<1>2. CASE Take(w)
    <2>1. /\ queue \in Seq(Clients) /\ queue # <<>> /\ queue' = Tail(queue)
          /\ item[w] = NoClient /\ item' = [item EXCEPT ![w] = Head(queue)]
          /\ UNCHANGED <<registerPipe, handled, client>>
        BY <1>2 DEF TypeOK, Take, Fifo!Take, workerFrame
    <2>4. ASSUME NEW c \in Clients PROVE Hands(c)' = Hands(c)
        <3>1. Count(queue', c) = Count(queue, c) - (IF c = Head(queue) THEN 1 ELSE 0)
            BY <2>1, CountTail
        <3>2. Count(item', c) = Count(item, c) + (IF c = Head(queue) THEN 1 ELSE 0)
            BY <2>1, CountGet, FirstRequest
        <3>3. Count(queue, c) \in Nat /\ Count(item, c) \in Nat
                /\ Count(registerPipe, c) \in Nat
            BY HandTypes
        <3> QED
            BY <2>1, <3>1, <3>2, <3>3 DEF Hands
    <2> QED
        BY <1>1, <2>1, <2>4 DEF HandsInv
<1>3. CASE Return(w) /\ UNCHANGED client
    BY <1>1, <1>3, ReturnHands DEF HandsInv
<1>4. CASE MeetClient(w)
    <2>1. /\ UNCHANGED <<registerPipe, queue, item, handled>>
          /\ client[item[w]] = "opening"
          /\ client' = [client EXCEPT ![item[w]] = "reading"]
        BY <1>4 DEF MeetClient, workerFrame
    <2>2. \A c : Hands(c)' = Hands(c)
        BY <2>1, HandsUnchanged
    <2>3. \A c \in Clients :
             \/ client'[c] = client[c]
             \/ client[c] = "opening" /\ client'[c] = "reading"
        BY <2>1 DEF TypeOK
    <2> QED
        BY <1>1, <2>2, <2>3 DEF HandsInv
<1>5. CASE UNCHANGED <<registerPipe, queue, item, handled, client>>
    BY <1>1, <1>5, HandsUnchanged DEF HandsInv
<1> QED
    BY <1>1, <1>2, <1>3, <1>4, <1>5 DEF WorkerSteps, OpenOther, HandleQuietly,
        HandleCreate, Send, Exit, workerFrame

LEMMA HandsStep == TypeOK /\ HandsInv /\ [Next]_vars => HandsInv'
<1> SUFFICES ASSUME TypeOK, HandsInv, [Next]_vars PROVE HandsInv'
    OBVIOUS
<1>1. CASE Interrupt \/ UNCHANGED vars
    <2>1. UNCHANGED <<registerPipe, queue, item, handled, client, over>>
        BY <1>1 DEF Interrupt, vars, brokerVars, clientVars
    <2> QED
        BY <2>1, HandsUnchanged DEF HandsInv
<1>2. CASE InterruptCall \/ InterruptAgain
    BY <1>2 DEF HandsInv, InterruptCall, InterruptAgain, Exit
<1> QED
    BY <1>1, <1>2, Steps, ClientHands, MainHands, WorkerHands

\* Whatever the order of the steps and whenever SIGINT comes, a request that
\* was written is in exactly one place until its handler has returned.
THEOREM NoRequestLost == Spec => []RequestsConserved
<1>1. HandsInv => RequestsConserved
    BY DEF HandsInv, RequestsConserved
<1>2. Spec => []HandsInv
    BY HandsInit, HandsStep, TypeInit, TypeStep, PTL DEF Spec
<1> QED
    BY <1>1, <1>2, PTL

-----------------------------------------------------------------------------
(* A manager and the worker that serves it                                 *)

\* Only managers go on after they have written, they read from something, and
\* only they make a plain file.
ManagersInv ==
    /\ \A c \in Clients :
          client[c] \in {"sent", "opening", "reading", "failed"} => c \in Managers
    /\ \A c \in Clients : client[c] = "reading" => pipe[c] # "missing"
    /\ \A c \in Clients : pipe[c] = "file" => c \in Managers

\* Only two handlers open a pipe; register_publisher gets no further than that,
\* for no pub opens its end, and only create_box writes into it.
StagesInv ==
    /\ \A w \in Workers : worker[w] = "open" => job[item[w]] \in {"pub", "create"}
    /\ \A w \in Workers : worker[w] = "handle" => job[item[w]] # "pub"
    /\ \A w \in Workers : worker[w] = "send" => job[item[w]] = "create"
    /\ answered \subseteq handled

\* The two ends of an opened pipe: a manager that reads has its answer or a
\* worker that will write it, and a worker that will write has a reader, unless
\* that was killed.
MeetingInv ==
    over = "no" =>
        /\ \A c \in Clients :
              client[c] = "reading" /\ pipe[c] = "fifo" =>
                  job[c] = "create" /\ (c \in answered \/ HeldByWorker(c))
        /\ \A w \in Workers :
              /\ worker[w] \in {"handle", "send"} /\ job[item[w]] = "create"
              /\ pipe[item[w]] = "fifo"
              => client[item[w]] \in {"reading", "dead"}

ServiceInv == ManagersInv /\ StagesInv /\ MeetingInv

LEMMA SameGroups ==
    TypeOK => /\ Running \subseteq Workers
              /\ UNCHANGED <<sessions, job>> => Managers' = Managers /\ Running' = Running
<1>1. ASSUME TypeOK PROVE Running \subseteq Workers
    <2>1. sessions \in 0 .. MaxSessions
        BY <1>1 DEF TypeOK
    <2> QED
        BY <2>1 DEF Running, Workers
<1> QED
    BY <1>1 DEF Managers, Running

LEMMA ServiceInit == Init => ServiceInv /\ PipedManagersAnswered /\ FatalRequest
BY DEF Init, ServiceInv, ManagersInv, StagesInv, MeetingInv, PipedManagersAnswered,
       FatalRequest

\* The request a worker carries was sent, and is neither handled nor answered.
LEMMA CarriedRequest ==
    ASSUME TypeOK, HandsInv, StagesInv, over = "no", NEW w \in Workers, worker[w] # "idle"
    PROVE  /\ item[w] \in Clients /\ client[item[w]] \notin {"new", "connecting"}
           /\ item[w] \notin handled /\ item[w] \notin answered
<1>1. item[w] \in Clients
    BY DEF TypeOK
<1>2. Hands(item[w]) <= 1 /\ Count(item, item[w]) >= 1
    BY <1>1, CarriedIsCounted DEF HandsInv
<1>3. item[w] \notin handled
    BY <1>2, HandTypes DEF Hands
<1>4. Hands(item[w]) # 0
    BY <1>2, HandTypes DEF Hands
<1> QED
    BY <1>1, <1>3, <1>4 DEF StagesInv, HandsInv

LEMMA ClientService ==
    TypeOK /\ HandsInv /\ ServiceInv /\ PipedManagersAnswered /\ ClientStep
        => ServiceInv' /\ PipedManagersAnswered'
<1> SUFFICES ASSUME TypeOK, HandsInv, ServiceInv, PipedManagersAnswered, NEW d \in Clients,
                    Start(d) \/ ClientSteps(d) \/ Kill(d)
             PROVE  ServiceInv' /\ PipedManagersAnswered'
    BY DEF ClientStep
<1>1. over = "no" /\ UNCHANGED <<sessions, job, worker, item, handled, answered, over>>
    BY DEF Start, ClientSteps, Kill, PubSends, SubSends, ManagerSends, Sends, OpenOwnPipe,
           ReadResponse, ReadNothing, ListNothing, Client, brokerVars
<1>2. \A c \in Clients \ {d} : client'[c] = client[c] /\ pipe'[c] = pipe[c]
    BY DEF TypeOK, Start, ClientSteps, Kill, PubSends, SubSends, ManagerSends, Sends,
           OpenOwnPipe, ReadResponse, ReadNothing, ListNothing, Client
<1>3. StagesInv'
    BY <1>1 DEF ServiceInv, StagesInv
<1>4. Managers' = Managers /\ \A c \in Clients : HeldByWorker(c)' <=> HeldByWorker(c)
    BY <1>1 DEF Managers, HeldByWorker, Running
\* What d does: it has not come to read yet, it begins to, or it ends.
<1>5. \/ client'[d] \in {"connecting", "done"} /\ client[d] \in {"new", "connecting"}
            /\ pipe'[d] = pipe[d]
      \/ client'[d] = "sent" /\ d \in Managers /\ client[d] = "connecting"
            /\ pipe'[d] = pipe[d]
      \/ client'[d] = "opening" /\ client[d] = "sent" /\ pipe[d] = "fifo"
            /\ pipe'[d] = pipe[d]
      \/ client'[d] = "reading" /\ client[d] = "sent" /\ pipe'[d] = "file"
            /\ pipe[d] # "fifo"
      \/ /\ client'[d] = "done" /\ client[d] = "reading" /\ d \in answered
         /\ pipe'[d] = "missing"
      \/ /\ client'[d] = "failed" /\ client[d] = "reading" /\ pipe'[d] = pipe[d]
         /\ job[d] # "list" => d \notin answered /\ (pipe[d] = "fifo" => ~HeldByWorker(d))
      \/ client'[d] = "dead" /\ pipe'[d] = pipe[d]
    <2>1. CASE ReadNothing(d)
        BY <2>1 DEF TypeOK, ReadNothing, Client
    <2>2. CASE ListNothing(d)
        BY <2>2 DEF TypeOK, ListNothing, Client
    <2>3. CASE Kill(d)
        BY <2>3 DEF TypeOK, Kill, Client
    <2>4. CASE OpenOwnPipe(d)
        BY <2>4 DEF TypeOK, OpenOwnPipe, Client
    <2> QED
        BY <2>1, <2>2, <2>3, <2>4 DEF TypeOK, Start, ClientSteps, PubSends, SubSends,
            ManagerSends, Sends, ReadResponse, Client
\* Who gives up reading has a plain file: on a pipe it would be held.
<1>6. client'[d] = "failed" => pipe'[d] = "file"
    <2>1. client[d] = "reading" => pipe[d] # "missing" /\ d \in Managers
        BY DEF ServiceInv, ManagersInv
    <2>2. client[d] = "reading" /\ pipe[d] = "fifo" =>
              job[d] = "create" /\ (d \in answered \/ HeldByWorker(d))
        BY <1>1 DEF ServiceInv, MeetingInv
    <2>3. pipe[d] \in {"fifo", "file", "missing"}
        BY DEF TypeOK
    <2> QED
        BY <1>5, <2>1, <2>2, <2>3
<1>7. PipedManagersAnswered'
    BY <1>1, <1>2, <1>6 DEF PipedManagersAnswered
<1>8. ManagersInv'
    BY <1>2, <1>4, <1>5 DEF ServiceInv, ManagersInv
<1>9. MeetingInv'
    <2>1. ASSUME NEW c \in Clients, client'[c] = "reading", pipe'[c] = "fifo"
          PROVE  client[c] = "reading" /\ pipe[c] = "fifo"
        BY <1>2, <1>5, <2>1
    <2>2. ASSUME NEW w \in Workers, worker[w] \in {"handle", "send"},
                 job[item[w]] = "create", pipe'[item[w]] = "fifo"
          PROVE  client'[item[w]] \in {"reading", "dead"}
        <3>1. item[w] \in Clients /\ item[w] \notin answered
            BY <1>1, <2>2, CarriedRequest DEF ServiceInv
        <3>2. pipe[item[w]] = "fifo"
            BY <1>2, <1>5, <2>2, <3>1
        <3>3. client[item[w]] \in {"reading", "dead"}
            BY <1>1, <2>2, <3>2 DEF ServiceInv, MeetingInv
        <3>4. client'[item[w]] # "failed"
            BY <1>2, <1>6, <2>2, <3>1, <3>3
        <3> QED
            BY <1>2, <1>5, <3>1, <3>3, <3>4
    <2> QED
        BY <1>1, <1>4, <2>1, <2>2 DEF ServiceInv, MeetingInv
<1> QED
    BY <1>3, <1>7, <1>8, <1>9 DEF ServiceInv

\* The end of the process leaves nothing to be served.
LEMMA ExitService ==
    ASSUME TypeOK, ServiceInv, NEW how, how # "no", Exit(how), UNCHANGED clientVars
    PROVE  ServiceInv' /\ PipedManagersAnswered'
<1>1. /\ UNCHANGED <<client, pipe, answered, job, handled>> /\ over' # "no"
      /\ \A w \in Workers : worker'[w] = "idle"
    BY DEF Exit, clientVars
<1> QED
    BY <1>1 DEF ServiceInv, ManagersInv, StagesInv, MeetingInv, Managers,
                PipedManagersAnswered

LEMMA MainService ==
    TypeOK /\ ServiceInv /\ PipedManagersAnswered /\ MainSteps
        => ServiceInv' /\ PipedManagersAnswered'
<1> SUFFICES ASSUME TypeOK, ServiceInv, PipedManagersAnswered, MainSteps
             PROVE  ServiceInv' /\ PipedManagersAnswered'
    OBVIOUS
<1>1. CASE MainClean
    BY <1>1, ExitService DEF MainClean
<1>2. CASE ~MainClean
    <2>1. /\ UNCHANGED <<sessions, job, worker, handled, client, pipe, answered, over>>
          /\ \A w \in Workers : item'[w] = item[w]
        BY <1>2, MainIsNoWorker DEF TypeOK, MainSteps, MainOpen, MainTest, MainReadEnd,
            MainRead, MainEnqueue, MainJoin, Fifo!Offer, Fifo!Put, mainFrame, clientVars
    <2>2. Managers' = Managers /\ \A c \in Clients : HeldByWorker(c)' <=> HeldByWorker(c)
        <3>1. Managers' = Managers /\ Running' = Running /\ Running \subseteq Workers
            BY <2>1, SameGroups
        <3> QED
            BY <2>1, <3>1 DEF HeldByWorker
    <2> QED
        BY <2>1, <2>2 DEF ServiceInv, ManagersInv, StagesInv, MeetingInv,
                          PipedManagersAnswered
<1> QED
    BY <1>1, <1>2

\* A worker that has returned served its client: it owes no answer to a reader.
LEMMA ReturnService ==
    ASSUME TypeOK, ServiceInv, PipedManagersAnswered, NEW w \in Workers,
           worker[w] # "idle", Return(w), UNCHANGED <<client, pipe>>,
           answered' \subseteq answered \cup {item[w]}, answered \subseteq answered',
           job[item[w]] = "create" => item[w] \in answered'
    PROVE  ServiceInv' /\ PipedManagersAnswered'
<1>1. /\ UNCHANGED <<sessions, job, over>> /\ worker'[w] = "idle"
      /\ handled' = handled \cup {item[w]}
      /\ \A v \in Workers \ {w} : worker'[v] = worker[v] /\ item'[v] = item[v]
    BY DEF TypeOK, Return, Goto, workerFrame, Fifo!Release
<1>2. Managers' = Managers
    BY <1>1 DEF Managers
<1>3. ASSUME NEW c \in Clients, HeldByWorker(c), job[c] = "create"
      PROVE  c \in answered' \/ HeldByWorker(c)'
    <2>1. PICK v \in Running : item[v] = c /\ worker[v] \in {"handle", "send"}
        BY <1>3 DEF HeldByWorker
    <2>2. v \in Workers /\ v \in Running'
        BY <1>1, SameGroups
    <2>3. CASE v = w
        BY <1>3, <2>1, <2>3
    <2>4. CASE v # w
        BY <1>1, <2>1, <2>2, <2>4 DEF HeldByWorker
    <2> QED
        BY <2>3, <2>4
<1>4. ManagersInv'
    BY <1>2 DEF ServiceInv, ManagersInv
<1>5. StagesInv'
    BY <1>1 DEF ServiceInv, StagesInv
<1>6. MeetingInv'
    BY <1>1, <1>3 DEF ServiceInv, MeetingInv
<1>7. PipedManagersAnswered'
    BY <1>1 DEF PipedManagersAnswered
<1> QED
    BY <1>4, <1>5, <1>6, <1>7 DEF ServiceInv

LEMMA WorkerService ==
    ASSUME TypeOK, HandsInv, ServiceInv, PipedManagersAnswered, NEW w \in Workers,
           WorkerSteps(w)
    PROVE  ServiceInv' /\ PipedManagersAnswered'
<1>1. over = "no" /\ w \in Running
    BY DEF WorkerSteps, Take, MeetClient, OpenOther, HandleQuietly, HandleCreate, Send,
           AtWorker
<1>2. CASE Take(w)
    <2>1. /\ UNCHANGED <<sessions, job, client, pipe, answered, handled, over>>
          /\ worker[w] = "idle" /\ worker'[w] \in {"open", "handle"}
          /\ worker'[w] = "open" => job[item'[w]] \in {"pub", "create"}
          /\ worker'[w] = "handle" => job[item'[w]] \notin {"pub", "create"}
          /\ \A v \in Workers \ {w} : worker'[v] = worker[v] /\ item'[v] = item[v]
        BY <1>2 DEF TypeOK, Take, AtWorker, Goto, Fifo!Take, workerFrame
    <2>2. Managers' = Managers /\ Running' = Running /\ Running \subseteq Workers
        BY <2>1, SameGroups
    <2>3. \A c \in Clients : HeldByWorker(c) => HeldByWorker(c)'
        BY <2>1, <2>2 DEF HeldByWorker
    <2> QED
        BY <2>1, <2>2, <2>3 DEF ServiceInv, ManagersInv, StagesInv, MeetingInv,
                                PipedManagersAnswered
<1>3. CASE MeetClient(w)
    <2>1. /\ UNCHANGED <<sessions, job, item, pipe, answered, handled, over>>
          /\ worker[w] = "open" /\ worker' = [worker EXCEPT ![w] = "handle"]
          /\ pipe[item[w]] = "fifo" /\ client[item[w]] = "opening"
          /\ client' = [client EXCEPT ![item[w]] = "reading"]
        BY <1>3 DEF MeetClient, AtWorker, Goto, workerFrame
    <2>2. item[w] \in Clients /\ job[item[w]] \in {"pub", "create"}
        BY <2>1 DEF TypeOK, ServiceInv, StagesInv
    <2>3. item[w] \in Managers /\ job[item[w]] = "create"
        BY <2>1, <2>2 DEF ServiceInv, ManagersInv, Managers
    <2>4. Managers' = Managers /\ Running' = Running /\ Running \subseteq Workers
        BY <2>1, SameGroups
    <2>5. /\ \A c \in Clients : HeldByWorker(c) => HeldByWorker(c)'
          /\ HeldByWorker(item[w])'
        BY <1>1, <2>1, <2>4 DEF TypeOK, HeldByWorker
    <2>6. ManagersInv' /\ StagesInv'
        BY <2>1, <2>2, <2>3, <2>4 DEF TypeOK, ServiceInv, ManagersInv, StagesInv
    <2>7. MeetingInv'
        BY <1>1, <2>1, <2>2, <2>3, <2>5 DEF TypeOK, ServiceInv, MeetingInv
    <2>8. PipedManagersAnswered'
        BY <1>1, <2>1, <2>2 DEF TypeOK, PipedManagersAnswered
    <2> QED
        BY <2>6, <2>7, <2>8 DEF ServiceInv
<1>4. CASE OpenOther(w)
    <2>1. CASE Exit("no client pipe") /\ UNCHANGED clientVars
        BY <2>1, ExitService
    <2>2. CASE /\ pipe[item[w]] = "file"
               /\ Goto(w, "handle")
               /\ UNCHANGED <<workerFrame, queue, item, client, answered, handled>>
        <3>1. /\ UNCHANGED <<sessions, job, item, pipe, answered, handled, over, client>>
              /\ worker' = [worker EXCEPT ![w] = "handle"]
            BY <2>2 DEF Goto, workerFrame
        <3>2. Managers' = Managers /\ Running' = Running /\ Running \subseteq Workers
            BY <3>1, SameGroups
        <3>3. \A c \in Clients : HeldByWorker(c) => HeldByWorker(c)'
            BY <3>1, <3>2 DEF TypeOK, HeldByWorker
        <3>4. worker[w] = "open" /\ item[w] \in Clients
            BY <1>4 DEF TypeOK, OpenOther, AtWorker
        <3>5. job[item[w]] = "create"
            BY <2>2, <3>4 DEF ServiceInv, ManagersInv, StagesInv, Managers
        <3>6. ManagersInv' /\ StagesInv'
            BY <3>1, <3>2, <3>5 DEF TypeOK, ServiceInv, ManagersInv, StagesInv
        <3>7. MeetingInv' /\ PipedManagersAnswered'
            BY <2>2, <3>1, <3>3 DEF TypeOK, ServiceInv, MeetingInv, PipedManagersAnswered
        <3> QED
            BY <3>6, <3>7 DEF ServiceInv
    <2> QED
        BY <1>4, <2>1, <2>2 DEF OpenOther
<1>5. CASE HandleQuietly(w)
    <2>1. CASE Return(w)
        <3>1. worker[w] # "idle" /\ job[item[w]] # "create" /\ UNCHANGED <<client, pipe, answered>>
            BY <1>5, <2>1 DEF HandleQuietly, AtWorker, Return, workerFrame
        <3> QED
            BY <2>1, <3>1, ReturnService
    <2>2. CASE Exit("assertion") /\ UNCHANGED pipe
        BY <1>5, <2>2, ExitService DEF HandleQuietly, clientVars
    <2> QED
        BY <1>5, <2>1, <2>2 DEF HandleQuietly
<1>6. CASE HandleCreate(w)
    <2>1. /\ UNCHANGED <<sessions, job, item, pipe, answered, handled, over, client>>
          /\ worker[w] = "handle" /\ worker' = [worker EXCEPT ![w] = "send"]
          /\ job[item[w]] = "create"
        BY <1>6 DEF HandleCreate, AtWorker, Goto, workerFrame
    <2>2. Managers' = Managers /\ Running' = Running /\ Running \subseteq Workers
        BY <2>1, SameGroups
    <2>3. \A c \in Clients : HeldByWorker(c) => HeldByWorker(c)'
        BY <2>1, <2>2 DEF TypeOK, HeldByWorker
    <2> QED
        BY <2>1, <2>2, <2>3 DEF TypeOK, ServiceInv, ManagersInv, StagesInv,
                                MeetingInv, PipedManagersAnswered
<1>7. CASE Send(w)
    <2>1. CASE Exit("broken pipe") /\ UNCHANGED <<pipe, answered>>
        BY <1>7, <2>1, ExitService DEF Send, clientVars
    <2>2. CASE Return(w) /\ answered' = answered \cup {item[w]}
        <3>1. worker[w] # "idle" /\ UNCHANGED <<client, pipe>>
            BY <1>7, <2>2 DEF Send, AtWorker, Return, workerFrame
        <3> QED
            BY <2>2, <3>1, ReturnService
    <2> QED
        BY <1>7, <2>1, <2>2 DEF Send
<1> QED
    BY <1>2, <1>3, <1>4, <1>5, <1>6, <1>7 DEF WorkerSteps

LEMMA ServiceStep ==
    TypeOK /\ HandsInv /\ ServiceInv /\ PipedManagersAnswered /\ [Next]_vars
        => ServiceInv' /\ PipedManagersAnswered'
<1> SUFFICES ASSUME TypeOK, HandsInv, ServiceInv, PipedManagersAnswered, [Next]_vars
             PROVE  ServiceInv' /\ PipedManagersAnswered'
    OBVIOUS
<1>1. CASE Interrupt \/ UNCHANGED vars
    BY <1>1 DEF Interrupt, vars, brokerVars, clientVars, ServiceInv, ManagersInv, StagesInv,
                MeetingInv, PipedManagersAnswered, Managers, HeldByWorker, Running
<1>2. CASE InterruptCall \/ InterruptAgain
    BY <1>2, ExitService DEF InterruptCall, InterruptAgain
<1> QED
    BY <1>1, <1>2, Steps, ClientService, MainService, WorkerService

\* A manager with a pipe of its own does not find the end of it before its
\* answer, wherever its steps fall between those of its worker.
THEOREM PipedManagersAreAnswered == Spec => []PipedManagersAnswered
<1>1. Spec => [](TypeOK /\ HandsInv /\ ServiceInv /\ PipedManagersAnswered)
    BY TypeInit, TypeStep, HandsInit, HandsStep, ServiceInit, ServiceStep, PTL DEF Spec
<1> QED
    BY <1>1, PTL

-----------------------------------------------------------------------------
(* What ends the broker                                                    *)

LEMMA FatalStep ==
    TypeOK /\ HandsInv /\ ServiceInv /\ FatalRequest /\ [Next]_vars => FatalRequest'
<1> SUFFICES ASSUME TypeOK, HandsInv, ServiceInv, FatalRequest, [Next]_vars
             PROVE  FatalRequest'
    OBVIOUS
<1> DEFINE Failures == {"no client pipe", "broken pipe", "assertion"}
<1>1. CASE UNCHANGED vars
    BY <1>1 DEF vars, brokerVars, FatalRequest
<1>2. CASE over' \notin Failures
    BY <1>2 DEF FatalRequest
<1>3. CASE \E w \in Workers : WorkerSteps(w) /\ over' \in Failures
    <2>1. PICK w \in Workers : WorkerSteps(w) /\ over' \in Failures
        BY <1>3
    <2>2. over = "no"
        BY <2>1 DEF WorkerSteps, Take, MeetClient, OpenOther, HandleQuietly, HandleCreate,
                    Send, AtWorker
    <2>3. /\ UNCHANGED <<job, pipe, client, handled>>
          /\ \/ over' = "no client pipe" /\ worker[w] = "open" /\ pipe[item[w]] # "fifo"
             \/ /\ over' = "broken pipe" /\ worker[w] = "send"
                /\ pipe[item[w]] = "fifo" /\ client[item[w]] # "reading"
             \/ /\ over' = "assertion" /\ worker[w] = "handle"
                /\ job[item[w]] \in {"remove", "pub"}
        BY <2>1, <2>2 DEF WorkerSteps, Take, MeetClient, OpenOther, HandleQuietly,
            HandleCreate, Send, AtWorker, Return, Exit, workerFrame, clientVars
    <2>4. /\ item[w] \in Clients /\ client[item[w]] \notin {"new", "connecting"}
          /\ item[w] \notin handled
        BY <2>2, <2>3, CarriedRequest DEF ServiceInv
    <2>5. CASE over' = "no client pipe"
        <3>1. pipe[item[w]] # "fifo" /\ job[item[w]] \in {"pub", "create"}
            BY <2>3, <2>5 DEF ServiceInv, StagesInv
        <3> QED
            BY <2>3, <2>4, <2>5, <3>1 DEF FatalRequest
    \* Who met its worker on a pipe reads until it is answered or killed.
    <2>6. CASE over' = "broken pipe"
        <3>1. job[item[w]] = "create" /\ client[item[w]] = "dead"
            BY <2>2, <2>3, <2>6 DEF ServiceInv, StagesInv, MeetingInv
        <3> QED
            BY <2>3, <2>4, <2>6, <3>1 DEF FatalRequest
    \* No publisher gets as far as an assertion.
    <2>7. CASE over' = "assertion"
        <3>1. job[item[w]] = "remove"
            BY <2>3, <2>7 DEF ServiceInv, StagesInv
        <3> QED
            BY <2>3, <2>4, <2>7, <3>1 DEF FatalRequest
    <2> QED
        BY <2>1, <2>5, <2>6, <2>7
<1>4. ClientStep \/ MainSteps \/ Interrupt \/ InterruptCall \/ InterruptAgain
         => over' \notin Failures
    BY DEF ClientStep, Start, ClientSteps, Kill, PubSends, SubSends, ManagerSends, Sends,
           OpenOwnPipe, ReadResponse, ReadNothing, ListNothing, Client, MainSteps, MainOpen,
           MainTest, MainReadEnd, MainRead, MainEnqueue, MainJoin, MainClean, AtMain,
           Interrupt, InterruptCall, InterruptAgain, Exit
<1> QED
    BY <1>1, <1>2, <1>3, <1>4, Steps

\* Whatever a handler dies of, its own request is to blame, and that is one of
\* the three kinds FatalRequest names.
THEOREM RequestsThatEndTheBroker == Spec => []FatalRequest
<1>1. Spec => [](TypeOK /\ HandsInv /\ ServiceInv /\ PipedManagersAnswered)
    BY TypeInit, TypeStep, HandsInit, HandsStep, ServiceInit, ServiceStep, PTL DEF Spec
<1> QED
    BY <1>1, ServiceInit, FatalStep, PTL DEF Spec

=============================================================================
