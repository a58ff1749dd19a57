----------------------------- MODULE BrokerProofs -----------------------------
(***************************************************************************)
(* Theorems about Broker for any clients and any number of sessions.       *)
(***************************************************************************)
EXTENDS Broker, TLAPS

\* The steps of clients and signals, and what every one of them leaves alone
\* of the broker's own variables.
ClientStep == \E c \in Clients : Start(c) \/ ClientSteps(c) \/ Kill(c)

USE DEF ClientsAssumption, SessionsAssumption
USE ClientsAssumption, SessionsAssumption

LEMMA NoRequests == <<>> \in Seq(Clients)
OBVIOUS

LEMMA OneMoreRequest ==
    ASSUME NEW s \in Seq(Clients), NEW c \in Clients PROVE Append(s, c) \in Seq(Clients)
OBVIOUS

LEMMA FirstRequest ==
    ASSUME NEW s \in Seq(Clients), s # <<>>
    PROVE  Head(s) \in Clients /\ Tail(s) \in Seq(Clients)
OBVIOUS

LEMMA MainIsNoWorker == Main \notin Workers
BY DEF Main, Workers

-----------------------------------------------------------------------------
(* Types                                                                   *)

LEMMA TypeInit == Init => TypeOK
<1> SUFFICES ASSUME Init PROVE TypeOK
    OBVIOUS
<1>1. item = [t \in {Main} \cup Workers |-> NoClient] /\ queue = <<>>
    BY DEF Init, Fifo!Init, Fifo!Threads
<1>2. registerPipe \in Seq(Clients) /\ queue \in Seq(Clients)
    BY <1>1, NoRequests DEF Init
<1> QED
    BY <1>1, <1>2 DEF Init, TypeOK, Workers, Main

\* The end of the process empties every hand.
LEMMA ExitTypes ==
    ASSUME TypeOK, NEW how \in {"no client pipe", "assertion", "broken pipe",
                                "interrupted", "killed", "cleaned"},
           Exit(how), client' \in [Clients -> {"new", "connecting", "sent", "opening",
                                               "reading", "done", "failed", "dead"}],
           UNCHANGED <<pipe, answered>>
    PROVE  TypeOK'
<1>1. item' = [t \in Workers \cup {Main} |-> NoClient]
    BY DEF Exit, TypeOK
<1>2. registerPipe' \in Seq(Clients) /\ queue' \in Seq(Clients)
    BY NoRequests DEF Exit
<1> QED
    BY <1>1, <1>2 DEF Exit, TypeOK, Workers, Main

LEMMA ClientTypes == TypeOK /\ ClientStep => TypeOK'
<1> SUFFICES ASSUME TypeOK, NEW c \in Clients, Start(c) \/ ClientSteps(c) \/ Kill(c)
             PROVE  TypeOK'
    BY DEF ClientStep
<1>1. UNCHANGED brokerVars /\ UNCHANGED over
    BY DEF Start, ClientSteps, Kill, PubSends, SubSends, ManagerSends, Sends, OpenOwnPipe,
           ReadResponse, ReadNothing, ListNothing
<1>2. client' \in [Clients -> {"new", "connecting", "sent", "opening", "reading",
                               "done", "failed", "dead"}]
    BY DEF TypeOK, Start, ClientSteps, Kill, PubSends, SubSends, ManagerSends, Sends,
           OpenOwnPipe, ReadResponse, ReadNothing, ListNothing, Client
<1>3. pipe' \in [Clients -> {"fifo", "file", "missing"}]
    BY DEF TypeOK, Start, ClientSteps, Kill, PubSends, SubSends, ManagerSends, Sends,
           OpenOwnPipe, ReadResponse, ReadNothing, ListNothing
<1>4. registerPipe' \in Seq(Clients)
    <2>1. registerPipe' \in {registerPipe, Append(registerPipe, c)}
        BY DEF Start, ClientSteps, Kill, PubSends, SubSends, ManagerSends, Sends,
               OpenOwnPipe, ReadResponse, ReadNothing, ListNothing
    <2>2. registerPipe \in Seq(Clients)
        BY DEF TypeOK
    <2> QED
        BY <2>1, <2>2, OneMoreRequest
<1>5. UNCHANGED answered
    BY DEF Start, ClientSteps, Kill, PubSends, SubSends, ManagerSends, Sends,
           OpenOwnPipe, ReadResponse, ReadNothing, ListNothing
<1> QED
    BY <1>1, <1>2, <1>3, <1>4, <1>5 DEF TypeOK, brokerVars

LEMMA MainTypes == TypeOK /\ MainSteps => TypeOK'
<1> SUFFICES ASSUME TypeOK, MainSteps PROVE TypeOK'
    OBVIOUS
<1> USE MainIsNoWorker
<1>1. CASE MainOpen
    BY <1>1 DEF TypeOK, MainOpen, AtMain, mainFrame, clientVars
<1>2. CASE MainTest
    BY <1>2 DEF TypeOK, MainTest, AtMain, mainFrame, clientVars
<1>3. CASE MainReadEnd
    BY <1>3 DEF TypeOK, MainReadEnd, AtMain, mainFrame, clientVars
<1>4. CASE MainRead
    <2>1. /\ Head(registerPipe) \in Clients
          /\ registerPipe' \in Seq(Clients)
        <3>1. /\ registerPipe \in Seq(Clients) /\ registerPipe # <<>>
              /\ registerPipe' = Tail(registerPipe)
            BY <1>4 DEF TypeOK, MainRead
        <3> QED
            BY <3>1, FirstRequest
    <2>2. /\ item' = [item EXCEPT ![Main] = Head(registerPipe)]
          /\ UNCHANGED queue
        BY <1>4 DEF MainRead, Fifo!Offer
    <2>3. late' \in Nat
        <3>1. late' = late + 1 \/ late' = late
            BY <1>4 DEF MainRead
        <3>2. late \in Nat
            BY DEF TypeOK
        <3> QED
            BY <3>1, <3>2
    <2> QED
        BY <1>4, <2>1, <2>2, <2>3 DEF TypeOK, MainRead, AtMain, mainFrame, clientVars
<1>5. CASE MainEnqueue
    <2>1. /\ item[Main] \in Clients
          /\ queue' = Append(queue, item[Main])
          /\ item' = [item EXCEPT ![Main] = NoClient]
        BY <1>5 DEF TypeOK, MainEnqueue, Fifo!Put
    <2>2. queue' \in Seq(Clients)
        BY <2>1, OneMoreRequest DEF TypeOK
    <2> QED
        BY <1>5, <2>1, <2>2 DEF TypeOK, MainEnqueue, AtMain, mainFrame, clientVars
<1>6. CASE MainJoin
    BY <1>6 DEF TypeOK, MainJoin, AtMain, mainFrame, clientVars
<1>7. CASE MainClean
    <2>1. client' \in [Clients -> {"new", "connecting", "sent", "opening", "reading",
                                   "done", "failed", "dead"}]
        BY <1>7 DEF TypeOK, MainClean, clientVars
    <2> QED
        BY <1>7, <2>1, ExitTypes DEF MainClean, clientVars
<1> QED
    BY <1>1, <1>2, <1>3, <1>4, <1>5, <1>6, <1>7 DEF MainSteps

\* What is left of TypeOK once a worker's handler has returned.
LEMMA ReturnTypes ==
    ASSUME TypeOK, NEW w \in Workers, Return(w), UNCHANGED client,
           answered' \subseteq Clients
    PROVE  TypeOK'
<1>1. /\ item[w] \in Clients
      /\ item' = [item EXCEPT ![w] = NoClient]
      /\ UNCHANGED queue
    BY DEF TypeOK, Return, Fifo!Release
<1> QED
    BY <1>1, MainIsNoWorker DEF TypeOK, Return, Goto, workerFrame

LEMMA WorkerTypes ==
    ASSUME TypeOK, NEW w \in Workers, WorkerSteps(w)
    PROVE  TypeOK'
<1> USE MainIsNoWorker
<1>1. CASE Take(w)
    <2>1. /\ Head(queue) \in Clients
          /\ queue' \in Seq(Clients)
          /\ item' = [item EXCEPT ![w] = Head(queue)]
        <3>1. /\ queue \in Seq(Clients) /\ queue # <<>>
              /\ queue' = Tail(queue)
              /\ item' = [item EXCEPT ![w] = Head(queue)]
            BY <1>1 DEF TypeOK, Take, Fifo!Take
        <3> QED
            BY <3>1, FirstRequest
    <2>2. worker' \in {[worker EXCEPT ![w] = "open"], [worker EXCEPT ![w] = "handle"]}
        BY <1>1 DEF Take, Goto
    <2> QED
        BY <1>1, <2>1, <2>2 DEF TypeOK, Take, workerFrame
<1>2. CASE MeetClient(w)
    BY <1>2 DEF TypeOK, MeetClient, AtWorker, Goto, workerFrame
<1>3. CASE OpenOther(w)
    <2>1. CASE Exit("no client pipe") /\ UNCHANGED clientVars
        BY <2>1, ExitTypes DEF TypeOK, clientVars
    <2>2. CASE /\ Goto(w, "handle")
               /\ UNCHANGED <<workerFrame, queue, item, client, answered, handled>>
        BY <1>3, <2>2 DEF TypeOK, OpenOther, AtWorker, Goto, workerFrame
    <2> QED
        BY <1>3, <2>1, <2>2 DEF OpenOther
<1>4. CASE HandleQuietly(w)
    <2>1. CASE Return(w)
        BY <1>4, <2>1, ReturnTypes DEF TypeOK, HandleQuietly
    <2>2. CASE Exit("assertion") /\ UNCHANGED pipe
        BY <1>4, <2>2, ExitTypes DEF TypeOK, HandleQuietly
    <2> QED
        BY <1>4, <2>1, <2>2 DEF HandleQuietly
<1>5. CASE HandleCreate(w)
    BY <1>5 DEF TypeOK, HandleCreate, AtWorker, Goto, workerFrame
<1>6. CASE Send(w)
    <2>1. CASE Exit("broken pipe") /\ UNCHANGED <<pipe, answered>>
        BY <1>6, <2>1, ExitTypes DEF TypeOK, Send
    <2>2. CASE Return(w) /\ answered' = answered \cup {item[w]}
        <3>1. item[w] \in Clients
            BY <2>2 DEF TypeOK, Return, Fifo!Release
        <3> QED
            BY <1>6, <2>2, <3>1, ReturnTypes DEF TypeOK, Send
    <2> QED
        BY <1>6, <2>1, <2>2 DEF Send
<1> QED
    BY <1>1, <1>2, <1>3, <1>4, <1>5, <1>6 DEF WorkerSteps

LEMMA SignalTypes == TypeOK /\ (Interrupt \/ InterruptCall \/ InterruptAgain) => TypeOK'
<1> SUFFICES ASSUME TypeOK, Interrupt \/ InterruptCall \/ InterruptAgain PROVE TypeOK'
    OBVIOUS
<1>1. CASE Interrupt
    BY <1>1 DEF TypeOK, Interrupt, clientVars
<1>2. CASE InterruptCall
    BY <1>2, ExitTypes DEF TypeOK, InterruptCall, clientVars
<1>3. CASE InterruptAgain
    BY <1>3, ExitTypes DEF TypeOK, InterruptAgain, clientVars
<1> QED
    BY <1>1, <1>2, <1>3

\* The five kinds of steps.
LEMMA Steps ==
    [Next]_vars => \/ ClientStep \/ MainSteps
                   \/ \E w \in Workers : WorkerSteps(w)
                   \/ Interrupt \/ InterruptCall \/ InterruptAgain
                   \/ UNCHANGED vars
BY DEF Next, ClientStep, Over

LEMMA TypeStep == TypeOK /\ [Next]_vars => TypeOK'
<1> SUFFICES ASSUME TypeOK, [Next]_vars PROVE TypeOK'
    OBVIOUS
<1>1. CASE UNCHANGED vars
    BY <1>1 DEF TypeOK, vars, brokerVars
<1> QED
    BY <1>1, Steps, ClientTypes, MainTypes, WorkerTypes, SignalTypes

\* Every variable of the broker and its clients has its type, and a thread
\* carries a request exactly while it is busy with one.
THEOREM TypeCorrect == Spec => []TypeOK
<1>1. QED
    BY TypeInit, TypeStep, PTL DEF Spec

-----------------------------------------------------------------------------
(* SIGINT                                                                  *)

\* Once main has read a request after SIGINT it is on its way to the test of
\* the flag, and never comes back to read.
LateInv ==
    /\ late \in {0, 1}
    /\ late = 1 => sigint_called /\ main \notin {"open", "read"}

LEMMA LateStep == LateInv /\ [Next]_vars => LateInv'
<1> SUFFICES ASSUME LateInv, [Next]_vars PROVE LateInv'
    OBVIOUS
<1>1. CASE ClientStep
    BY <1>1 DEF LateInv, ClientStep, Start, ClientSteps, Kill, PubSends, SubSends,
                ManagerSends, Sends, OpenOwnPipe, ReadResponse, ReadNothing, ListNothing,
                brokerVars
<1>2. CASE MainSteps
    <2>1. CASE MainRead
        BY <2>1 DEF LateInv, MainRead, AtMain, mainFrame
    <2>2. CASE MainClean
        BY <2>2 DEF LateInv, MainClean, Exit
    <2> QED
        BY <1>2, <2>1, <2>2 DEF LateInv, MainSteps, MainOpen, MainTest, MainReadEnd,
                                MainEnqueue, MainJoin, AtMain, mainFrame
<1>3. CASE \E w \in Workers : WorkerSteps(w)
    BY <1>3 DEF LateInv, WorkerSteps, Take, MeetClient, OpenOther, HandleQuietly,
                HandleCreate, Send, Return, Exit, workerFrame
<1>4. CASE Interrupt \/ InterruptCall \/ InterruptAgain
    BY <1>4 DEF LateInv, Interrupt, InterruptCall, InterruptAgain, Exit
<1>5. CASE UNCHANGED vars
    BY <1>5 DEF LateInv, vars, brokerVars
<1> QED
    BY <1>1, <1>2, <1>3, <1>4, <1>5, Steps

\* However the signal meets the receive loop, main reads at most one more
\* request after it.
THEOREM SigintEndsReading == Spec => []OneRequestAfterSigint
<1>1. Init => LateInv
    BY DEF Init, LateInv
<1>2. LateInv => OneRequestAfterSigint
    BY DEF LateInv, OneRequestAfterSigint
<1> QED
    BY <1>1, <1>2, LateStep, PTL DEF Spec

=============================================================================
