-------------------------------- MODULE Broker --------------------------------
(***************************************************************************)
(* The whole broker between its pipes: main (mbroker/mbroker.c), the       *)
(* workers (listen_for_requests), and the programs that talk to them,      *)
(* manager, pub and sub, each of which sends one request.  The request     *)
(* queue is BoundedFifo, which ProducerConsumer implements, and what a     *)
(* handler does in the file system is a choice among the outcomes that     *)
(* BoxRequests has.                                                        *)
(*                                                                         *)
(* The model ends when the process does (over).  A message is shorter than *)
(* PIPE_BUF, so a write puts all of it into a pipe at once.                *)
(***************************************************************************)
EXTENDS Integers, Sequences, FiniteSets

CONSTANTS
    Clients,        \* the processes a user may start, and their requests
    NoClient,
    MaxSessions     \* bound: the largest max_sessions

ASSUME ClientsAssumption == NoClient \notin Clients /\ IsFiniteSet(Clients)
ASSUME SessionsAssumption == MaxSessions \in Nat

VARIABLES
    sessions,       \* max_sessions: workers and places in the queue; atoi
                    \* makes it 0 of what is not a number
    job,            \* what every client is started for
    main,           \* the next call of the main thread
    sigint_called,
    registerPipe,   \* the requests in the register pipe
    queue, item,    \* the queue, and the request each thread carries
    worker,         \* the next call of every worker
    client,         \* the next call of every client, or how it ended
    pipe,           \* what is found at the path of every client's own pipe
    answered,       \* the clients to whose pipe a response was written
    over            \* how the broker's process ended, or "no"

VARIABLES           \* history
    handled,        \* the requests whose handler has returned
    late            \* how many requests main read after SIGINT

brokerVars == <<sessions, job, main, sigint_called, queue, item, worker, handled, late>>
vars == <<brokerVars, registerPipe, client, pipe, answered, over>>

Main == 0
Workers == 1 .. MaxSessions
Running == 1 .. sessions
Jobs == {"pub", "sub", "create", "remove", "list"}
Managers == {c \in Clients : job[c] \in {"create", "remove", "list"}}

Fifo == INSTANCE BoundedFifo WITH
    Producers <- {Main}, Consumers <- Workers, Items <- Clients,
    NULL <- NoClient, Capacity <- MaxSessions, contents <- queue

\* The workers have been created and main is about to open the register pipe.
\* Users make the clients' own pipes, or forget to: create_pipe is not called.
Init ==
    /\ sessions \in 0 .. MaxSessions
    /\ job \in [Clients -> Jobs]
    /\ pipe \in [Clients -> {"fifo", "missing"}]
    /\ main = "open"
    /\ sigint_called = FALSE
    /\ registerPipe = <<>>
    /\ Fifo!Init
    /\ worker = [w \in Workers |-> "idle"]
    /\ client = [c \in Clients |-> "new"]
    /\ answered = {}
    /\ over = "no"
    /\ handled = {}
    /\ late = 0

-----------------------------------------------------------------------------
(* manager, pub, sub                                                       *)

Client(c, from, to) ==
    /\ over = "no"
    /\ client[c] = from
    /\ client' = [client EXCEPT ![c] = to]

\* The clients that have the register pipe open, or are about to: a manager
\* keeps it until it ends.
Writers == {c \in Clients : client[c] \in {"connecting", "sent", "opening", "reading"}}

\* open of the register pipe for writing, which waits for main to open it.
Start(c) ==
    /\ Client(c, "new", "connecting")
    /\ UNCHANGED <<brokerVars, registerPipe, pipe, answered, over>>

\* send_proto_string.  main has the pipe open, or the client waits.
Sends(c, to) ==
    /\ main # "open"
    /\ Client(c, "connecting", to)
    /\ registerPipe' = Append(registerPipe, c)
    /\ UNCHANGED <<brokerVars, pipe, answered, over>>

\* pub and sub exit without a look at their own pipe.
PubSends(c) == job[c] = "pub" /\ Sends(c, "done")
SubSends(c) == job[c] = "sub" /\ Sends(c, "done")
ManagerSends(c) == c \in Managers /\ Sends(c, "sent")

\* open_pipe(client_pipe_name, O_RDONLY | O_CREAT): where there is no pipe it
\* makes a plain file; on a pipe it waits for a writer.
OpenOwnPipe(c) ==
    /\ Client(c, "sent", IF pipe[c] = "fifo" THEN "opening" ELSE "reading")
    /\ pipe' = [pipe EXCEPT ![c] = IF @ = "missing" THEN "file" ELSE @]
    /\ UNCHANGED <<brokerVars, registerPipe, answered, over>>

\* create_box finds the response there, prints it and removes the pipe.
ReadResponse(c) ==
    /\ c \in answered
    /\ Client(c, "reading", "done")
    /\ pipe' = [pipe EXCEPT ![c] = "missing"]
    /\ UNCHANGED <<brokerVars, registerPipe, answered, over>>

\* A worker holds the pipe of the client open for writing.
HeldByWorker(c) == \E w \in Running : item[w] = c /\ worker[w] \in {"handle", "send"}

\* The end of the file before there was a response fails an assertion:
\* "Invalid read size" in create_box and remove_box.  (And a manager that does
\* not wait while the worker that met it is still busy.)
ReadNothingAtOnce(c) ==
    /\ job[c] # "list"
    /\ c \notin answered
    /\ Client(c, "reading", "failed")
    /\ UNCHANGED <<brokerVars, registerPipe, pipe, answered, over>>
ReadNothing(c) ==
    /\ job[c] # "list"
    /\ c \notin answered
    /\ pipe[c] = "fifo" => ~HeldByWorker(c)
    /\ Client(c, "reading", "failed")
    /\ UNCHANGED <<brokerVars, registerPipe, pipe, answered, over>>

\* "Received invalid opcode" in list_boxes, whose loop never sees a box: the
\* broker writes none, so there is only the file list_boxes has made itself.
ListNothing(c) ==
    /\ job[c] = "list"
    /\ Client(c, "reading", "failed")
    /\ UNCHANGED <<brokerVars, registerPipe, pipe, answered, over>>

\* The user interrupts a client.
Kill(c) ==
    /\ \E from \in {"connecting", "sent", "opening", "reading"} : Client(c, from, "dead")
    /\ UNCHANGED <<brokerVars, registerPipe, pipe, answered, over>>

ClientSteps(c) ==
    PubSends(c) \/ SubSends(c) \/ ManagerSends(c) \/ OpenOwnPipe(c)
    \/ ReadResponse(c) \/ ReadNothing(c) \/ ListNothing(c)

-----------------------------------------------------------------------------
(* main                                                                    *)

mainFrame == <<sessions, job, sigint_called, worker, handled>>
clientVars == <<client, pipe, answered>>

\* The process ends: its memory is gone, and what nobody has read from the
\* register pipe too.
Exit(how) ==
    /\ over' = how
    /\ main' = "gone"
    /\ queue' = <<>>
    /\ item' = [t \in DOMAIN item |-> NoClient]
    /\ worker' = [w \in Workers |-> "idle"]
    /\ registerPipe' = <<>>
    /\ UNCHANGED <<sessions, job, sigint_called, handled, late>>

AtMain(label) == over = "no" /\ main = label

\* open of the register pipe for reading, which waits for a first client.
MainOpen ==
    /\ AtMain("open")
    /\ Writers # {}
    /\ main' = "test"
    /\ UNCHANGED <<mainFrame, clientVars, registerPipe, queue, item, late, over>>

\* The flag is never looked at, or it is.
MainTestNothing ==
    /\ AtMain("test")
    /\ main' = "read"
    /\ UNCHANGED <<mainFrame, clientVars, registerPipe, queue, item, late, over>>
MainTest ==
    /\ AtMain("test")
    /\ main' = IF sigint_called THEN "join" ELSE "read"
    /\ UNCHANGED <<mainFrame, clientVars, registerPipe, queue, item, late, over>>

\* Nothing comes and a client has the pipe open: read blocks.
NothingToRead == registerPipe = <<>> /\ Writers # {}

\* The end of the file, as no client is left: main asks again at once.
MainReadEnd ==
    /\ AtMain("read")
    /\ registerPipe = <<>> /\ Writers = {}
    /\ main' = "test"
    /\ UNCHANGED <<mainFrame, clientVars, registerPipe, queue, item, late, over>>

\* The code of a request, and parse_protocol, which finds the rest there, into
\* a new object.  (And a version that drops what it reads after SIGINT.)
MainReadUnlessInterrupted ==
    /\ AtMain("read")
    /\ registerPipe # <<>>
    /\ IF sigint_called
       THEN main' = "test" /\ UNCHANGED <<queue, item>>
       ELSE main' = "enqueue" /\ Fifo!Offer(Main, Head(registerPipe))
    /\ registerPipe' = Tail(registerPipe)
    /\ UNCHANGED <<mainFrame, clientVars, late, over>>
MainRead ==
    /\ AtMain("read")
    /\ registerPipe # <<>>
    /\ Fifo!Offer(Main, Head(registerPipe))
    /\ registerPipe' = Tail(registerPipe)
    /\ late' = IF sigint_called THEN late + 1 ELSE late
    /\ main' = "enqueue"
    /\ UNCHANGED <<mainFrame, clientVars, over>>

MainEnqueue ==
    /\ AtMain("enqueue")
    /\ Len(queue) < sessions
    /\ Fifo!Put(Main)
    /\ main' = "test"
    /\ UNCHANGED <<mainFrame, clientVars, registerPipe, late, over>>

\* pthread_join of every worker that was created.  No step of a worker leads to
\* "ended": its loop is while (true).
MainJoin ==
    /\ AtMain("join")
    /\ \A w \in Running : worker[w] = "ended"
    /\ main' = "clean"
    /\ UNCHANGED <<mainFrame, clientVars, registerPipe, queue, item, late, over>>

\* The register pipe is closed and removed, the queue and the file system are
\* destroyed, and main returns.
MainClean == AtMain("clean") /\ Exit("cleaned") /\ UNCHANGED clientVars

MainSteps ==
    \/ MainOpen \/ MainTest \/ MainReadEnd \/ MainRead \/ MainEnqueue
    \/ MainJoin \/ MainClean

-----------------------------------------------------------------------------
(* The workers                                                             *)

workerFrame == <<sessions, job, main, sigint_called, registerPipe, pipe, late, over>>

AtWorker(w, label) == over = "no" /\ w \in Running /\ worker[w] = label
Goto(w, label) == worker' = [worker EXCEPT ![w] = label]

\* The handler has returned: the request is freed and counts as handled.  (And
\* a worker that keeps the request, and one that does not loop.)
ReturnKeeping(w) ==
    /\ Goto(w, "idle")
    /\ handled' = handled \cup {item[w]}
    /\ UNCHANGED <<workerFrame, queue, item>>
ReturnOnce(w) ==
    /\ Fifo!Release(w)
    /\ Goto(w, "ended")
    /\ handled' = handled \cup {item[w]}
    /\ UNCHANGED workerFrame
Return(w) ==
    /\ Fifo!Release(w)
    /\ Goto(w, "idle")
    /\ handled' = handled \cup {item[w]}
    /\ UNCHANGED workerFrame

\* pcq_dequeue and parse_request.  Only two handlers open a pipe.  (And a
\* worker that takes nothing more after SIGINT.)
TakeUnlessInterrupted(w) ==
    /\ ~sigint_called
    /\ AtWorker(w, "idle")
    /\ Fifo!Take(w)
    /\ Goto(w, IF job[item'[w]] \in {"pub", "create"} THEN "open" ELSE "handle")
    /\ UNCHANGED <<workerFrame, client, answered, handled>>
Take(w) ==
    /\ AtWorker(w, "idle")
    /\ Fifo!Take(w)
    /\ Goto(w, IF job[item'[w]] \in {"pub", "create"} THEN "open" ELSE "handle")
    /\ UNCHANGED <<workerFrame, client, answered, handled>>

\* open(client_named_pipe_path, O_WRONLY) waits until the client opens its
\* pipe; the two then go on together.
MeetClient(w) ==
    LET c == item[w]
    IN  /\ AtWorker(w, "open")
        /\ pipe[c] = "fifo" /\ client[c] = "opening"
        /\ Goto(w, "handle")
        /\ client' = [client EXCEPT ![c] = "reading"]
        /\ UNCHANGED <<workerFrame, queue, item, answered, handled>>

\* It fails if nothing is there.  The file a manager made has no defined mode,
\* and may or may not be written.
OpenOther(w) ==
    /\ AtWorker(w, "open")
    /\ \/ /\ pipe[item[w]] # "fifo"
          /\ Exit("no client pipe")
          /\ UNCHANGED clientVars
       \/ /\ pipe[item[w]] = "file"
          /\ Goto(w, "handle")
          /\ UNCHANGED <<workerFrame, queue, item, client, answered, handled>>

\* The handlers that send nothing, from their first call in the file system
\* to the last one; remove_box and register_publisher may fail an assertion.
\* (No publisher gets here: pub never opens the pipe its worker waits on.)
HandleQuietly(w) ==
    /\ AtWorker(w, "handle")
    /\ job[item[w]] # "create"
    /\ \/ Return(w)
       \/ job[item[w]] \in {"remove", "pub"} /\ Exit("assertion") /\ UNCHANGED pipe
    /\ UNCHANGED <<client, answered>>

\* create_box up to its answer, which is sent whatever it is.
HandleCreate(w) ==
    /\ AtWorker(w, "handle")
    /\ job[item[w]] = "create"
    /\ Goto(w, "send")
    /\ UNCHANGED <<workerFrame, queue, item, client, answered, handled>>

\* send_proto_string, close.  A pipe that has lost its reader ends the broker.
\* (And a version that keeps some answers to itself, say an error.)
SendSometimes(w) ==
    /\ AtWorker(w, "send")
    /\ answered' \in {answered, answered \cup {item[w]}}
    /\ Return(w)
    /\ UNCHANGED client
Send(w) ==
    LET c == item[w]
    IN  /\ AtWorker(w, "send")
        /\ IF pipe[c] = "fifo" /\ client[c] # "reading"
           THEN Exit("broken pipe") /\ UNCHANGED <<pipe, answered>>
           ELSE Return(w) /\ answered' = answered \cup {c}
        /\ UNCHANGED client

WorkerSteps(w) ==
    Take(w) \/ MeetClient(w) \/ OpenOther(w) \/ HandleQuietly(w)
    \/ HandleCreate(w) \/ Send(w)

-----------------------------------------------------------------------------
(* Signals.  With _POSIX_C_SOURCE alone, signal() installs a handler for    *)
(* one delivery and does not restart system calls.                         *)

\* A thread is blocked in open or read; locks, condition variables and
\* pthread_join are not interrupted.
Blocked ==
    \/ main = "open" /\ Writers = {}
    \/ main = "read" /\ NothingToRead
    \/ \E w \in Running :
          worker[w] = "open" /\ pipe[item[w]] = "fifo" /\ client[item[w]] # "opening"

\* The first SIGINT sets the flag, or makes a blocked call fail, which ends the
\* broker; the second one ends it.
Interrupt ==
    /\ over = "no" /\ ~sigint_called
    /\ sigint_called' = TRUE
    /\ UNCHANGED <<sessions, job, main, registerPipe, queue, item, worker, handled, late,
                   clientVars, over>>

InterruptCall ==
    /\ over = "no" /\ ~sigint_called
    /\ Blocked
    /\ Exit("interrupted")
    /\ UNCHANGED clientVars

InterruptAgain ==
    /\ over = "no" /\ sigint_called
    /\ Exit("killed")
    /\ UNCHANGED clientVars

-----------------------------------------------------------------------------
Over == over # "no" /\ UNCHANGED vars

Next ==
    \/ \E c \in Clients : Start(c) \/ ClientSteps(c) \/ Kill(c)
    \/ MainSteps
    \/ \E w \in Workers : WorkerSteps(w)
    \/ Interrupt \/ InterruptCall \/ InterruptAgain
    \/ Over

Spec == Init /\ [][Next]_vars

\* Threads and clients that can go on do; users need not start clients, kill
\* them or interrupt the broker.
Fairness ==
    /\ WF_vars(MainSteps)
    /\ \A w \in Workers : WF_vars(WorkerSteps(w))
    /\ \A c \in Clients : WF_vars(ClientSteps(c))

FairSpec == Spec /\ Fairness

-----------------------------------------------------------------------------
TypeOK ==
    /\ sessions \in 0 .. MaxSessions
    /\ job \in [Clients -> Jobs]
    /\ main \in {"open", "test", "read", "enqueue", "join", "clean", "gone"}
    /\ sigint_called \in BOOLEAN
    /\ registerPipe \in Seq(Clients) /\ queue \in Seq(Clients)
    /\ item \in [Workers \cup {Main} -> Clients \cup {NoClient}]
    /\ worker \in [Workers -> {"idle", "open", "handle", "send"}]
    /\ client \in [Clients -> {"new", "connecting", "sent", "opening", "reading",
                               "done", "failed", "dead"}]
    /\ pipe \in [Clients -> {"fifo", "file", "missing"}]
    /\ answered \subseteq Clients
    /\ over \in {"no", "no client pipe", "assertion", "broken pipe", "interrupted",
                 "killed", "cleaned"}
    /\ handled \subseteq Clients
    /\ late \in Nat
    \* a thread carries a request exactly while it is busy with one
    /\ item[Main] # NoClient <=> main = "enqueue"
    /\ \A w \in Workers : item[w] # NoClient <=> worker[w] # "idle"

\* How many hands a request is in: the register pipe, main, the queue, a
\* worker, or done with.
Count(s, c) == Cardinality({i \in DOMAIN s : s[i] = c})
Hands(c) ==
    Count(registerPipe, c) + Count(queue, c) + Count(item, c)
        + (IF c \in handled THEN 1 ELSE 0)

\* A request that was sent is neither lost nor handled twice while the broker
\* runs, whenever SIGINT comes: before main has enqueued what it read,
\* while it waits for a place in the queue, or when it reads no more.
RequestsConserved ==
    over = "no" =>
        \A c \in Clients :
            /\ Hands(c) <= 1
            /\ client[c] \in {"sent", "opening", "reading", "done", "failed"} => Hands(c) = 1

\* "sigint_called == 0" is only tested between two requests: the one main is
\* waiting for when the signal comes is still served, and no other.
OneRequestAfterSigint == late <= 1

\* A manager whose pipe existed before it started never finds it empty: the
\* worker it meets there has written its response by the time it closes.  (A
\* manager that has to make a file itself may read it before the worker wrote.)
PipedManagersAnswered ==
    over = "no" => \A c \in Clients : client[c] = "failed" => pipe[c] = "file"

\* A request that ends the broker is one of three, and is still being handled:
\* of a pub or a manager create that came without a pipe of its own, of a
\* manager create killed before its answer, or of a manager remove.  No other
\* one does, however the steps interleave; in particular no manager create
\* that found its pipe and stays, although it shares the pipe with the worker.
FatalRequest ==
    over \in {"no client pipe", "broken pipe", "assertion"} =>
        \E c \in Clients :
            /\ client[c] \notin {"new", "connecting"} /\ c \notin handled
            /\ CASE over = "no client pipe" -> job[c] \in {"pub", "create"} /\ pipe[c] # "fifo"
                 [] over = "broken pipe" -> job[c] = "create" /\ client[c] = "dead"
                 [] over = "assertion" -> job[c] = "remove"

-----------------------------------------------------------------------------
\* A worker that waits for a client that will never open its pipe: pub never
\* does, and a manager does not when it was killed before.
Abandoned(c) ==
    pipe[c] = "fifo" /\ (job[c] = "pub" \/ client[c] = "dead")
StuckWorkers == {w \in Running : worker[w] = "open" /\ Abandoned(item[w])}

\* No worker is left to take a request: none was started, or all are stuck.
NoWorkerLeft == StuckWorkers = Running

\* Requests in the hands of the broker are handled, after SIGINT too: nothing
\* stops one but the end of the process, its own client, or as many clients
\* that left their pipe unread as there are sessions (if there are no sessions
\* at all, the first request stays with main for ever).
AcceptedRequestsHandled ==
    \A c \in Clients :
        c = item[Main] \/ Count(queue, c) = 1 \/ (\E w \in Running : item[w] = c)
            ~> c \in handled \/ Abandoned(c) \/ NoWorkerLeft \/ over # "no"

\* "Waits for the mbroker to send a response": manager create ends, unless the
\* broker has ended, is shutting down, or has no worker left.
CreateEnds ==
    \A c \in Clients :
        job[c] = "create" /\ client[c] = "sent"
            ~> client[c] \in {"done", "failed", "dead"}
               \/ NoWorkerLeft \/ sigint_called \/ over # "no"

\* "Wait for all threads to finish", and then the clean-up: the join ends.
CleanUpRuns == main = "join" ~> over # "no"

=============================================================================
