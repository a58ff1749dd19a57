# Specifications of the message broker

TLA+ models of the publish/subscribe broker of this repository, the TLC
configurations that check them and the TLAPS proofs about them. Paths are those
of the repository.

## 1. The system

`mbroker` is one process: a main thread and `max_sessions` worker threads. Clients
(`manager`, `pub`, `sub`) write fixed-size requests into the register pipe. Main
reads them and puts them into a bounded queue; the workers take them out and
handle them. Message boxes are files of TecnicoFS, a small in-memory file system.

| Component | State | Operations | Used by |
|---|---|---|---|
| request queue, `producer-consumer/` | ring of pointers, `pcq_head`, `pcq_tail`, `pcq_current_size`, three mutexes, two condition variables | `pcq_create`, `pcq_enqueue`, `pcq_dequeue`, `pcq_destroy` | main enqueues, workers dequeue |
| file system, `fs/operations.c` | `g_library_mutex` | `tfs_init`, `tfs_open`, `tfs_close`, `tfs_write`, `tfs_read`, `tfs_unlink` (`tfs_destroy`) | request handlers |
| file system tables, `fs/state.c` | inodes, data blocks, directory entries in the root's block, open file table, one allocation table each | first-free allocation, release, lookup | `fs/operations.c` |
| request handlers, `mbroker/requests.c` | mutex `tfs_ops`; locals of the handler; a meta-file `<box>.pub` in the file system | `register_publisher`, `create_box`, `remove_box` (stubs: `register_subscriber`, `list_boxes`) | workers |
| main thread, `mbroker/mbroker.c` | `sigint_called`, register pipe, threads | start-up, receive loop, SIGINT, clean-up | - |
| box metadata, `mbroker/box_metadata.c` | array of boxes, its lock | create, destroy, insert, remove, find | nothing yet |
| protocol, `protocol/` | - | fixed-size messages per opcode, pipes | broker and clients |
| `manager`, `pub`, `sub` | - | send a request, `manager` waits for a response | users |

What is hard in it:

* **the queue**: two functions take three mutexes, two of them in opposite orders
  and one of them released late or early depending on a flag; signals are sent
  after every mutex is released; the counter that is tested is not the pair of
  indices that is used;
* **the file system**: calls are atomic, sequences of calls are not. Handles are
  not counted, so files are unlinked and truncated while open, and inodes, blocks
  and handles are reused at once;
* **the handlers**: `register_publisher` makes calls with and without `tfs_ops`,
  rejections share a clean-up that does more than it should, a failed
  `ALWAYS_ASSERT` ends the process, a pipe nobody reads blocks a worker;
* **the end**: SIGINT may hit any system call, and main joins workers that loop
  for ever.

What makes each component correct:

* queue: mutual exclusion without deadlock, counter and indices agree, FIFO, no
  object lost, duplicated or freed early, no lost wakeup, every request taken
  unless all workers hang, room never left unused by a producer that waits;
* file system: directory, inode and block tables agree, no block shared or
  leaked, handles stay inside their file, and callers see plain named files;
* handlers: `tfs_ops` and handles paired on every path, a handle stays on its box
  until the box is removed, a meta-file if and only if there is a publisher, one
  publisher per box, no existing box truncated, every request finished;
* broker and clients: a request that was sent is neither lost nor handled twice,
  SIGINT stops the reading after at most one more request, a manager that meets a
  worker is answered, and no request ends the broker for everybody else (three
  kinds do: `FatalRequest` says that there is no fourth);
* box metadata: calls give the lock back.

## 2. Modules

| Module | Models | Notes |
|---|---|---|
| `ProducerConsumer` | `producer-consumer.c`, the enqueueing loop of `main` and the dequeueing loop of `listen_for_requests` | one step per mutex or condition variable call, or per stretch of code between two of them |
| `BoundedFifo` | `producer-consumer.h`: what the queue promises | abstract; `ProducerConsumer` implements it |
| `ProducerConsumerProofs`, `ProducerConsumerRefinement` | - | theorems, section 5 |
| `TecnicoFS` | `operations.c` over `state.c` | one step per `tfs_*` call |
| `FileStore` | `operations.h`: what the file system promises | abstract; `TecnicoFS` implements it for callers that leave open files alone |
| `BoxRequests` | `requests.c` | instantiates `TecnicoFS`; one step per `tfs_*` or mutex call of a handler |
| `Broker` | `mbroker.c`, `listen_for_requests`, `protocols.c`, `manager.c`, `pub.c`, `sub.c` and the named pipes between them | composed with `BoundedFifo`; one step per system call that can block or per stretch between two of them |
| `TecnicoFSProofs`, `TecnicoFSRefinement`, `BoxRequestsProofs` | - | theorems, section 5 |
| `BrokerProofs`, `BrokerRequestProofs` | - | theorems, section 5 |
| `BoxHolder` | `box_metadata.c` | one step per call, from taking the lock on |
| `MC*` | - | small instances: symmetry sets, constant functions, initial states |

Some definitions are followed by the definition they vary (`EnqueueSignalNever`
before `EnqueueSignal`): a plausible bug in the code the second one models. They
take no part in any specification; putting one in the place of its neighbour must
break the property it is listed with in `PROJECT.json`, which shows that the
property depends on that code.

### ProducerConsumer

`pc[t]` is the next line of thread `t`. `owner` maps each mutex to its holder.
`mustUnlock` is the set of threads whose local `must_unlock_head` or
`must_unlock_tail` is true. `item[t]` is the pointer a thread carries (`elem` or
`first`), `heap` the objects that `malloc` has handed out. `head` and `tail` are
unbounded as `size_t` is for all purposes: a wrap-around at 2^64 takes 2^64
requests (and would be harmless only for capacities that are powers of two).

A `pthread_cond_wait` gives the mutex up and sleeps in one step (`Sleep`); a signal
moves one sleeper back to `lock_size`, where it must obtain the mutex again and
then test its condition again. Spurious wakeups are steps. `pcq_enqueue` works on
`tail` and asks for `head` (`OwnEnd`, `OtherEnd`), `pcq_dequeue` the other way
round. The branch of `pcq_dequeue` in which `head = tail` is kept although it is never
taken (theorem `DequeueReleasesTail`).

`Destroy` is `pcq_destroy`, which main calls when no worker is left; since workers
never return, the model lets it happen when every thread is outside.

### TecnicoFS

Numbers of inodes, blocks and handles are the indices of the C tables; `iSize` and
`iBlock` are `i_size` and `i_data_block`, `data` is `fs_data` byte by byte, so that
a copy that leaves its block lands where it does in C. What is freed is not
cleared, as in C. Fresh memory reads as 0: the tables come from blocks of 1 MiB
that the C library maps for the purpose. `size_t` arithmetic is modulo
`SizeModulus`. `status` becomes `"panic"` when an assertion fails and `"undefined"`
when a copy leaves the memory of the call. `DiscardOpen` says whether callers
unlink or truncate files that are open: the broker does (`remove_box`, the
clean-up of `register_publisher`).

Names are model values; `LongNames` stands for names that do not fit a directory
entry. Invalid path names fail before any state is touched and are left out, as
are failures of `pthread_mutex_lock` and the artificial delays.

### BoxRequests

`pc[w]` is the next line of worker `w`, `fd` and `metaFd` its locals, `tfs_ops` the
holder of the mutex, `failed` the assertion that ended the process. `Meta` maps a
box to the name of its meta-file; the MC module has a distinct one per box and one
in which a box bears the name of another's meta-file. Receiving a request is an
arbitrary choice of a handler and a box. Box names that `tfs_open` would not take (an
invalid path, or too long for an entry) are left out: for those `tfs_open` and
`tfs_unlink` give -1, which other requests reach too (a box that does not exist, a full
table). Opening the client's pipe and writing the response may fail, which ends
the process.
`register_publisher` never enters its message loop, for its condition is the
constant 0, so a session is: open, check, create the meta-file, close, unlink.

### Broker

The whole program between its pipes. `main` is the next call of the main thread,
`worker[w]` that of a worker, `client[c]` that of a client or how it ended, and
`job[c]` what the client is (pub, sub, manager create, remove or list).
`registerPipe` is what the register pipe holds, `pipe[c]` what is found at the path
of a client's own pipe: a pipe, nothing, or the plain file that `manager` makes
with `O_CREAT`. The queue is `BoundedFifo`, which `ProducerConsumer` implements;
`sessions` is `max_sessions`, which is 0 when `atoi` cannot read it (a negative one
is a huge size that `pcq_create` cannot allocate; it ends the start-up). `handled`
and `late` are history: the requests whose handler has returned, and how many were
read after SIGINT.

What the code does with pipes decides most of it. A request is at most 289 bytes and
a response 1029, both less than `PIPE_BUF`, so a write is atomic and `parse_protocol`
always finds the rest of a message. `open` for writing and `open` for reading wait
for each other (`MeetClient`). `pub` and `sub` exit without opening their own pipe, so
the worker that handles a `pub` waits for ever, or ends the broker when there is no
pipe at all (`create_pipe` is never called). `MainJoin` waits until every worker that was started
has `"ended"`; no step leads there, for `listen_for_requests` has no way out, so main
gets past the join only in a broker that has no worker. `remove` and `list` get no response: on
a pipe they wait for ever, on their own file they fail. `register_publisher` is
therefore never entered past its `open` here; `BoxRequests` is where it is explored
in full, with any outcome of `open`. Likewise what `create_box` and `remove_box` do in
the file system is a choice here. `_POSIX_C_SOURCE` without `_DEFAULT_SOURCE` (the
Makefile) gives the System V `signal`: the handler works once and system calls are
not restarted, so the first SIGINT sets the flag or makes a blocked `open` or `read`
fail, which ends the broker, and the second one ends it. When the process ends
(`Exit`) its memory is gone and the model stops.

### BoxHolder

`boxes`, `current_size` and `lock` are the fields of `box_holder_t`; a box is its name.
`box_holder_remove` of a box that is there destroys it first, which frees it twice
(`box->name` is the first byte of the box): the process ends, or nobody notices and
the function returns with the lock. No handler calls these functions yet, so the
callers are arbitrary.

## 3. Runs

| Run | Configuration | Bounds | Shows |
|---|---|---|---|
| `queue` | `MCProducerConsumer.cfg` | 2 producers, 2 workers, capacity 2, enqueues start while tail < 3 | all safety invariants, the refinement of `BoundedFifo` with its fairness, room is used, every request is taken unless all workers hang |
| `fs_any_callers` | `MCTecnicoFS.cfg` | 2 names and a long one, 2 files, 2 handles, 2 file blocks of 1 byte | tables agree whatever callers do |
| `fs_owned` | `MCTecnicoFSOwned.cfg` | the same with blocks of 2 bytes | no leak, no dead handle, no assertion, refinement of `FileStore` |
| `fs_read_past_end` | `MCTecnicoFSRead.cfg` | 1 name, 2 handles | violation, section 4 |
| `box_requests` | `MCBoxRequests.cfg` | 2 workers, 2 boxes, 3 handles, 3 entries | locks and handles paired, meta-files have publishers, handles keep their box |
| `box_progress` | `MCBoxRequestsLive.cfg` | 2 workers, 1 box, 3 handles, 2 entries | requests finish |
| `box_two_publishers` | `MCBoxRequestsPublisher.cfg` | 3 workers, 1 box, 6 handles | violation, section 4 |
| `box_meta_name` | `MCBoxRequestsMeta.cfg` | 2 workers, colliding meta-file | violation, section 4 |
| `box_create_again` | `MCBoxRequestsCreate.cfg` | 1 worker, 2 handles | violation, section 4 |
| `broker_sessions` | `MCBroker.cfg` | 2 clients of any kind, 0 to 2 sessions, SIGINT twice | conservation, at most one late request, managers answered, which requests may end the broker, accepted requests handled, `manager create` ends |
| `broker_shutdown` | `MCBrokerShutdown.cfg` | 1 client, 0 or 1 session | violation, section 4 |
| `box_holder` | `MCBoxHolder.cfg` | 2 callers, 2 names, 2 places | violation, section 4 |

Why the bounds are enough to be of interest. A ring of two places is empty, full
and in between, and up to four enqueues (two may start at the last value of
`tail`) take every slot around twice; two threads on
each side make both waits, both unlock orders and stolen wakeups happen, and the
proofs lift the safety part to every size. Two file blocks, two files and two
handles are the least with which an inode, a block or a handle that was given back
is taken again by somebody else while a stale reference is left, and with which
each table runs full. (The inode table and the directory run full together, so what
undoes the creation of an inode in these runs is the long name; the theorem
`DirectoryConsistent` covers the directory that is full first.) In `box_requests` the handle table fills up with the handles
that `create_box` leaks, and the directory fills up with two boxes and a meta-file.
`MaxEnqueues` only bounds how many enqueues start; `MaxLength` the length of a
buffer, one byte more than a block at most needs.

In `broker_sessions` two clients and two workers let
one worker hang on a client while the other serves or is also lost, let a request
wait in the queue or in the register pipe when SIGINT comes, and no session at all
is the only broker that cleans up. `MCInit` leaves out instances that differ by a
swap of the clients, and pipes that nobody looks at.

Symmetry is used for names and threads of one kind in runs that check
invariants and step properties, never in a run with liveness. Deadlock is checked
in every run: the queue may stop only in `Finished` (no request left and every
worker asleep, or destroyed), the broker only after a failed assertion or its end (`Exited`,
`Dead`, `Over`), which stutter explicitly; `box_holder` does not check it, for its
callers do stop.

Fairness. `ProducerConsumer`: a thread inside `pcq_enqueue` or `pcq_dequeue` goes on
(weak fairness, the scheduler); a thread that asks for a mutex that is given up
again and again obtains it (strong fairness; pthread mutexes are not queued, but a
thread that gives one up does other work before it asks again); a worker that is
back from a handler asks for the next request, for it loops for ever. There is no
fairness on `Handle`: `parse_request` may never return, for opening the client's
pipe (`requests.c:59`, `154`) blocks for as long as the client likes. So
`EveryRequestTaken` has an exception, every worker inside a handler for good, and
TLC finds it violated without; what is promised is that the worker that does come
back takes what the others leave. `RoomIsUsed` is about all producers together and
about room that a worker has made, so it neither rests on handlers that return nor
on one producer not being overtaken by another (the run has two; `main` is the only
one of the broker). Nothing has to call `pcq_enqueue`, and no spurious wakeup has to
come.

`BoxRequests`: the same for handlers and `tfs_ops`, and none for the opening of a
client's pipe. `Broker`: main, every worker and every client that has been started
go on when they can (weak fairness: each of these steps stays possible until it is
taken, except the taking of a request that another worker gets); that the queue
lets main and the workers on is what `RoomIsUsed` and `ImplementsLiveFifo` show of
it. Nobody has to start a client, kill one or send SIGINT, and a worker meets a
client on its pipe only if the client opens it. `AcceptedRequestsHandled` and
`CreateEnds` name what may still stop them: the end of the process, workers that all
wait for clients that will never open their pipes (or no worker at all), and for
`CreateEnds` also a shutdown. `BoxHolder`: a call that can go on does.

## 4. What the violated properties show

* `ReadsStayInside` (`operations.c:266`): a handle whose file was truncated through
  another handle is past the end of the file, `i_size - of_offset` wraps around,
  and the read returns bytes from behind the end. `operations.h:111-112` says that
  the read stops at the end.
* `OnePublisherPerBox` (`requests.c:78`): publisher 1 is registered, publisher 2 is
  rejected and unlinks the meta-file of publisher 1, publisher 3 finds no meta-file
  and is registered too. `requests.c:17-18` claims the check is atomic. (When
  publisher 1 ends it then deletes the meta-file of publisher 3, whose own
  assertion on line 123 fails.)
* `MetaFileHasPublisher` with a box called like a meta-file (`requests.c:69`): the
  box is taken for a registered publisher; line 63-65 says there is one. With
  names that do not collide the property holds (`box_requests`).
* `CreatesOnlyNewBoxes` (`requests.c:164`): the handle of a new box is never closed,
  so the table of open files runs full; then the check of `create_box` fails for
  a box that exists, and the next line truncates it.
* `CleanUpRuns` (`mbroker.c:116`): after SIGINT main joins the workers, whose loop has
  no way out. With at least one worker the clean-up that lines 112-131 announce
  never runs; a second SIGINT kills the broker.
* `FindReturns` (`box_metadata.c:87`): both returns of `box_holder_find_box` come before
  the unlock, so the next call waits for ever. `box_metadata.h:90` says it returns the
  box or NULL.

Noted while modelling, with no run of their own: `create_box` answers with the opcode
of a removal and the return code 6 whatever happened (`requests.c:152`), so `manager
create` never prints `OK`; `manager remove` and `manager list` are never answered.

## 5. Proofs

Every safety property the passing runs check is also proved, for every value
of the constants that meets the assumptions of the modules, and so are the two
refinements `ImplementsFifo` and `ImplementsFileStore`. (`HandlesLive` is a conjunct of an
inductive invariant, `OwnedInv`, and not a theorem of its own.) TLC evaluates the
assumptions on every run.

### The queue

`ProducerConsumerProofs` and `ProducerConsumerRefinement`, for every set of
producers, consumers and objects, every capacity (0 included) and every
`MaxEnqueues`:

| Theorem | Property |
|---|---|
| `TypeCorrect` | `TypeOK` |
| `MutexesHeld` | `LockDiscipline` |
| `NoDeadlock` | `NoLockCycle` |
| `CountersAgree` | `SizeCounts` |
| `RingCorrect` | `RingFilled` |
| `ItemsConserved` | `ItemConservation` |
| `DequeuedObjectsLive` | `DequeueReturnsObject` |
| `PopperSignalsSuffice`, `PusherSignalsSuffice` | `NoLostPopperSignal`, `NoLostPusherSignal` |
| `DequeueReleasesTail` | the branch of `pcq_dequeue` for an empty queue is never taken |
| `RingIsFifo` | `ImplementsFifo` |

Assumptions: `ThreadsAssumption` (the two kinds of threads are disjoint and
finitely many), `ItemsAssumption`, `CapacityAssumption`, `BoundAssumption`.

The argument. `IInv` is types, `LockDiscipline`, `SizeCounts` and `RoomChecked`.
None of them is inductive alone: that the size stays in range needs the test of
the size to be still valid when it is used, and that is what `RoomChecked` says
of a thread between the test and the update; it is because the thread holds
`current_size_lock` all along, which is `LockDiscipline`; and that an unlock is
made by the holder needs the flag `mustUnlock` to agree with the position.
`DInv` adds where every object is: `RingFilled`, `Carrying` (who carries an object
at which line), `ItemConservation` and `DeadQueue`. That an insertion meets an empty
slot rests on `ModInjective`: two places less than the capacity apart are different
slots. The signal properties are inductive relative to `IInv`: every step that
makes an element available, puts a worker to sleep or takes a worker off its way
is paid for by a signal due or another worker (lemmas `Cover*`). `NoLockCycle`
follows from `LockDiscipline`: whoever asks for a second mutex holds
`current_size_lock`, so there is at most one such thread.

The refinement maps the slots from `head` to `tail - 1` to the sequence of
`BoundedFifo`. `ContentsOK` says that this sequence is well formed and consists of
objects in the queue; an insertion then is an `Append` and a removal a `Tail`, and
every other step leaves the queue as it is.

### The file system

`TecnicoFSProofs` and `TecnicoFSRefinement`, for tables, blocks, names and buffers of
every size. The last column says for which callers: any, or those that neither
unlink nor truncate a file that is open (`ASSUME ~DiscardOpen`).

| Theorem | Property | Callers |
|---|---|---|
| `TypeCorrect` | `TypeOK` | any |
| `DirectoryConsistent` | `DirConsistent` | any |
| `BlocksNotShared` | `LiveBlocksExclusive`, `HandlesOffRoot` | any |
| `BlocksNeverLeak` | `BlocksAccounted` | careful |
| `OffsetsStayInside` | `OffsetsInside` | careful |
| `NoCallGoesWrong` | `NeverDead` | careful |
| `ReadsEndInFile` | `ReadsStayInside` | careful (`fs_read_past_end` shows that it fails for others) |
| `FilesAreStored` | `ImplementsFileStore` | careful |

Assumptions: `NamesAssumption` (an empty entry has no valid name),
`TablesAssumption` (there is an inode and a block for the root, and an index into
`fs_data` fits a `size_t`) and `InputsAssumption` (a buffer and a block together do
too: both are in the memory of one process).

The argument. `MinIsLeast` shows that the searches from index 0 find what they look
for, and lemmas such as `OpenCases`, `UnlinkCases` and `WriteCases` state a call as
its alternatives. `DirConsistent` is inductive with the types.
`LiveBlocksExclusive` is not: a write through a handle on inode 0 would give the
directory another size, so `HandlesOffRoot` is proved with it; `find_in_dir`
never answers the root. For careful callers `OwnedInv` is inductive: `HandlesLive`,
`OffsetsInside`, `SizesInside` (no inode, in use or not, is larger than a block: a file
without a handle must be in bounds too when it is opened to append), `BlocksAccounted`
and `NeverDead`. Each part needs the others: only an offset inside the file makes the
`size_t` difference of `tfs_read` exact (`ReadExact`, `WriteExact`), only then is
the copy inside the block (`SpanInside`), and only a handle on a live inode makes a
block taken by a write belong to a file.

The refinement maps an entry in use to a file with the bytes of its block, and a
handle to the name of the entry that has its inode. `Seen` says that this is well
defined. Then there is one lemma per call (`OpenRefines`, `CloseRefines`,
`WriteRefines`, `ReadRefines`, `UnlinkRefines`); what takes work is that a call
leaves everything else as it was: `BlocksApart` and `OtherBlocksStay` for the
bytes of other files, `ContentsStay` for files whose inode is not touched,
`HandleStays` for handles, whose file keeps its entry because it is open.

### The request handlers

`BoxRequestsProofs`, for any workers, boxes and tables:

| Theorem | Property |
|---|---|
| `TypeCorrect` | `TypeOK`, and `TypeOK` and `DirConsistent` of the file system underneath |
| `TfsOpsHeld` | `TfsOpsDiscipline` |
| `HandlesKept` | `HeldHandlesOpen` |
| `MetaFilesHavePublishers` | `MetaFileHasPublisher`, if `MetaDistinct` |
| `HandlesKeepBoxes` | `HandleKeepsBox`, if `MetaDistinct` |
| `FileSystemStaysUp` | no assertion of the file system fails under the handlers |

The module instantiates `TecnicoFSProofs` for the file system the handlers use; its
lemmas say what a call does to handles and files (`OpenCall`, `CloseCall`,
`UnlinkCall`), so no proof about a handler opens the file system. `NamesFit`,
`TablesFit` and `InputsFit` show that the assumptions there are met.
`HeldHandlesOpen` and `MetaFileHasPublisher` are inductive relative to the types:
`tfs_open` takes a handle nobody holds, and a file called like a meta-file appears
only in the step that makes its worker a registered publisher. The second needs the
hypothesis `MetaDistinct`: no box is called like a meta-file and no two boxes share
one. Run `box_meta_name` shows what happens otherwise. `HandleKeepsBox` is about inodes that
are freed while open: `OpenKeepsFiles` and `UnlinkKeepsFiles` say that a call takes no other
file off its inode, `MetaDistinct` that unlinking a meta-file takes no box away, and
`FdInv` with `TfsOpsDiscipline` that `create_box` holds `tfs_ops` while it has the box
open, so only a publisher, who opens the box before the lock, can lose it, and only
to `remove_box` of that box. `FileSystemStaysUp` is what is left
of `NeverDead` for the handlers, which do delete and truncate open files: since none
of them writes, no file has a block (`FsQuiet`). Assumptions:
`WorkersAssumption`, `MetaAssumption`, `NoNameAssumption`, `TablesAssumption`,
`RequestAssumption`.

### The broker

`BrokerProofs` and `BrokerRequestProofs`, for any finite set of clients and any bound
on the sessions (`ClientsAssumption`, `SessionsAssumption`):

| Theorem | Property |
|---|---|
| `TypeCorrect` | `TypeOK` |
| `SigintEndsReading` | `OneRequestAfterSigint` |
| `NoRequestLost` | `RequestsConserved` |
| `PipedManagersAreAnswered` | `PipedManagersAnswered` |
| `RequestsThatEndTheBroker` | `FatalRequest` |

`TypeOK` is inductive, with the conjuncts that tie `item` to the place of
each thread. `LateInv` adds that main, once it has read after SIGINT, is on its way
to the test of the flag.

`HandsInv` counts in how many hands a request is: the register pipe, the queue, a
thread, the handled ones. It adds to `RequestsConserved` that the request of a client
which has not written yet is nowhere, which is what the write needs. The counting is
by cardinalities of positions (`CountAppend`, `CountTail`, `CountOfNone`).
`ServiceInv` is about a manager and the worker that serves it: `ManagersInv` (who may
be at which step, and that only managers make a plain file), `StagesInv` (which handlers
open, go on and write) and `MeetingInv`
(a manager that reads from a pipe has its answer or a worker that will write it, and
that worker has a reader unless it was killed). It needs `HandsInv`: only because
nobody else carries the same request can no other worker answer it. `FatalRequest` looks
at the step that ends the broker: the request the worker carries then was sent and is not
handled (`HandsInv`), and `StagesInv` and `MeetingInv` say which request it can be; a `create`
whose manager is alive has a reader on its pipe.

### Only model-checked

Liveness, which is out of the prover's reach: `EveryRequestTaken`, `RoomIsUsed`
and `ImplementsLiveFifo` of the queue, `RequestsFinish` of the handlers,
`AcceptedRequestsHandled` and `CreateEnds` of the broker. The violations of section 4
are counterexamples, and `BoxHolder` has nothing but one.

## 6. Not modelled, and the plan

Not modelled: logging, usage messages, names that do not fit a message (the clients
copy them unchecked), the output of `manager list`, start-up failures of `mbroker`, the failure of `malloc` and of mutex
initialisation (the code gives up or ignores them), `tests` (there are none).
`make` as committed stops with an error on `mbroker.h:6` (`box_holder` unused,
`-Werror`); the models are of the program built without `-Werror`.

What could come next: `CreatesOnlyNewBoxes` and `OnePublisherPerBox` as theorems under
the hypotheses that make them true (a handle is left, no publisher is rejected), and
the registry of `BoxHolder` as an array without gaps.

| Component | Status |
|---|---|
| queue, file system operations and tables, request handlers, main thread, box metadata, manager, publisher, subscriber | modelled |
| protocol | partly: the bytes of a message are abstracted, functions that are never reached are left out |
| utilities | partly: a failed assertion ends the process; logging is left out |
