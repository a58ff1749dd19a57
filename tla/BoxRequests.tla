----------------------------- MODULE BoxRequests -----------------------------
(***************************************************************************)
(* What the workers of the broker do with a request (mbroker/requests.c),  *)
(* on top of TecnicoFS.  A message box is a file; while a publisher is     *)
(* registered to a box the file Meta[box] ("<box>.pub") exists too.        *)
(*                                                                         *)
(* A tfs_* call is one step, for it holds g_library_mutex throughout.      *)
(* Between two of them other workers run: only the mutex tfs_ops keeps     *)
(* them out, and register_publisher makes three of its calls without it.   *)
(***************************************************************************)
EXTENDS Integers, FiniteSets, Functions

CONSTANTS
    Workers,        \* the threads that run listen_for_requests
    Boxes,          \* the box names clients use
    Meta,           \* the name of the meta-file of every box
    NoName, NoRequest, Nobody,
    InodeCount, BlockCount, HandleCount, BlockSize, EntryCount, SizeModulus

ASSUME WorkersAssumption == Nobody \notin Workers
ASSUME MetaAssumption == DOMAIN Meta = Boxes
ASSUME NoNameAssumption == NoName \notin Boxes \cup Range(Meta)
ASSUME TablesAssumption ==
    /\ InodeCount \in Nat \ {0} /\ BlockCount \in Nat \ {0}
    /\ HandleCount \in Nat /\ EntryCount \in Nat
    /\ BlockSize \in Nat \ {0}
    /\ SizeModulus \in Nat /\ SizeModulus > BlockCount * BlockSize

VARIABLES
    pc,             \* the next line of every worker
    request,        \* the request it handles
    fd, metaFd,     \* its locals fd and meta_fd, -1 while they hold no open handle
    answer,         \* the response it is about to send or has sent last
    tfs_ops,        \* the worker that holds the mutex tfs_ops
    failed          \* the ALWAYS_ASSERT that ended the process, or "no"

VARIABLES inodesTaken, iSize, iBlock, blocksTaken, data, dName, dInumber,
          handlesTaken, ofInumber, ofOffset, returned, status

FS == INSTANCE TecnicoFS WITH
    Names <- Boxes \cup Range(Meta), LongNames <- {}, Bytes <- {},
    MaxLength <- 0, DiscardOpen <- TRUE

fsVars == <<inodesTaken, iSize, iBlock, blocksTaken, data, dName, dInumber,
            handlesTaken, ofInumber, ofOffset, returned, status>>
vars == <<pc, request, fd, metaFd, answer, tfs_ops, failed, fsVars>>

Kinds == {"register_publisher", "create_box", "remove_box"}
Requests == [kind : Kinds, box : Boxes]
ASSUME RequestAssumption == NoRequest \notin Requests
BoxOf(w) == request[w].box
MetaOf(w) == Meta[BoxOf(w)]
Exists(name) == FS!find_in_dir(name) # -1

Init ==
    /\ pc = [w \in Workers |-> "idle"]
    /\ request = [w \in Workers |-> NoRequest]
    /\ fd = [w \in Workers |-> -1]
    /\ metaFd = [w \in Workers |-> -1]
    /\ answer = [w \in Workers |-> "none"]
    /\ tfs_ops = Nobody
    /\ failed = "no"
    /\ FS!Init

-----------------------------------------------------------------------------
Goto(w, label) == pc' = [pc EXCEPT ![w] = label]

At(w, label) == failed = "no" /\ pc[w] = label

\* ALWAYS_ASSERT: go on at the label, or exit(EXIT_FAILURE).
Require(condition, what, w, label) ==
    IF condition
    THEN Goto(w, label) /\ UNCHANGED failed
    ELSE failed' = what /\ UNCHANGED pc

Lock(w, from, to) ==
    /\ At(w, from)
    /\ tfs_ops = Nobody
    /\ tfs_ops' = w
    /\ Goto(w, to)
    /\ UNCHANGED <<request, fd, metaFd, answer, failed, fsVars>>

Unlock(w, from, to) ==
    /\ At(w, from)
    /\ tfs_ops' = Nobody
    /\ Goto(w, to)
    /\ UNCHANGED <<request, fd, metaFd, answer, failed, fsVars>>

\* open of the client's pipe for writing.  It blocks until the client reads;
\* it fails when the client made no pipe.
OpenPipe(w, from, to) ==
    /\ At(w, from)
    /\ \/ Goto(w, to) /\ UNCHANGED failed
       \/ failed' = "client pipe" /\ UNCHANGED pc
    /\ UNCHANGED <<request, fd, metaFd, answer, tfs_ops, fsVars>>

\* parse_request of an object taken from the queue.
Receive(w, r) ==
    /\ At(w, "idle")
    /\ request' = [request EXCEPT ![w] = r]
    /\ answer' = [answer EXCEPT ![w] = "none"]
    /\ Goto(w, CASE r.kind = "register_publisher" -> "pub_pipe"
                 [] r.kind = "create_box" -> "create_pipe"
                 [] r.kind = "remove_box" -> "remove_lock")
    /\ UNCHANGED <<fd, metaFd, tfs_ops, failed, fsVars>>

\* The handler returns and its locals are gone.
Return(w, from) ==
    /\ At(w, from)
    /\ Goto(w, "idle")
    /\ request' = [request EXCEPT ![w] = NoRequest]
    /\ fd' = [fd EXCEPT ![w] = -1]
    /\ metaFd' = [metaFd EXCEPT ![w] = -1]
    /\ UNCHANGED <<answer, tfs_ops, failed, fsVars>>

-----------------------------------------------------------------------------
(* register_publisher                                                      *)

\* Before the mutex is locked.
PubOpenBox(w) ==
    /\ At(w, "pub_box")
    /\ FS!tfs_open(BoxOf(w), {"APPEND"})
    /\ fd' = [fd EXCEPT ![w] = returned'.value]
    /\ Goto(w, "pub_lock")
    /\ UNCHANGED <<request, metaFd, answer, tfs_ops, failed>>

PubOpenMeta(w) ==
    /\ At(w, "pub_meta")
    /\ FS!tfs_open(MetaOf(w), {})
    /\ metaFd' = [metaFd EXCEPT ![w] = returned'.value]
    /\ Goto(w, IF fd[w] = -1 \/ returned'.value # -1 THEN "reject_box" ELSE "pub_create")
    /\ UNCHANGED <<request, fd, answer, tfs_ops, failed>>

\* The first of the calls on a rejection, and the others forgotten.
RejectOnlyClosesBox(w) ==
    /\ At(w, "reject_box")
    /\ FS!tfs_close(fd[w])
    /\ fd' = [fd EXCEPT ![w] = -1]
    /\ Goto(w, "reject_unlock")
    /\ UNCHANGED <<request, metaFd, answer, tfs_ops, failed>>

\* Rejected: the meta-file is unlinked whoever it belongs to, if anyone.
RejectCloseBox(w) ==
    /\ At(w, "reject_box")
    /\ FS!tfs_close(fd[w])
    /\ fd' = [fd EXCEPT ![w] = -1]
    /\ Goto(w, "reject_meta")
    /\ UNCHANGED <<request, metaFd, answer, tfs_ops, failed>>

RejectCloseMeta(w) ==
    /\ At(w, "reject_meta")
    /\ FS!tfs_close(metaFd[w])
    /\ metaFd' = [metaFd EXCEPT ![w] = -1]
    /\ Goto(w, "reject_unlink")
    /\ UNCHANGED <<request, fd, answer, tfs_ops, failed>>

\* The box is unlinked in the place of its meta-file, and as it is.
RejectUnlinkBox(w) ==
    /\ At(w, "reject_unlink")
    /\ FS!tfs_unlink(BoxOf(w))
    /\ Goto(w, "reject_unlock")
    /\ UNCHANGED <<request, fd, metaFd, answer, tfs_ops, failed>>

RejectUnlinkMeta(w) ==
    /\ At(w, "reject_unlink")
    /\ FS!tfs_unlink(MetaOf(w))
    /\ Goto(w, "reject_unlock")
    /\ UNCHANGED <<request, fd, metaFd, answer, tfs_ops, failed>>

\* The last of them forgotten, and as it is.
RejectKeepsLock(w) ==
    /\ At(w, "reject_unlock")
    /\ Goto(w, "return")
    /\ UNCHANGED <<request, fd, metaFd, answer, tfs_ops, failed, fsVars>>

RejectUnlock(w) == Unlock(w, "reject_unlock", "return")

\* Accepted.
PubCreateMeta(w) ==
    /\ At(w, "pub_create")
    /\ FS!tfs_open(MetaOf(w), {"CREAT"})
    /\ metaFd' = [metaFd EXCEPT ![w] = returned'.value]
    /\ Require(returned'.value # -1, "creating meta-file", w, "pub_close_meta")
    /\ UNCHANGED <<request, fd, answer, tfs_ops>>

\* The wrong handle is closed.
PubCloseMetaWrong(w) ==
    /\ At(w, "pub_close_meta")
    /\ FS!tfs_close(fd[w])
    /\ metaFd' = [metaFd EXCEPT ![w] = -1]
    /\ Require(returned'.value = 0, "closing meta-file", w, "pub_unlock")
    /\ UNCHANGED <<request, fd, answer, tfs_ops>>

PubCloseMeta(w) ==
    /\ At(w, "pub_close_meta")
    /\ FS!tfs_close(metaFd[w])
    /\ metaFd' = [metaFd EXCEPT ![w] = -1]
    /\ Require(returned'.value = 0, "closing meta-file", w, "pub_unlock")
    /\ UNCHANGED <<request, fd, answer, tfs_ops>>

\* The session ends and the meta-file is forgotten.
PubCloseBoxOnly(w) ==
    /\ At(w, "pub_end")
    /\ FS!tfs_close(fd[w])
    /\ fd' = [fd EXCEPT ![w] = -1]
    /\ Goto(w, "return")
    /\ UNCHANGED <<request, metaFd, answer, tfs_ops, failed>>

\* The loop that should receive messages is "while (0)": the session ends at
\* once, and its last two calls are made without the mutex.
PubCloseBox(w) ==
    /\ At(w, "pub_end")
    /\ FS!tfs_close(fd[w])
    /\ fd' = [fd EXCEPT ![w] = -1]
    /\ Goto(w, "pub_unlink")
    /\ UNCHANGED <<request, metaFd, answer, tfs_ops, failed>>

PubUnlinkMeta(w) ==
    /\ At(w, "pub_unlink")
    /\ FS!tfs_unlink(MetaOf(w))
    /\ Require(returned'.value = 0, "deleting meta-file", w, "return")
    /\ UNCHANGED <<request, fd, metaFd, answer, tfs_ops>>

RegisterPublisher(w) ==
    \/ PubOpenBox(w)
    \/ PubOpenMeta(w)
    \/ RejectCloseBox(w) \/ RejectCloseMeta(w) \/ RejectUnlinkMeta(w)
    \/ RejectUnlock(w)
    \/ PubCreateMeta(w) \/ PubCloseMeta(w)
    \/ Unlock(w, "pub_unlock", "pub_end")
    \/ PubCloseBox(w) \/ PubUnlinkMeta(w)

-----------------------------------------------------------------------------
(* create_box                                                              *)

CreateCheck(w) ==
    /\ At(w, "create_check")
    /\ FS!tfs_open(BoxOf(w), {})
    /\ fd' = [fd EXCEPT ![w] = returned'.value]
    /\ Goto(w, IF returned'.value # -1 THEN "create_close" ELSE "create_new")
    /\ UNCHANGED <<request, metaFd, answer, tfs_ops, failed>>

\* A refusal that keeps tfs_ops, and the refusal as it is.
CreateRefuseKeepsLock(w) ==
    /\ At(w, "create_close")
    /\ FS!tfs_close(fd[w])
    /\ fd' = [fd EXCEPT ![w] = -1]
    /\ answer' = [answer EXCEPT ![w] = "already exists"]
    /\ Goto(w, "create_send")
    /\ UNCHANGED <<request, metaFd, tfs_ops, failed>>

CreateRefuse(w) ==
    /\ At(w, "create_close")
    /\ FS!tfs_close(fd[w])
    /\ fd' = [fd EXCEPT ![w] = -1]
    /\ answer' = [answer EXCEPT ![w] = "already exists"]
    /\ Goto(w, "create_unlock")
    /\ UNCHANGED <<request, metaFd, tfs_ops, failed>>

\* The handle of the new box is never closed: it outlives the request.  (The
\* tfs_close(-1) after a failure changes nothing.)
CreateNew(w) ==
    /\ At(w, "create_new")
    /\ FS!tfs_open(BoxOf(w), {"CREAT", "TRUNC"})
    /\ answer' = [answer EXCEPT ![w] = IF returned'.value = -1 THEN "error" ELSE "created"]
    /\ Goto(w, "create_unlock")
    /\ UNCHANGED <<request, fd, metaFd, tfs_ops, failed>>

\* send_proto_string, without the mutex: the write fails when the client has
\* closed its end of the pipe.
CreateSend(w) ==
    /\ At(w, "create_send")
    /\ \/ Goto(w, "return") /\ UNCHANGED failed
       \/ failed' = "response" /\ UNCHANGED pc
    /\ UNCHANGED <<request, fd, metaFd, answer, tfs_ops, fsVars>>

CreateBox(w) ==
    \/ CreateCheck(w) \/ CreateRefuse(w) \/ CreateNew(w)
    \/ Unlock(w, "create_unlock", "create_send")
    \/ CreateSend(w)

-----------------------------------------------------------------------------
(* remove_box                                                              *)

RemoveUnlink(w) ==
    /\ At(w, "remove_unlink")
    /\ FS!tfs_unlink(BoxOf(w))
    /\ Require(returned'.value = 0, "removing box", w, "remove_unlock")
    /\ UNCHANGED <<request, fd, metaFd, answer, tfs_ops>>

RemoveBox(w) == RemoveUnlink(w) \/ Unlock(w, "remove_unlock", "return")

-----------------------------------------------------------------------------
Locks(w) ==
    \/ Lock(w, "pub_lock", "pub_meta")
    \/ Lock(w, "create_lock", "create_check")
    \/ Lock(w, "remove_lock", "remove_unlink")

Pipes(w) == OpenPipe(w, "pub_pipe", "pub_box") \/ OpenPipe(w, "create_pipe", "create_lock")

Steps(w) == RegisterPublisher(w) \/ CreateBox(w) \/ RemoveBox(w) \/ Return(w, "return")

Exited == failed # "no" /\ UNCHANGED vars

Next ==
    \/ \E w \in Workers :
          (\E r \in Requests : Receive(w, r)) \/ Pipes(w) \/ Locks(w) \/ Steps(w)
    \/ Exited

Spec == Init /\ [][Next]_vars

\* Workers run, and a worker that keeps asking for tfs_ops obtains it.  Nothing
\* is assumed of clients: a pipe that nobody reads blocks a worker for good.
Fairness == \A w \in Workers : WF_vars(Steps(w)) /\ SF_vars(Locks(w))

FairSpec == Spec /\ Fairness

-----------------------------------------------------------------------------
Labels == {"idle", "return",
           "pub_pipe", "pub_box", "pub_lock", "pub_meta",
           "reject_box", "reject_meta", "reject_unlink", "reject_unlock",
           "pub_create", "pub_close_meta", "pub_unlock", "pub_end", "pub_unlink",
           "create_pipe", "create_lock", "create_check", "create_close",
           "create_new", "create_unlock", "create_send",
           "remove_lock", "remove_unlink", "remove_unlock"}
Critical == {"pub_meta", "reject_box", "reject_meta", "reject_unlink", "reject_unlock",
             "pub_create", "pub_close_meta", "pub_unlock",
             "create_check", "create_close", "create_new", "create_unlock",
             "remove_unlink", "remove_unlock"}

TypeOK ==
    /\ pc \in [Workers -> Labels]
    /\ request \in [Workers -> Requests \cup {NoRequest}]
    /\ fd \in [Workers -> FS!Handles \cup {-1}]
    /\ metaFd \in [Workers -> FS!Handles \cup {-1}]
    /\ answer \in [Workers -> {"none", "created", "already exists", "error"}]
    /\ tfs_ops \in Workers \cup {Nobody}
    /\ \A w \in Workers :
            /\ pc[w] = "idle" <=> request[w] = NoRequest
            /\ metaFd[w] # -1 => pc[w] \in {"reject_box", "reject_meta", "pub_create",
                                           "pub_close_meta"}
    /\ failed \in {"no", "client pipe", "creating meta-file", "closing meta-file",
                   "deleting meta-file", "response", "removing box"}

\* Every path through a handler, the rejections included, gives tfs_ops back,
\* and no handler is inside its critical section without it.
TfsOpsDiscipline == \A w \in Workers : tfs_ops = w <=> pc[w] \in Critical

\* A handle a request still has to close is open and nobody else's: no request
\* closes the handle of another one, although the table is reused at once and
\* some paths close handles that were never opened.
Held(w) == {fd[w], metaFd[w]} \ {-1}
HeldHandlesOpen ==
    failed = "no" =>
        \A w \in Workers :
            /\ Held(w) \subseteq handlesTaken
            /\ fd[w] = metaFd[w] => fd[w] = -1
            /\ \A u \in Workers \ {w} : Held(w) \cap Held(u) = {}

\* The handle of a request is on the file its box is now.
OnBox(w) ==
    /\ fd[w] # -1
    /\ Exists(BoxOf(w))
    /\ ofInumber[fd[w]] = FS!find_in_dir(BoxOf(w))

\* Files are unlinked and inodes reused while they are open ("todo: remove all
\* subscribers and publishers from this box"), and a handle that lost its file
\* is on whatever gets the inode next.  Only remove_box of its own box does
\* that to a publisher; other publishers, rejected or not, and requests on other
\* boxes do not, and create_box, which holds tfs_ops, never loses its file.
HandleKeepsBox ==
    [][\A w \in Workers :
          OnBox(w) /\ fd'[w] = fd[w] =>
              \/ OnBox(w)'
              \/ /\ request[w].kind = "register_publisher"
                 /\ \E u \in Workers : RemoveUnlink(u) /\ BoxOf(u) = BoxOf(w)]_vars

\* From the creation of the meta-file on, a publisher counts as registered.
Registered(w) == pc[w] \in {"pub_close_meta", "pub_unlock", "pub_end", "pub_unlink"}

\* "If this file exists, then a publisher is registered to it."
MetaFileHasPublisher ==
    failed = "no" =>
        \A b \in Boxes : Exists(Meta[b]) =>
            \E w \in Workers : Registered(w) /\ BoxOf(w) = b

\* tfs_ops "guarantees atomicity of checking if a publisher is attached to a
\* box, and if not, attach one to it": a box has one publisher at a time.
OnePublisherPerBox ==
    \A w, u \in Workers :
        w # u /\ Registered(w) /\ Registered(u) => BoxOf(w) # BoxOf(u)

\* "Check if the box already exists.  Send error and quit, if so": the second
\* tfs_open of create_box, which truncates, never meets an existing box.
CreatesOnlyNewBoxes ==
    \A w \in Workers : pc[w] = "create_new" => ~Exists(BoxOf(w))

\* A request past the client's pipe is finished, unless the process ends: no
\* worker waits for tfs_ops for ever.
RequestsFinish ==
    \A w \in Workers :
        pc[w] \notin {"idle", "pub_pipe", "create_pipe"} ~> pc[w] = "idle" \/ failed # "no"

=============================================================================
