-------------------------- MODULE BoxRequestsProofs --------------------------
(***************************************************************************)
(* Theorems about BoxRequests, for any workers, boxes and tables.  What    *)
(* the calls of the file system do is taken from TecnicoFSProofs.          *)
(***************************************************************************)
EXTENDS BoxRequests, TLAPS

FSP == INSTANCE TecnicoFSProofs WITH
    Names <- Boxes \cup Range(Meta), LongNames <- {}, Bytes <- {},
    MaxLength <- 0, DiscardOpen <- TRUE

\* The parameters are such as the file system asks for.
LEMMA NamesFit == FSP!NamesAssumption
BY NoNameAssumption DEF FSP!NamesAssumption, FSP!Paths

LEMMA TablesFit == FSP!TablesAssumption
BY TablesAssumption DEF FSP!TablesAssumption

LEMMA InputsFit == FSP!InputsAssumption
<1>1. BlockCount \in Nat /\ BlockCount >= 1 /\ BlockSize \in Nat
    BY TablesAssumption
<1>2. (BlockCount - 1) * BlockSize >= 0 /\ BlockCount * BlockSize \in Nat
    BY <1>1
<1>3. BlockCount * BlockSize >= BlockSize
    BY <1>1, <1>2
<1> QED
    BY <1>1, <1>2, <1>3, TablesAssumption DEF FSP!InputsAssumption

-----------------------------------------------------------------------------
(* BoxRequests and the theorems above speak of the same file system        *)

LEMMA SameFind ==
    ASSUME NEW n
    PROVE  /\ FS!find_in_dir(n) = FSP!find_in_dir(n)
           /\ FS!find_in_dir(n)' = FSP!find_in_dir(n)'
BY DEF FS!find_in_dir, FSP!find_in_dir, FS!Entries, FSP!Entries, FS!Min, FSP!Min

LEMMA SameInit == FS!Init = FSP!Init
BY DEF FS!Init, FSP!Init, FS!Root, FSP!Root, FS!Inodes, FSP!Inodes, FS!Addresses,
       FSP!Addresses, FS!Entries, FSP!Entries, FS!Handles, FSP!Handles

LEMMA SameClose == ASSUME NEW h PROVE FS!tfs_close(h) = FSP!tfs_close(h)
BY DEF FS!tfs_close, FSP!tfs_close, FS!BadHandle, FSP!BadHandle, FS!Return, FSP!Return,
       FS!inodeVars, FSP!inodeVars, FS!blockVars, FSP!blockVars,
       FS!dirVars, FSP!dirVars, FS!handleVars, FSP!handleVars

LEMMA SameUnlink == ASSUME NEW n PROVE FS!tfs_unlink(n) = FSP!tfs_unlink(n)
BY DEF FS!tfs_unlink, FSP!tfs_unlink, FS!find_in_dir, FSP!find_in_dir,
       FS!Entries, FSP!Entries, FS!Min, FSP!Min, FS!Return, FSP!Return,
       FS!inodeVars, FSP!inodeVars, FS!blockVars, FSP!blockVars,
       FS!dirVars, FSP!dirVars, FS!handleVars, FSP!handleVars,
       FS!inode_delete, FSP!inode_delete, FS!release_block, FSP!release_block,
       FS!Blocks, FSP!Blocks, FS!clear_dir_entry, FSP!clear_dir_entry

LEMMA SameOpen == ASSUME NEW n, NEW m PROVE FS!tfs_open(n, m) = FSP!tfs_open(n, m)
BY DEF FS!tfs_open, FSP!tfs_open, FS!OpenExisting, FSP!OpenExisting,
       FS!OpenCreate, FSP!OpenCreate, FS!OpenMissing, FSP!OpenMissing,
       FS!find_in_dir, FSP!find_in_dir, FS!Entries, FSP!Entries, FS!Min, FSP!Min,
       FS!Return, FSP!Return, FS!inodeVars, FSP!inodeVars, FS!blockVars, FSP!blockVars,
       FS!dirVars, FSP!dirVars, FS!handleVars, FSP!handleVars,
       FS!release_block, FSP!release_block, FS!Blocks, FSP!Blocks,
       FS!add_to_open_file_table, FSP!add_to_open_file_table,
       FS!FreeHandles, FSP!FreeHandles, FS!Handles, FSP!Handles,
       FS!FreeInodes, FSP!FreeInodes, FS!Inodes, FSP!Inodes,
       FS!CanAddEntry, FSP!CanAddEntry, FS!EmptyEntries, FSP!EmptyEntries,
       FS!inode_create, FSP!inode_create

-----------------------------------------------------------------------------
(* The calls of the file system                                            *)

Paths == Boxes \cup Range(Meta)

FsInv == FSP!TypeOK /\ FSP!DirConsistent

LEMMA FsInitially == FS!Init => FsInv
BY SameInit, NamesFit, TablesFit, InputsFit, FSP!InitTypes, FSP!InitDirectory DEF FsInv

LEMMA FsUnchanged == FsInv /\ UNCHANGED fsVars => FsInv'
BY DEF FsInv, fsVars, FSP!TypeOK, FSP!DirConsistent, FSP!UsedEntries, FSP!EmptyEntries

LEMMA OpenCall ==
    ASSUME FsInv, NEW name \in Paths, NEW mode \in FSP!Modes, FS!tfs_open(name, mode)
    PROVE  /\ FsInv'
           /\ \/ returned'.value = -1 /\ handlesTaken' = handlesTaken
              \/ \E h \in FS!Handles \ handlesTaken :
                    returned'.value = h /\ handlesTaken' = handlesTaken \cup {h}
           /\ \A n \in Paths : Exists(n)' => Exists(n) \/ (n = name /\ "CREAT" \in mode)
<1>1. FSP!tfs_open(name, mode) /\ name \in FSP!Paths
    BY SameOpen DEF Paths, FSP!Paths
<1>2. FsInv'
    BY <1>1, NamesFit, TablesFit, InputsFit, FSP!OpenTypes, FSP!OpenKeepsDirectory DEF FsInv
<1>3. \/ returned'.value = -1 /\ handlesTaken' = handlesTaken
      \/ \E h \in FS!Handles \ handlesTaken :
            returned'.value = h /\ handlesTaken' = handlesTaken \cup {h}
    BY <1>1, NamesFit, TablesFit, InputsFit, FSP!OpenTakesHandle
       DEF FsInv, FSP!FreeHandles, FSP!Handles, FS!Handles
<1>4. ASSUME NEW n \in Paths, Exists(n)' PROVE Exists(n) \/ (n = name /\ "CREAT" \in mode)
    <2>1. n \in FSP!Paths /\ FSP!find_in_dir(n)' # -1
        BY <1>4, SameFind DEF Exists, Paths, FSP!Paths
    <2>2. FSP!find_in_dir(n) # -1 \/ (n = name /\ "CREAT" \in mode)
        BY <1>1, <1>2, <2>1, NamesFit, TablesFit, InputsFit, FSP!OpenAppears DEF FsInv
    <2> QED
        BY <2>2, SameFind DEF Exists
<1> QED
    BY <1>2, <1>3, <1>4

LEMMA CloseCall ==
    ASSUME FsInv, NEW h, FS!tfs_close(h)
    PROVE  /\ FsInv'
           /\ handlesTaken' = handlesTaken \ {h}
           /\ \A n \in Paths : Exists(n)' <=> Exists(n)
<1>1. FSP!tfs_close(h)
    BY SameClose
<1>2. handlesTaken' = handlesTaken \ {h} /\ UNCHANGED <<dName, dInumber>>
    BY <1>1, NamesFit, TablesFit, InputsFit, FSP!CloseGivesHandle
<1>3. FSP!TypeOK'
    BY <1>1, NamesFit, TablesFit, InputsFit, FSP!CloseTypes DEF FsInv
<1>4. FSP!DirConsistent'
    BY <1>1, <1>2 DEF FsInv, FSP!DirConsistent, FSP!UsedEntries, FSP!EmptyEntries,
        FSP!tfs_close, FSP!BadHandle, FSP!inodeVars
<1>5. \A n \in Paths : Exists(n)' <=> Exists(n)
    BY <1>2 DEF Exists, FS!find_in_dir
<1> QED
    BY <1>2, <1>3, <1>4, <1>5 DEF FsInv

LEMMA UnlinkCall ==
    ASSUME FsInv, NEW name \in Paths, FS!tfs_unlink(name)
    PROVE  /\ FsInv'
           /\ handlesTaken' = handlesTaken
           /\ \A n \in Paths : Exists(n)' => Exists(n) /\ n # name
<1>1. FSP!tfs_unlink(name) /\ name \in FSP!Paths
    BY SameUnlink DEF Paths, FSP!Paths
<1>2. FsInv'
    BY <1>1, NamesFit, TablesFit, InputsFit, FSP!UnlinkTypes, FSP!UnlinkKeepsDirectory DEF FsInv
<1>3. handlesTaken' = handlesTaken
    BY <1>1 DEF FSP!tfs_unlink, FSP!handleVars
<1>4. ASSUME NEW n \in Paths, Exists(n)' PROVE Exists(n) /\ n # name
    <2>1. n \in FSP!Paths /\ FSP!find_in_dir(n)' # -1
        BY <1>4, SameFind DEF Exists, Paths, FSP!Paths
    <2>2. FSP!find_in_dir(n) # -1 /\ n # name
        BY <1>1, <1>2, <2>1, NamesFit, TablesFit, InputsFit, FSP!UnlinkDisappears DEF FsInv
    <2> QED
        BY <2>2, SameFind DEF Exists
<1> QED
    BY <1>2, <1>3, <1>4

-----------------------------------------------------------------------------
(* Types                                                                   *)

\* What tfs_open answers.
Results == FS!Handles \cup {-1}

LEMMA WorkerBusy ==
    ASSUME TypeOK, NEW w \in Workers, pc[w] # "idle"
    PROVE  BoxOf(w) \in Paths /\ MetaOf(w) \in Paths
<1>1. request[w] \in Requests
    BY DEF TypeOK
<1>2. BoxOf(w) \in Boxes
    BY <1>1 DEF Requests, BoxOf
<1> QED
    BY <1>2, MetaAssumption DEF MetaOf, Paths, Range

\* Every step of a worker, as a call of the file system or none.
FsCall ==
    \/ UNCHANGED fsVars
    \/ \E name \in Paths, mode \in FSP!Modes : FS!tfs_open(name, mode)
    \/ \E h \in Results : FS!tfs_close(h)
    \/ \E name \in Paths : FS!tfs_unlink(name)

LEMMA CallsKeepFsInv ==
    ASSUME FsInv, FsCall
    PROVE  FsInv'
BY FsUnchanged, OpenCall, CloseCall, UnlinkCall DEF FsCall

LEMMA StepsAreCalls ==
    ASSUME TypeOK, [Next]_vars
    PROVE  FsCall
<1>1. CASE UNCHANGED vars \/ Exited
    BY <1>1 DEF FsCall, vars, Exited
<1>2. ASSUME NEW w \in Workers, pc[w] # "idle", Steps(w)
      PROVE  FsCall
    <2>1. BoxOf(w) \in Paths /\ MetaOf(w) \in Paths
        BY <1>2, WorkerBusy
    <2>2. {} \in FSP!Modes /\ {"APPEND"} \in FSP!Modes /\ {"CREAT"} \in FSP!Modes
          /\ {"CREAT", "TRUNC"} \in FSP!Modes
        BY DEF FSP!Modes
    <2>3. fd[w] \in Results /\ metaFd[w] \in Results
        BY DEF TypeOK, Results
    <2>4. CASE RegisterPublisher(w)
        BY <2>1, <2>2, <2>3, <2>4
           DEF RegisterPublisher, FsCall, PubOpenBox, PubOpenMeta, RejectCloseBox, RejectCloseMeta,
               RejectUnlinkMeta, RejectUnlock, PubCreateMeta, PubCloseMeta, Unlock, PubCloseBox,
               PubUnlinkMeta
    <2>5. CASE CreateBox(w)
        BY <2>1, <2>2, <2>3, <2>5
           DEF CreateBox, FsCall, CreateCheck, CreateRefuse, CreateNew, Unlock, CreateSend
    <2>6. CASE RemoveBox(w)
        BY <2>1, <2>6 DEF RemoveBox, FsCall, RemoveUnlink, Unlock
    <2>7. CASE Return(w, "return")
        BY <2>7 DEF Return, FsCall
    <2> QED
        BY <1>2, <2>4, <2>5, <2>6, <2>7 DEF Steps
<1>3. ASSUME NEW w \in Workers, Steps(w) PROVE pc[w] # "idle"
    BY <1>3 DEF Steps, RegisterPublisher, PubOpenBox, PubOpenMeta, RejectCloseBox, RejectCloseMeta,
               RejectUnlinkMeta, RejectUnlock, PubCreateMeta, PubCloseMeta, Unlock, PubCloseBox,
               PubUnlinkMeta, CreateBox, CreateCheck, CreateRefuse, CreateNew, CreateSend,
               RemoveBox, RemoveUnlink, Return, At
<1>4. ASSUME NEW w \in Workers, (\E r \in Requests : Receive(w, r)) \/ Pipes(w) \/ Locks(w)
      PROVE  FsCall
    BY <1>4 DEF Receive, Pipes, OpenPipe, Locks, Lock, FsCall
<1> QED
    BY <1>1, <1>2, <1>3, <1>4 DEF Next

LEMMA InitTypes == Init => TypeOK
BY RequestAssumption DEF Init, TypeOK, Labels

LEMMA LockTypes ==
    ASSUME TypeOK, NEW w \in Workers, Locks(w) \/ Pipes(w) \/ (\E r \in Requests : Receive(w, r))
    PROVE  TypeOK'
<1>1. CASE Locks(w)
    BY <1>1 DEF Locks, Lock, TypeOK, At, Goto, Labels
<1>2. CASE Pipes(w)
    BY <1>2 DEF Pipes, OpenPipe, TypeOK, At, Goto, Labels
<1>3. ASSUME NEW r \in Requests, Receive(w, r) PROVE TypeOK'
    <2>1. r.kind \in Kinds /\ r # NoRequest
        BY RequestAssumption DEF Requests
    <2> DEFINE l == CASE r.kind = "register_publisher" -> "pub_pipe"
                      [] r.kind = "create_box" -> "create_pipe"
                      [] r.kind = "remove_box" -> "remove_lock"
    <2>2. l \in {"pub_pipe", "create_pipe", "remove_lock"}
        BY <2>1 DEF Kinds
    <2>3. /\ pc[w] = "idle" /\ pc' = [pc EXCEPT ![w] = l]
          /\ request' = [request EXCEPT ![w] = r]
          /\ answer' = [answer EXCEPT ![w] = "none"]
          /\ UNCHANGED <<fd, metaFd, tfs_ops, failed>>
        BY <1>3 DEF Receive, At, Goto
    <2> HIDE DEF l
    <2> QED
        BY <2>1, <2>2, <2>3 DEF TypeOK, Labels
<1> QED
    BY <1>1, <1>2, <1>3

LEMMA PublisherTypes ==
    ASSUME TypeOK, FsInv, NEW w \in Workers, RegisterPublisher(w)
    PROVE  TypeOK'
<1>1. CASE PubOpenBox(w) \/ PubOpenMeta(w) \/ PubCreateMeta(w)
    <2>1. pc[w] # "idle"
        BY <1>1 DEF PubOpenBox, PubOpenMeta, PubCreateMeta, At
    <2>2. /\ BoxOf(w) \in Paths /\ MetaOf(w) \in Paths
          /\ {} \in FSP!Modes /\ {"APPEND"} \in FSP!Modes /\ {"CREAT"} \in FSP!Modes
        BY <2>1, WorkerBusy DEF FSP!Modes
    <2>3. returned'.value \in Results
        BY <1>1, <2>2, OpenCall DEF PubOpenBox, PubOpenMeta, PubCreateMeta, Results
    <2>4. CASE PubOpenBox(w)
        BY <2>3, <2>4 DEF PubOpenBox, TypeOK, At, Goto, Labels, Results
    <2>5. CASE PubOpenMeta(w)
        BY <2>3, <2>5 DEF PubOpenMeta, TypeOK, At, Goto, Labels, Results
    <2>6. CASE PubCreateMeta(w)
        BY <2>3, <2>6 DEF PubCreateMeta, Require, TypeOK, At, Goto, Labels, Results
    <2> QED
        BY <1>1, <2>4, <2>5, <2>6
<1>2. CASE RejectCloseBox(w)
    BY <1>2 DEF RejectCloseBox, TypeOK, At, Goto, Labels
<1>3. CASE RejectCloseMeta(w)
    BY <1>3 DEF RejectCloseMeta, TypeOK, At, Goto, Labels
<1>4. CASE RejectUnlinkMeta(w)
    BY <1>4 DEF RejectUnlinkMeta, TypeOK, At, Goto, Labels
<1>5. CASE RejectUnlock(w) \/ Unlock(w, "pub_unlock", "pub_end")
    BY <1>5 DEF RejectUnlock, Unlock, TypeOK, At, Goto, Labels
<1>6. CASE PubCloseMeta(w)
    BY <1>6 DEF PubCloseMeta, Require, TypeOK, At, Goto, Labels
<1>7. CASE PubCloseBox(w)
    BY <1>7 DEF PubCloseBox, TypeOK, At, Goto, Labels
<1>8. CASE PubUnlinkMeta(w)
    BY <1>8 DEF PubUnlinkMeta, Require, TypeOK, At, Goto, Labels
<1> QED
    BY <1>1, <1>2, <1>3, <1>4, <1>5, <1>6, <1>7, <1>8 DEF RegisterPublisher

LEMMA CreateTypes ==
    ASSUME TypeOK, FsInv, NEW w \in Workers, CreateBox(w)
    PROVE  TypeOK'
<1>1. CASE CreateCheck(w)
    <2>1. BoxOf(w) \in Paths /\ {} \in FSP!Modes
        BY <1>1, WorkerBusy DEF CreateCheck, At, FSP!Modes
    <2>2. returned'.value \in Results
        BY <1>1, <2>1, OpenCall DEF CreateCheck, Results
    <2> QED
        BY <1>1, <2>2 DEF CreateCheck, TypeOK, At, Goto, Labels, Results
<1>2. CASE CreateRefuse(w)
    BY <1>2 DEF CreateRefuse, TypeOK, At, Goto, Labels
<1>3. CASE CreateNew(w)
    BY <1>3 DEF CreateNew, TypeOK, At, Goto, Labels
<1>4. CASE Unlock(w, "create_unlock", "create_send")
    BY <1>4 DEF Unlock, TypeOK, At, Goto, Labels
<1>5. CASE CreateSend(w)
    BY <1>5 DEF CreateSend, TypeOK, At, Goto, Labels
<1> QED
    BY <1>1, <1>2, <1>3, <1>4, <1>5 DEF CreateBox

LEMMA RemoveTypes ==
    ASSUME TypeOK, NEW w \in Workers, RemoveBox(w) \/ Return(w, "return")
    PROVE  TypeOK'
<1>1. CASE RemoveUnlink(w)
    BY <1>1 DEF RemoveUnlink, Require, TypeOK, At, Goto, Labels
<1>2. CASE Unlock(w, "remove_unlock", "return")
    BY <1>2 DEF Unlock, TypeOK, At, Goto, Labels
<1>3. CASE Return(w, "return")
    BY <1>3, RequestAssumption DEF Return, TypeOK, At, Goto, Labels
<1> QED
    BY <1>1, <1>2, <1>3 DEF RemoveBox

\* The type invariant, with the lines at which a worker may have a meta-file
\* open; and the file system below it stays well-formed.
THEOREM TypeCorrect == Spec => []TypeOK /\ []FsInv
<1>1. Init => TypeOK /\ FsInv
    BY InitTypes, FsInitially DEF Init
<1>2. TypeOK /\ FsInv /\ [Next]_vars => TypeOK' /\ FsInv'
    <2> SUFFICES ASSUME TypeOK, FsInv, [Next]_vars PROVE TypeOK' /\ FsInv'
        OBVIOUS
    <2>1. FsInv'
        BY StepsAreCalls, CallsKeepFsInv
    <2>2. ASSUME NEW w \in Workers, Steps(w) PROVE TypeOK'
        BY <2>2, PublisherTypes, CreateTypes, RemoveTypes DEF Steps
    <2>3. ASSUME UNCHANGED vars PROVE TypeOK'
        BY <2>3 DEF vars, TypeOK
    <2>4. TypeOK'
        BY <2>2, <2>3, LockTypes DEF Next, Exited
    <2> QED
        BY <2>1, <2>4
<1> QED
    BY <1>1, <1>2, PTL DEF Spec

-----------------------------------------------------------------------------
(* The mutex                                                               *)

\* A step that goes to the label l, and what it may do to the mutex.
LEMMA MoveKeepsDiscipline ==
    ASSUME TypeOK, TfsOpsDiscipline, NEW w \in Workers, NEW l,
           pc' = [pc EXCEPT ![w] = l],
           \/ (pc[w] \in Critical <=> l \in Critical) /\ UNCHANGED tfs_ops
           \/ l \in Critical /\ tfs_ops = Nobody /\ tfs_ops' = w
           \/ pc[w] \in Critical /\ l \notin Critical /\ tfs_ops' = Nobody
    PROVE  TfsOpsDiscipline'
<1>1. pc'[w] = l /\ \A u \in Workers : u # w => pc'[u] = pc[u]
    BY DEF TypeOK
<1>2. \A u \in Workers : u # Nobody
    BY WorkersAssumption
<1>3. \A u \in Workers : tfs_ops = u <=> pc[u] \in Critical
    BY DEF TfsOpsDiscipline
<1>4. CASE (pc[w] \in Critical <=> l \in Critical) /\ UNCHANGED tfs_ops
    BY <1>1, <1>3, <1>4 DEF TfsOpsDiscipline
<1>5. CASE l \in Critical /\ tfs_ops = Nobody /\ tfs_ops' = w
    BY <1>1, <1>2, <1>3, <1>5 DEF TfsOpsDiscipline
<1>6. CASE pc[w] \in Critical /\ l \notin Critical /\ tfs_ops' = Nobody
    BY <1>1, <1>2, <1>3, <1>6 DEF TfsOpsDiscipline
<1> QED
    BY <1>4, <1>5, <1>6

LEMMA StayKeepsDiscipline ==
    ASSUME TfsOpsDiscipline, UNCHANGED <<pc, tfs_ops>>
    PROVE  TfsOpsDiscipline'
BY DEF TfsOpsDiscipline

LEMMA StepsKeepDiscipline ==
    ASSUME TypeOK, TfsOpsDiscipline, NEW w \in Workers,
           Locks(w) \/ Pipes(w) \/ Steps(w) \/ (\E r \in Requests : Receive(w, r))
    PROVE  TfsOpsDiscipline'
<1>1. ASSUME NEW from \in Labels, NEW l \in Labels,
             pc[w] = from, Goto(w, l),
             (from \in Critical <=> l \in Critical) /\ UNCHANGED tfs_ops
      PROVE  TfsOpsDiscipline'
    BY <1>1, MoveKeepsDiscipline DEF Goto
<1>2. ASSUME NEW from \in Labels \ Critical, NEW l \in Critical, Lock(w, from, l)
      PROVE  TfsOpsDiscipline'
    BY <1>2, MoveKeepsDiscipline DEF Lock, Goto
<1>3. ASSUME NEW from \in Critical, NEW l \in Labels \ Critical, Unlock(w, from, l)
      PROVE  TfsOpsDiscipline'
    BY <1>3, MoveKeepsDiscipline DEF Unlock, At, Goto
<1>4. ASSUME UNCHANGED <<pc, tfs_ops>>
      PROVE  TfsOpsDiscipline'
    BY <1>4, StayKeepsDiscipline
<1>5. CASE Locks(w)
    BY <1>2, <1>5 DEF Locks, Labels, Critical
<1>6. CASE Pipes(w)
    BY <1>1, <1>4, <1>6 DEF Pipes, OpenPipe, At, Labels, Critical
<1>7. ASSUME NEW r \in Requests, Receive(w, r)
      PROVE  TfsOpsDiscipline'
    <2>1. r.kind \in Kinds
        BY DEF Requests
    <2> DEFINE l == CASE r.kind = "register_publisher" -> "pub_pipe"
                      [] r.kind = "create_box" -> "create_pipe"
                      [] r.kind = "remove_box" -> "remove_lock"
    <2>2. l \in {"pub_pipe", "create_pipe", "remove_lock"}
        BY <2>1 DEF Kinds
    <2>3. pc[w] = "idle" /\ Goto(w, l) /\ UNCHANGED tfs_ops
        BY <1>7 DEF Receive, At
    <2> HIDE DEF l
    <2> QED
        BY <1>1, <2>2, <2>3 DEF Labels, Critical
<1>8. CASE RegisterPublisher(w)
    <2>1. CASE RejectUnlock(w) \/ Unlock(w, "pub_unlock", "pub_end")
        BY <1>3, <2>1 DEF RejectUnlock, Labels, Critical
    <2>2. CASE PubOpenBox(w) \/ PubOpenMeta(w)
        BY <1>1, <2>2 DEF PubOpenBox, PubOpenMeta, At, Labels, Critical
    <2>3. CASE RejectCloseBox(w) \/ RejectCloseMeta(w) \/ RejectUnlinkMeta(w)
        BY <1>1, <2>3 DEF RejectCloseBox, RejectCloseMeta, RejectUnlinkMeta, At, Labels, Critical
    <2>4. CASE PubCreateMeta(w) \/ PubCloseMeta(w)
        BY <1>1, <1>4, <2>4 DEF PubCreateMeta, PubCloseMeta, Require, At, Labels, Critical
    <2>5. CASE PubCloseBox(w) \/ PubUnlinkMeta(w)
        BY <1>1, <1>4, <2>5 DEF PubCloseBox, PubUnlinkMeta, Require, At, Labels, Critical
    <2> QED
        BY <1>8, <2>1, <2>2, <2>3, <2>4, <2>5 DEF RegisterPublisher
<1>9. CASE CreateBox(w)
    <2>1. CASE Unlock(w, "create_unlock", "create_send")
        BY <1>3, <2>1 DEF Labels, Critical
    <2>2. CASE CreateCheck(w) \/ CreateRefuse(w) \/ CreateNew(w) \/ CreateSend(w)
        BY <1>1, <1>4, <2>2
           DEF CreateCheck, CreateRefuse, CreateNew, CreateSend, At, Labels, Critical
    <2> QED
        BY <1>9, <2>1, <2>2 DEF CreateBox
<1>10. CASE RemoveBox(w)
    BY <1>1, <1>3, <1>4, <1>10 DEF RemoveBox, RemoveUnlink, Require, At, Labels, Critical
<1>11. CASE Return(w, "return")
    BY <1>1, <1>11 DEF Return, At, Labels, Critical
<1> QED
    BY <1>5, <1>6, <1>7, <1>8, <1>9, <1>10, <1>11 DEF Steps

\* The mutex tfs_ops is held exactly inside the critical sections: every path
\* through a handler that locks it unlocks it, the rejections included, and a
\* worker that asks for it never has it already.
THEOREM TfsOpsHeld == Spec => []TfsOpsDiscipline
<1>1. Init => TfsOpsDiscipline
    BY WorkersAssumption DEF Init, TfsOpsDiscipline, Critical
<1>2. TypeOK /\ TfsOpsDiscipline /\ [Next]_vars => TfsOpsDiscipline'
    <2> SUFFICES ASSUME TypeOK, TfsOpsDiscipline, [Next]_vars PROVE TfsOpsDiscipline'
        OBVIOUS
    <2>1. CASE UNCHANGED vars \/ Exited
        BY <2>1 DEF vars, Exited, TfsOpsDiscipline
    <2> QED
        BY <2>1, StepsKeepDiscipline DEF Next
<1> QED
    BY <1>1, <1>2, TypeCorrect, PTL DEF Spec

-----------------------------------------------------------------------------
(* The handles                                                             *)

\* A handle that is opened was free, so nobody holds it.
LEMMA OpenKeepsHeld ==
    ASSUME TypeOK, HeldHandlesOpen, failed = "no", NEW w \in Workers,
           NEW name \in Paths, NEW mode \in FSP!Modes, FsInv, FS!tfs_open(name, mode),
           \/ /\ fd' = [fd EXCEPT ![w] = returned'.value]
              /\ UNCHANGED metaFd
           \/ /\ metaFd' = [metaFd EXCEPT ![w] = returned'.value]
              /\ UNCHANGED fd
           \/ UNCHANGED <<fd, metaFd>>
    PROVE  HeldHandlesOpen'
<1>1. \/ returned'.value = -1 /\ handlesTaken' = handlesTaken
      \/ \E h \in FS!Handles \ handlesTaken :
            returned'.value = h /\ handlesTaken' = handlesTaken \cup {h}
    BY OpenCall
<1> DEFINE r == returned'.value
<1> HIDE DEF r
<1>2. /\ handlesTaken \subseteq handlesTaken'
      /\ r # -1 => r \in handlesTaken' /\ r \notin handlesTaken
    BY <1>1 DEF r
<1>3. \A u \in Workers : Held(u) \subseteq handlesTaken
    BY DEF HeldHandlesOpen
<1>4. ASSUME NEW u \in Workers, u # w PROVE fd'[u] = fd[u] /\ metaFd'[u] = metaFd[u]
    BY <1>4 DEF TypeOK
<1>5. \/ fd'[w] = r /\ metaFd'[w] = metaFd[w]
      \/ fd'[w] = fd[w] /\ metaFd'[w] = r
      \/ fd'[w] = fd[w] /\ metaFd'[w] = metaFd[w]
    BY DEF TypeOK, r
<1>6. \A u \in Workers : u # w => Held(u)' = Held(u)
    BY <1>4 DEF Held
<1>7. Held(w)' \subseteq Held(w) \cup ({r} \ {-1})
    BY <1>5 DEF Held
<1>8. ASSUME NEW u \in Workers
      PROVE  /\ Held(u)' \subseteq handlesTaken'
             /\ fd'[u] = metaFd'[u] => fd'[u] = -1
             /\ \A v \in Workers \ {u} : Held(u)' \cap Held(v)' = {}
    <2>1. Held(u)' \subseteq handlesTaken'
        BY <1>2, <1>3, <1>6, <1>7
    <2>2. fd'[u] = metaFd'[u] => fd'[u] = -1
        <3>1. fd[u] # -1 => fd[u] \in handlesTaken
            BY <1>3 DEF Held
        <3>2. metaFd[u] # -1 => metaFd[u] \in handlesTaken
            BY <1>3 DEF Held
        <3>3. fd[u] = metaFd[u] => fd[u] = -1
            BY DEF HeldHandlesOpen
        <3> QED
            BY <1>2, <1>4, <1>5, <3>1, <3>2, <3>3
    <2>3. ASSUME NEW v \in Workers \ {u} PROVE Held(u)' \cap Held(v)' = {}
        <3>1. Held(u) \cap Held(v) = {}
            BY DEF HeldHandlesOpen
        <3> QED
            BY <1>2, <1>3, <1>6, <1>7, <3>1
    <2> QED
        BY <2>1, <2>2, <2>3
<1> QED
    BY <1>8 DEF HeldHandlesOpen

\* Closing one's own handle leaves the others' open, and -1 is nobody's.
LEMMA CloseKeepsHeld ==
    ASSUME TypeOK, HeldHandlesOpen, failed = "no", NEW w \in Workers, NEW h,
           FsInv, FS!tfs_close(h),
           \/ h = fd[w] /\ fd' = [fd EXCEPT ![w] = -1] /\ UNCHANGED metaFd
           \/ h = metaFd[w] /\ metaFd' = [metaFd EXCEPT ![w] = -1] /\ UNCHANGED fd
    PROVE  HeldHandlesOpen'
<1>1. handlesTaken' = handlesTaken \ {h}
    BY CloseCall
<1>2. \A u \in Workers : Held(u) \subseteq handlesTaken
    BY DEF HeldHandlesOpen
<1>3. ASSUME NEW u \in Workers, u # w PROVE fd'[u] = fd[u] /\ metaFd'[u] = metaFd[u]
    BY <1>3 DEF TypeOK
<1>4. \/ h = fd[w] /\ fd'[w] = -1 /\ metaFd'[w] = metaFd[w]
      \/ h = metaFd[w] /\ metaFd'[w] = -1 /\ fd'[w] = fd[w]
    BY DEF TypeOK
<1>5. fd[w] = metaFd[w] => fd[w] = -1
    BY DEF HeldHandlesOpen
<1>6. Held(w)' \subseteq Held(w) \ {h}
    BY <1>4, <1>5 DEF Held
<1>7. \A u \in Workers : u # w => Held(u)' = Held(u)
    BY <1>3 DEF Held
<1>8. \A u \in Workers : u # w => h \notin Held(u)
    <2>1. h = -1 \/ h \in Held(w)
        BY <1>4 DEF Held
    <2>2. \A u \in Workers : -1 \notin Held(u)
        BY DEF Held
    <2>3. \A u \in Workers \ {w} : Held(w) \cap Held(u) = {}
        BY DEF HeldHandlesOpen
    <2> QED
        BY <2>1, <2>2, <2>3
<1>9. ASSUME NEW u \in Workers
      PROVE  /\ Held(u)' \subseteq handlesTaken'
             /\ fd'[u] = metaFd'[u] => fd'[u] = -1
             /\ \A v \in Workers \ {u} : Held(u)' \cap Held(v)' = {}
    <2>1. Held(u)' \subseteq handlesTaken'
        BY <1>1, <1>2, <1>6, <1>7, <1>8
    <2>2. fd'[u] = metaFd'[u] => fd'[u] = -1
        BY <1>3, <1>4 DEF HeldHandlesOpen
    <2>3. ASSUME NEW v \in Workers \ {u} PROVE Held(u)' \cap Held(v)' = {}
        <3>1. Held(u) \cap Held(v) = {}
            BY DEF HeldHandlesOpen
        <3> QED
            BY <1>6, <1>7, <3>1
    <2> QED
        BY <2>1, <2>2, <2>3
<1> QED
    BY <1>9 DEF HeldHandlesOpen

LEMMA StepsKeepHeld ==
    ASSUME TypeOK, FsInv, HeldHandlesOpen, NEW w \in Workers,
           Locks(w) \/ Pipes(w) \/ Steps(w) \/ (\E r \in Requests : Receive(w, r))
    PROVE  HeldHandlesOpen'
<1>1. ASSUME UNCHANGED <<fd, metaFd, handlesTaken>>, failed = "no" PROVE HeldHandlesOpen'
    BY <1>1 DEF HeldHandlesOpen, Held
<1>2. ASSUME failed' # "no" PROVE HeldHandlesOpen'
    BY <1>2 DEF HeldHandlesOpen
<1>3. CASE Locks(w)
    BY <1>1, <1>3 DEF Locks, Lock, At, fsVars
<1>4. CASE Pipes(w)
    BY <1>1, <1>4 DEF Pipes, OpenPipe, At, fsVars
<1>5. CASE \E r \in Requests : Receive(w, r)
    BY <1>1, <1>5 DEF Receive, At, fsVars
<1>6. ASSUME NEW from, NEW l, Unlock(w, from, l) PROVE HeldHandlesOpen'
    BY <1>1, <1>6 DEF Unlock, At, fsVars
<1>7. {} \in FSP!Modes /\ {"APPEND"} \in FSP!Modes /\ {"CREAT"} \in FSP!Modes
      /\ {"CREAT", "TRUNC"} \in FSP!Modes
    BY DEF FSP!Modes
<1>8. pc[w] # "idle" => BoxOf(w) \in Paths /\ MetaOf(w) \in Paths
    BY WorkerBusy
<1>9. CASE RegisterPublisher(w)
    <2>1. CASE PubOpenBox(w) \/ PubOpenMeta(w) \/ PubCreateMeta(w)
        BY <1>7, <1>8, <2>1, OpenKeepsHeld DEF PubOpenBox, PubOpenMeta, PubCreateMeta, At
    <2>2. CASE RejectCloseBox(w) \/ RejectCloseMeta(w) \/ PubCloseMeta(w) \/ PubCloseBox(w)
        BY <2>2, CloseKeepsHeld DEF RejectCloseBox, RejectCloseMeta, PubCloseMeta, PubCloseBox, At
    <2>3. CASE RejectUnlinkMeta(w) \/ PubUnlinkMeta(w)
        BY <1>1, <1>8, <2>3, UnlinkCall DEF RejectUnlinkMeta, PubUnlinkMeta, At
    <2> QED
        BY <1>6, <1>9, <2>1, <2>2, <2>3 DEF RegisterPublisher, RejectUnlock
<1>10. CASE CreateBox(w)
    <2>1. CASE CreateCheck(w) \/ CreateNew(w)
        BY <1>7, <1>8, <2>1, OpenKeepsHeld DEF CreateCheck, CreateNew, At
    <2>2. CASE CreateRefuse(w)
        BY <2>2, CloseKeepsHeld DEF CreateRefuse, At
    <2>3. CASE CreateSend(w)
        BY <1>1, <2>3 DEF CreateSend, At, fsVars
    <2> QED
        BY <1>6, <1>10, <2>1, <2>2, <2>3 DEF CreateBox
<1>11. CASE RemoveBox(w)
    <2>1. CASE RemoveUnlink(w)
        BY <1>1, <1>8, <2>1, UnlinkCall DEF RemoveUnlink, At
    <2> QED
        BY <1>6, <1>11, <2>1 DEF RemoveBox
<1>12. CASE Return(w, "return")
    <2>1. /\ failed = "no" /\ UNCHANGED handlesTaken
          /\ fd' = [fd EXCEPT ![w] = -1] /\ metaFd' = [metaFd EXCEPT ![w] = -1]
        BY <1>12 DEF Return, At, fsVars
    <2>2. \A u \in Workers : \/ fd'[u] = fd[u] /\ metaFd'[u] = metaFd[u]
                             \/ fd'[u] = -1 /\ metaFd'[u] = -1
        BY <2>1 DEF TypeOK
    <2> QED
        BY <2>1, <2>2 DEF HeldHandlesOpen, Held
<1> QED
    BY <1>3, <1>4, <1>5, <1>9, <1>10, <1>11, <1>12 DEF Steps

\* No request closes the handle of another: until the process ends, what a
\* handler has opened and not closed is open, its own and held once.
THEOREM HandlesKept == Spec => []HeldHandlesOpen
<1>1. Init => HeldHandlesOpen
    BY DEF Init, HeldHandlesOpen, Held
<1>2. TypeOK /\ FsInv /\ HeldHandlesOpen /\ [Next]_vars => HeldHandlesOpen'
    <2> SUFFICES ASSUME TypeOK, FsInv, HeldHandlesOpen, [Next]_vars PROVE HeldHandlesOpen'
        OBVIOUS
    <2>1. CASE UNCHANGED vars \/ Exited
        BY <2>1 DEF vars, fsVars, Exited, HeldHandlesOpen, Held
    <2> QED
        BY <2>1, StepsKeepHeld DEF Next
<1> QED
    BY <1>1, <1>2, TypeCorrect, PTL DEF Spec

-----------------------------------------------------------------------------
(* The meta-files                                                          *)

\* No box is called like a meta-file, and no two boxes share one.  ("/a" and
\* "/a.pub" do not meet this, and TLC shows what happens then.)
MetaDistinct == \A b, c \in Boxes : Meta[b] # c /\ (b # c => Meta[b] # Meta[c])

\* A step that creates no meta-file and ends no registration, except where it
\* deletes the meta-file too.
LEMMA RegistrationsStay ==
    ASSUME MetaFileHasPublisher, failed = "no",
           \A b \in Boxes : Exists(Meta[b])' =>
                /\ Exists(Meta[b])
                /\ \A u \in Workers : Registered(u) /\ BoxOf(u) = b =>
                        Registered(u)' /\ BoxOf(u)' = b
    PROVE  MetaFileHasPublisher'
BY DEF MetaFileHasPublisher

\* A worker goes on from one label to another.
LEMMA MoveKeepsRegistered ==
    ASSUME TypeOK, MetaFileHasPublisher, failed = "no", NEW w \in Workers, NEW l,
           \A b \in Boxes : Exists(Meta[b])' => Exists(Meta[b]),
           pc' = [pc EXCEPT ![w] = l],
           \/ UNCHANGED request /\ Registered(w)
              /\ l \in {"pub_close_meta", "pub_unlock", "pub_end", "pub_unlink"}
           \/ ~Registered(w) /\ \A u \in Workers : u # w => request'[u] = request[u]
    PROVE  MetaFileHasPublisher'
<1>1. pc'[w] = l /\ \A u \in Workers : u # w => pc'[u] = pc[u]
    BY DEF TypeOK
<1>2. ASSUME NEW u \in Workers, Registered(u)
      PROVE  Registered(u)' /\ BoxOf(u)' = BoxOf(u)
    BY <1>1, <1>2 DEF Registered, BoxOf
<1> QED
    BY <1>2, RegistrationsStay

LEMMA StepsKeepPublishers ==
    ASSUME MetaDistinct, TypeOK, FsInv, MetaFileHasPublisher, NEW w \in Workers,
           Locks(w) \/ Pipes(w) \/ Steps(w) \/ (\E r \in Requests : Receive(w, r))
    PROVE  MetaFileHasPublisher'
<1>1. failed = "no"
    BY DEF Locks, Lock, Pipes, OpenPipe, Receive, At, Steps, RegisterPublisher, PubOpenBox,
           PubOpenMeta, RejectCloseBox, RejectCloseMeta, RejectUnlinkMeta, RejectUnlock,
           PubCreateMeta, PubCloseMeta, Unlock, PubCloseBox, PubUnlinkMeta,
           CreateBox, CreateCheck, CreateRefuse, CreateNew, CreateSend,
           RemoveBox, RemoveUnlink, Return
<1>2. ASSUME failed' # "no" PROVE MetaFileHasPublisher'
    BY <1>2 DEF MetaFileHasPublisher
<1>3. \A b \in Boxes : Meta[b] \in Paths
    BY MetaAssumption DEF Paths, Range
<1>4. ASSUME UNCHANGED fsVars PROVE \A b \in Boxes : Exists(Meta[b])' => Exists(Meta[b])
    BY <1>4 DEF fsVars, Exists, FS!find_in_dir
<1>5. ASSUME NEW name \in Paths, NEW mode \in FSP!Modes, FS!tfs_open(name, mode),
             "CREAT" \notin mode \/ name \in Boxes
      PROVE  \A b \in Boxes : Exists(Meta[b])' => Exists(Meta[b])
    BY <1>3, <1>5, OpenCall DEF MetaDistinct
<1>6. ASSUME NEW h, FS!tfs_close(h)
      PROVE  \A b \in Boxes : Exists(Meta[b])' => Exists(Meta[b])
    BY <1>3, <1>6, CloseCall
<1>7. ASSUME NEW name \in Paths, FS!tfs_unlink(name)
      PROVE  \A b \in Boxes : Exists(Meta[b])' => Exists(Meta[b]) /\ Meta[b] # name
    BY <1>3, <1>7, UnlinkCall
<1>8. pc[w] # "idle" => BoxOf(w) \in Boxes /\ BoxOf(w) \in Paths /\ MetaOf(w) \in Paths
    <2>1. pc[w] # "idle" => request[w] \in Requests
        BY DEF TypeOK
    <2> QED
        BY <2>1, WorkerBusy DEF Requests, BoxOf
<1>9. {} \in FSP!Modes /\ {"APPEND"} \in FSP!Modes /\ {"CREAT"} \in FSP!Modes
      /\ {"CREAT", "TRUNC"} \in FSP!Modes
    BY DEF FSP!Modes
<1>10. CASE Locks(w)
    BY <1>1, <1>4, <1>10, MoveKeepsRegistered DEF Locks, Lock, At, Goto, Registered
<1>11. CASE Pipes(w)
    BY <1>1, <1>2, <1>4, <1>11, MoveKeepsRegistered DEF Pipes, OpenPipe, At, Goto, Registered
<1>12. ASSUME NEW r \in Requests, Receive(w, r)
       PROVE  MetaFileHasPublisher'
    <2> DEFINE l == CASE r.kind = "register_publisher" -> "pub_pipe"
                      [] r.kind = "create_box" -> "create_pipe"
                      [] r.kind = "remove_box" -> "remove_lock"
    <2>1. /\ pc' = [pc EXCEPT ![w] = l] /\ ~Registered(w) /\ UNCHANGED fsVars
          /\ request' = [request EXCEPT ![w] = r]
        BY <1>12 DEF Receive, At, Goto, Registered
    <2>2. \A u \in Workers : u # w => request'[u] = request[u]
        BY <2>1 DEF TypeOK
    <2> HIDE DEF l
    <2> QED
        BY <1>1, <1>4, <2>1, <2>2, MoveKeepsRegistered
<1>13. CASE Return(w, "return")
    <2>1. /\ pc' = [pc EXCEPT ![w] = "idle"] /\ ~Registered(w) /\ UNCHANGED fsVars
          /\ request' = [request EXCEPT ![w] = NoRequest]
        BY <1>13 DEF Return, At, Goto, Registered
    <2>2. \A u \in Workers : u # w => request'[u] = request[u]
        BY <2>1 DEF TypeOK
    <2> QED
        BY <1>1, <1>4, <2>1, <2>2, MoveKeepsRegistered
<1>14. ASSUME NEW from, NEW l, Unlock(w, from, l),
              <<from, l>> \in {<<"reject_unlock", "return">>, <<"pub_unlock", "pub_end">>,
                               <<"create_unlock", "create_send">>, <<"remove_unlock", "return">>}
       PROVE  MetaFileHasPublisher'
    BY <1>1, <1>4, <1>14, MoveKeepsRegistered DEF Unlock, At, Goto, Registered
<1>15. CASE RegisterPublisher(w)
    <2>1. CASE PubOpenBox(w) \/ PubOpenMeta(w)
        BY <1>1, <1>5, <1>8, <1>9, <2>1, MoveKeepsRegistered
           DEF PubOpenBox, PubOpenMeta, At, Goto, Registered
    <2>2. CASE RejectCloseBox(w) \/ RejectCloseMeta(w)
        BY <1>1, <1>6, <2>2, MoveKeepsRegistered
           DEF RejectCloseBox, RejectCloseMeta, At, Goto, Registered
    <2>3. CASE RejectUnlinkMeta(w)
        BY <1>1, <1>7, <1>8, <2>3, MoveKeepsRegistered DEF RejectUnlinkMeta, At, Goto, Registered
    <2>4. CASE PubCloseMeta(w) \/ PubCloseBox(w)
        BY <1>1, <1>2, <1>6, <2>4, MoveKeepsRegistered
           DEF PubCloseMeta, PubCloseBox, Require, At, Goto, Registered
    <2>5. CASE PubCreateMeta(w)
        <3>1. SUFFICES ASSUME failed' = "no" PROVE MetaFileHasPublisher'
            BY <1>2
        <3>2. pc[w] = "pub_create" /\ pc' = [pc EXCEPT ![w] = "pub_close_meta"]
              /\ UNCHANGED request /\ FS!tfs_open(MetaOf(w), {"CREAT"})
            BY <1>1, <2>5, <3>1 DEF PubCreateMeta, Require, At, Goto
        <3>3. \A b \in Boxes : Exists(Meta[b])' => Exists(Meta[b]) \/ Meta[b] = MetaOf(w)
            BY <1>3, <1>8, <1>9, <3>2, OpenCall
        <3>4. \A b \in Boxes : Meta[b] = MetaOf(w) => b = BoxOf(w)
            BY <1>8, <3>2 DEF MetaDistinct, MetaOf
        <3>5. pc'[w] = "pub_close_meta" /\ \A u \in Workers : u # w => pc'[u] = pc[u]
            BY <3>2 DEF TypeOK
        <3>6. Registered(w)' /\ BoxOf(w)' = BoxOf(w)
            BY <3>2, <3>5 DEF Registered, BoxOf
        <3>7. \A u \in Workers : Registered(u) => Registered(u)' /\ BoxOf(u)' = BoxOf(u)
            BY <3>2, <3>5 DEF Registered, BoxOf
        <3>8. ASSUME NEW b \in Boxes, Exists(Meta[b])'
              PROVE  \E u \in Workers : Registered(u)' /\ BoxOf(u)' = b
            BY <1>1, <3>3, <3>4, <3>6, <3>7, <3>8 DEF MetaFileHasPublisher
        <3> QED
            BY <3>8 DEF MetaFileHasPublisher
    <2>6. CASE PubUnlinkMeta(w)
        <3>1. SUFFICES ASSUME failed' = "no" PROVE MetaFileHasPublisher'
            BY <1>2
        <3>2. pc[w] = "pub_unlink" /\ pc' = [pc EXCEPT ![w] = "return"]
              /\ UNCHANGED request /\ FS!tfs_unlink(MetaOf(w))
            BY <1>1, <2>6, <3>1 DEF PubUnlinkMeta, Require, At, Goto
        <3>3. \A b \in Boxes : Exists(Meta[b])' => Exists(Meta[b]) /\ b # BoxOf(w)
            BY <1>7, <1>8, <3>2 DEF MetaOf
        <3>4. \A u \in Workers : u # w => pc'[u] = pc[u]
            BY <3>2 DEF TypeOK
        <3>5. \A u \in Workers : Registered(u) /\ u # w => Registered(u)' /\ BoxOf(u)' = BoxOf(u)
            BY <3>2, <3>4 DEF Registered, BoxOf
        <3> QED
            BY <1>1, <3>3, <3>5, RegistrationsStay
    <2> QED
        BY <1>14, <1>15, <2>1, <2>2, <2>3, <2>4, <2>5, <2>6 DEF RegisterPublisher, RejectUnlock
<1>16. CASE CreateBox(w)
    <2>1. CASE CreateCheck(w) \/ CreateNew(w)
        BY <1>1, <1>5, <1>8, <1>9, <2>1, MoveKeepsRegistered
           DEF CreateCheck, CreateNew, At, Goto, Registered
    <2>2. CASE CreateRefuse(w)
        BY <1>1, <1>6, <2>2, MoveKeepsRegistered DEF CreateRefuse, At, Goto, Registered
    <2>3. CASE CreateSend(w)
        BY <1>1, <1>2, <1>4, <2>3, MoveKeepsRegistered DEF CreateSend, At, Goto, Registered
    <2> QED
        BY <1>14, <1>16, <2>1, <2>2, <2>3 DEF CreateBox
<1>17. CASE RemoveBox(w)
    <2>1. CASE RemoveUnlink(w)
        BY <1>1, <1>2, <1>7, <1>8, <2>1, MoveKeepsRegistered
           DEF RemoveUnlink, Require, At, Goto, Registered
    <2> QED
        BY <1>14, <1>17, <2>1 DEF RemoveBox
<1> QED
    BY <1>10, <1>11, <1>12, <1>13, <1>15, <1>16, <1>17 DEF Steps

\* "If this file exists, then a publisher is registered to it": no meta-file is
\* left behind, although a session ends without the mutex and a rejection
\* unlinks a file it does not own; for names that do not collide.
THEOREM MetaFilesHavePublishers ==
    ASSUME MetaDistinct
    PROVE  Spec => []MetaFileHasPublisher
<1>1. Init => MetaFileHasPublisher
    <2>1. Init => \A n : ~Exists(n)
        BY DEF Init, FS!Init, Exists, FS!find_in_dir
    <2> QED
        BY <2>1 DEF MetaFileHasPublisher
<1>2. TypeOK /\ FsInv /\ MetaFileHasPublisher /\ [Next]_vars => MetaFileHasPublisher'
    <2> SUFFICES ASSUME TypeOK, FsInv, MetaFileHasPublisher, [Next]_vars
                 PROVE  MetaFileHasPublisher'
        OBVIOUS
    <2>1. CASE UNCHANGED vars \/ Exited
        BY <2>1 DEF vars, fsVars, Exited, MetaFileHasPublisher, Registered, BoxOf,
                    Exists, FS!find_in_dir
    <2> QED
        BY <2>1, StepsKeepPublishers DEF Next
<1> QED
    BY <1>1, <1>2, TypeCorrect, PTL DEF Spec

-----------------------------------------------------------------------------
(* The files behind the handles                                            *)

\* Where a handler has its box open, and whose lines they are.
PublisherLines == {"pub_pipe", "pub_box", "pub_lock", "pub_meta", "reject_box", "pub_create",
                   "pub_close_meta", "pub_unlock", "pub_end"}
BoxOpenLines == (PublisherLines \ {"pub_pipe", "pub_box"}) \cup {"create_close"}
FdInv ==
    \A w \in Workers :
        /\ pc[w] \in PublisherLines => request[w].kind = "register_publisher"
        /\ fd[w] # -1 => pc[w] \in BoxOpenLines

\* A step of w that goes to the label l, and what it may do to fd.
LEMMA MoveKeepsFdInv ==
    ASSUME TypeOK, FdInv, NEW w \in Workers, NEW l, NEW r,
           pc' = [pc EXCEPT ![w] = l], request' = [request EXCEPT ![w] = r],
           l \in PublisherLines => r.kind = "register_publisher",
           \/ UNCHANGED fd /\ (fd[w] = -1 \/ l \in BoxOpenLines)
           \/ \E h : fd' = [fd EXCEPT ![w] = h] /\ (h = -1 \/ l \in BoxOpenLines)
    PROVE  FdInv'
<1>1. pc'[w] = l /\ request'[w] = r /\ (fd'[w] = -1 \/ l \in BoxOpenLines)
    BY DEF TypeOK
<1>2. ASSUME NEW u \in Workers, u # w
      PROVE  pc'[u] = pc[u] /\ request'[u] = request[u] /\ fd'[u] = fd[u]
    BY <1>2 DEF TypeOK
<1> QED
    BY <1>1, <1>2 DEF FdInv

LEMMA StepsKeepFdInv ==
    ASSUME TypeOK, FdInv, NEW w \in Workers,
           Locks(w) \/ Pipes(w) \/ Steps(w) \/ (\E r \in Requests : Receive(w, r))
    PROVE  FdInv'
<1>1. /\ pc[w] \in PublisherLines => request[w].kind = "register_publisher"
      /\ fd[w] # -1 => pc[w] \in BoxOpenLines
    BY DEF FdInv
<1>2. ASSUME NEW l, pc' = [pc EXCEPT ![w] = l], UNCHANGED request,
             l \in PublisherLines => pc[w] \in PublisherLines,
             \/ UNCHANGED fd /\ (pc[w] \in BoxOpenLines => l \in BoxOpenLines)
             \/ fd' = [fd EXCEPT ![w] = -1]
             \/ \E h : fd' = [fd EXCEPT ![w] = h] /\ l \in BoxOpenLines
      PROVE  FdInv'
    <2>1. request' = [request EXCEPT ![w] = request[w]]
        BY <1>2 DEF TypeOK
    <2> QED
        BY <1>1, <1>2, <2>1, MoveKeepsFdInv
<1>3. ASSUME UNCHANGED <<pc, request, fd>> PROVE FdInv'
    BY <1>3 DEF FdInv
<1>4. CASE Locks(w)
    BY <1>2, <1>4
       DEF Locks, Lock, At, Goto, PublisherLines, BoxOpenLines
<1>5. CASE Pipes(w)
    BY <1>2, <1>3, <1>5
       DEF Pipes, OpenPipe, At, Goto, PublisherLines, BoxOpenLines
<1>6. ASSUME NEW r \in Requests, Receive(w, r) PROVE FdInv'
    <2> DEFINE l == CASE r.kind = "register_publisher" -> "pub_pipe"
                      [] r.kind = "create_box" -> "create_pipe"
                      [] r.kind = "remove_box" -> "remove_lock"
    <2>1. r.kind \in Kinds
        BY DEF Requests
    <2>2. l \in PublisherLines => r.kind = "register_publisher"
        BY <2>1 DEF Kinds, PublisherLines
    <2>3. /\ pc[w] = "idle" /\ pc' = [pc EXCEPT ![w] = l]
          /\ request' = [request EXCEPT ![w] = r] /\ UNCHANGED fd
        BY <1>6 DEF Receive, At, Goto
    <2>4. fd[w] = -1
        BY <1>1, <2>3 DEF BoxOpenLines, PublisherLines
    <2> HIDE DEF l
    <2> QED
        BY <2>2, <2>3, <2>4, MoveKeepsFdInv
<1>7. CASE RegisterPublisher(w)
    <2>1. CASE PubOpenBox(w)
        BY <1>2, <2>1 DEF PubOpenBox, At, Goto, PublisherLines, BoxOpenLines
    <2>2. CASE PubOpenMeta(w)
        <3>1. PICK l \in {"reject_box", "pub_create"} : pc' = [pc EXCEPT ![w] = l]
            BY <2>2 DEF PubOpenMeta, Goto
        <3>2. pc[w] = "pub_meta" /\ UNCHANGED <<request, fd>>
            BY <2>2 DEF PubOpenMeta, At
        <3> QED
            BY <1>2, <3>1, <3>2 DEF PublisherLines, BoxOpenLines
    <2>3. CASE RejectCloseBox(w) \/ RejectCloseMeta(w) \/ RejectUnlinkMeta(w) \/ RejectUnlock(w)
        BY <1>2, <2>3
           DEF RejectCloseBox, RejectCloseMeta, RejectUnlinkMeta, RejectUnlock, Unlock, At, Goto,
               PublisherLines, BoxOpenLines
    <2>4. CASE PubCreateMeta(w) \/ PubCloseMeta(w)
        BY <1>2, <1>3, <2>4
           DEF PubCreateMeta, PubCloseMeta, Require, At, Goto, PublisherLines, BoxOpenLines
    <2>5. CASE Unlock(w, "pub_unlock", "pub_end") \/ PubCloseBox(w) \/ PubUnlinkMeta(w)
        BY <1>2, <1>3, <2>5
           DEF Unlock, PubCloseBox, PubUnlinkMeta, Require, At, Goto, PublisherLines, BoxOpenLines
    <2> QED
        BY <1>7, <2>1, <2>2, <2>3, <2>4, <2>5 DEF RegisterPublisher
<1>8. CASE CreateBox(w)
    <2>1. CASE CreateCheck(w)
        BY <1>2, <2>1 DEF CreateCheck, At, Goto, PublisherLines, BoxOpenLines
    <2>2. CASE CreateRefuse(w) \/ CreateNew(w) \/ CreateSend(w)
               \/ Unlock(w, "create_unlock", "create_send")
        BY <1>2, <1>3, <2>2
           DEF CreateRefuse, CreateNew, CreateSend, Unlock, At, Goto, PublisherLines, BoxOpenLines
    <2> QED
        BY <1>8, <2>1, <2>2 DEF CreateBox
<1>9. CASE RemoveBox(w)
    BY <1>2, <1>3, <1>9
       DEF RemoveBox, RemoveUnlink, Unlock, Require, At, Goto, PublisherLines, BoxOpenLines
<1>10. CASE Return(w, "return")
    BY <1>10, MoveKeepsFdInv DEF Return, At, Goto, PublisherLines
<1> QED
    BY <1>4, <1>5, <1>6, <1>7, <1>8, <1>9, <1>10 DEF Steps

\* What the calls do to files and handles that are there.
LEMMA CallsKeepBoxes ==
    ASSUME FsInv, FsInv', NEW n \in Paths, Exists(n), NEW h \in handlesTaken,
           \/ UNCHANGED fsVars
           \/ \E name \in Paths, mode \in FSP!Modes : FS!tfs_open(name, mode)
           \/ \E g \in Results : FS!tfs_close(g)
           \/ \E name \in Paths \ {n} : FS!tfs_unlink(name)
    PROVE  FS!find_in_dir(n)' = FS!find_in_dir(n) /\ ofInumber'[h] = ofInumber[h]
<1>1. n \in FSP!Paths /\ FSP!find_in_dir(n) # -1
    BY SameFind DEF Paths, FSP!Paths, Exists
<1>2. CASE UNCHANGED fsVars
    BY <1>2 DEF fsVars, FS!find_in_dir
<1>3. ASSUME NEW name \in Paths, NEW mode \in FSP!Modes, FS!tfs_open(name, mode)
      PROVE  FS!find_in_dir(n)' = FS!find_in_dir(n) /\ ofInumber'[h] = ofInumber[h]
    <2>1. FSP!tfs_open(name, mode) /\ name \in FSP!Paths
        BY <1>3, SameOpen DEF Paths, FSP!Paths
    <2>2. FSP!find_in_dir(n)' = FSP!find_in_dir(n)
        BY <1>1, <2>1, NamesFit, TablesFit, InputsFit, FSP!OpenKeepsFiles DEF FsInv
    <2>3. ofInumber'[h] = ofInumber[h]
        BY <2>1, NamesFit, TablesFit, InputsFit, FSP!OpenKeepsHandles DEF FsInv
    <2> QED
        BY <2>2, <2>3, SameFind
<1>4. ASSUME NEW g, FS!tfs_close(g)
      PROVE  FS!find_in_dir(n)' = FS!find_in_dir(n) /\ ofInumber'[h] = ofInumber[h]
    BY <1>4 DEF FS!tfs_close, FS!BadHandle, FS!dirVars, FS!handleVars, FS!find_in_dir
<1>5. ASSUME NEW name \in Paths \ {n}, FS!tfs_unlink(name)
      PROVE  FS!find_in_dir(n)' = FS!find_in_dir(n) /\ ofInumber'[h] = ofInumber[h]
    <2>1. FSP!tfs_unlink(name) /\ name \in FSP!Paths /\ n # name
        BY <1>5, SameUnlink DEF Paths, FSP!Paths
    <2>2. FSP!find_in_dir(n)' = FSP!find_in_dir(n) /\ UNCHANGED ofInumber
        BY <1>1, <2>1, NamesFit, TablesFit, InputsFit, FSP!UnlinkKeepsFiles DEF FsInv
    <2> QED
        BY <2>2, SameFind
<1> QED
    BY <1>2, <1>3, <1>4, <1>5

\* What a worker's step calls when it is not the removal of the box b.
LEMMA StepsSpareBox ==
    ASSUME MetaDistinct, TypeOK, NEW u \in Workers, NEW b \in Boxes,
           Locks(u) \/ Pipes(u) \/ Steps(u) \/ (\E r \in Requests : Receive(u, r)),
           ~(RemoveUnlink(u) /\ BoxOf(u) = b)
    PROVE  \/ UNCHANGED fsVars
           \/ \E name \in Paths, mode \in FSP!Modes : FS!tfs_open(name, mode)
           \/ \E g \in Results : FS!tfs_close(g)
           \/ \E name \in Paths \ {b} : FS!tfs_unlink(name)
<1>1. pc[u] # "idle" => BoxOf(u) \in Boxes /\ BoxOf(u) \in Paths /\ MetaOf(u) \in Paths \ {b}
    <2>1. pc[u] # "idle" => request[u] \in Requests
        BY DEF TypeOK
    <2>2. request[u] \in Requests => BoxOf(u) \in Boxes
        BY DEF Requests, BoxOf
    <2>3. BoxOf(u) \in Boxes => MetaOf(u) # b
        BY DEF MetaDistinct, MetaOf
    <2> QED
        BY <2>1, <2>2, <2>3, WorkerBusy
<1>2. {} \in FSP!Modes /\ {"APPEND"} \in FSP!Modes /\ {"CREAT"} \in FSP!Modes
      /\ {"CREAT", "TRUNC"} \in FSP!Modes
    BY DEF FSP!Modes
<1>3. fd[u] \in Results /\ metaFd[u] \in Results
    BY DEF TypeOK, Results
<1>4. CASE RegisterPublisher(u)
    <2>1. CASE PubOpenBox(u) \/ PubOpenMeta(u) \/ PubCreateMeta(u)
        BY <1>1, <1>2, <2>1 DEF PubOpenBox, PubOpenMeta, PubCreateMeta, At
    <2>2. CASE RejectCloseBox(u) \/ RejectCloseMeta(u) \/ PubCloseMeta(u) \/ PubCloseBox(u)
        BY <1>3, <2>2 DEF RejectCloseBox, RejectCloseMeta, PubCloseMeta, PubCloseBox
    <2>3. CASE RejectUnlinkMeta(u) \/ PubUnlinkMeta(u)
        BY <1>1, <2>3 DEF RejectUnlinkMeta, PubUnlinkMeta, At
    <2> QED
        BY <1>4, <2>1, <2>2, <2>3 DEF RegisterPublisher, RejectUnlock, Unlock
<1>5. CASE CreateBox(u)
    <2>1. CASE CreateCheck(u) \/ CreateNew(u)
        BY <1>1, <1>2, <2>1 DEF CreateCheck, CreateNew, At
    <2> QED
        BY <1>3, <1>5, <2>1 DEF CreateBox, CreateRefuse, Unlock, CreateSend
<1>6. CASE RemoveBox(u)
    <2>1. CASE RemoveUnlink(u)
        BY <1>1, <2>1 DEF RemoveUnlink, At
    <2> QED
        BY <1>6, <2>1 DEF RemoveBox, Unlock
<1>7. CASE Locks(u) \/ Pipes(u) \/ Return(u, "return") \/ \E r \in Requests : Receive(u, r)
    BY <1>7 DEF Locks, Lock, Pipes, OpenPipe, Return, Receive
<1> QED
    BY <1>4, <1>5, <1>6, <1>7 DEF Steps

\* A request stays the same while its worker holds the box open.
LEMMA RequestStays ==
    ASSUME TypeOK, FdInv, NEW u \in Workers, NEW w \in Workers, fd[w] # -1, fd'[w] = fd[w],
           Locks(u) \/ Pipes(u) \/ Steps(u) \/ (\E r \in Requests : Receive(u, r))
    PROVE  request'[w] = request[w]
<1>1. CASE \E r \in Requests : Receive(u, r)
    <2>1. pc[u] = "idle" /\ \A v \in Workers : v # u => request'[v] = request[v]
        BY <1>1 DEF Receive, At, TypeOK
    <2>2. pc[w] # "idle"
        BY DEF FdInv, BoxOpenLines, PublisherLines
    <2> QED
        BY <2>1, <2>2
<1>2. CASE Return(u, "return")
    <2>1. fd'[u] = -1 /\ \A v \in Workers : v # u => request'[v] = request[v]
        BY <1>2 DEF Return, TypeOK
    <2> QED
        BY <2>1
<1>3. CASE RegisterPublisher(u) \/ CreateBox(u) \/ RemoveBox(u) \/ Locks(u) \/ Pipes(u)
    BY <1>3 DEF Locks, Lock, Pipes, OpenPipe, RegisterPublisher, PubOpenBox,
           PubOpenMeta, RejectCloseBox, RejectCloseMeta, RejectUnlinkMeta, RejectUnlock,
           PubCreateMeta, PubCloseMeta, Unlock, PubCloseBox, PubUnlinkMeta,
           CreateBox, CreateCheck, CreateRefuse, CreateNew, CreateSend,
           RemoveBox, RemoveUnlink
<1> QED
    BY <1>1, <1>2, <1>3 DEF Steps

\* Files are unlinked and inodes reused while they are open, but a handler's
\* handle stays on its box unless that box is removed, and then the handler is
\* a publisher's: create_box keeps removals out with tfs_ops.
THEOREM HandlesKeepBoxes ==
    ASSUME MetaDistinct
    PROVE  Spec => HandleKeepsBox
<1> DEFINE A == \A w \in Workers :
                    OnBox(w) /\ fd'[w] = fd[w] =>
                        \/ OnBox(w)'
                        \/ /\ request[w].kind = "register_publisher"
                           /\ \E u \in Workers : RemoveUnlink(u) /\ BoxOf(u) = BoxOf(w)
<1>1. Init => FdInv
    BY DEF Init, FdInv, PublisherLines
<1>2. TypeOK /\ FdInv /\ [Next]_vars => FdInv'
    <2>1. ASSUME FdInv, UNCHANGED vars PROVE FdInv'
        BY <2>1 DEF vars, FdInv
    <2> QED
        BY <2>1, StepsKeepFdInv DEF Next, Exited
<1>3. TypeOK /\ FsInv /\ FsInv' /\ FdInv /\ HeldHandlesOpen /\ TfsOpsDiscipline /\ [Next]_vars
      => [A]_vars
    <2> SUFFICES ASSUME TypeOK, FsInv, FsInv', FdInv, HeldHandlesOpen, TfsOpsDiscipline,
                        NEW u \in Workers,
                        Locks(u) \/ Pipes(u) \/ Steps(u) \/ (\E r \in Requests : Receive(u, r)),
                        NEW w \in Workers, OnBox(w), fd'[w] = fd[w],
                        ~(/\ request[w].kind = "register_publisher"
                          /\ RemoveUnlink(u) /\ BoxOf(u) = BoxOf(w))
                 PROVE  OnBox(w)'
        BY DEF Next, Exited
    <2>1. failed = "no"
        BY DEF Locks, Lock, Pipes, OpenPipe, Receive, At, Steps, RegisterPublisher, PubOpenBox,
           PubOpenMeta, RejectCloseBox, RejectCloseMeta, RejectUnlinkMeta, RejectUnlock,
           PubCreateMeta, PubCloseMeta, Unlock, PubCloseBox, PubUnlinkMeta,
           CreateBox, CreateCheck, CreateRefuse, CreateNew, CreateSend,
           RemoveBox, RemoveUnlink, Return
    <2>2. fd[w] # -1 /\ fd[w] \in handlesTaken /\ Exists(BoxOf(w))
        BY <2>1 DEF OnBox, HeldHandlesOpen, Held
    <2>3. BoxOf(w) \in Boxes /\ BoxOf(w) \in Paths
        <3>1. pc[w] # "idle"
            BY <2>2 DEF FdInv, BoxOpenLines, PublisherLines
        <3>2. request[w] \in Requests
            BY <3>1 DEF TypeOK
        <3> QED
            BY <3>2 DEF Requests, BoxOf, Paths
    <2>4. ~(RemoveUnlink(u) /\ BoxOf(u) = BoxOf(w))
        <3>1. SUFFICES ASSUME RemoveUnlink(u), request[w].kind # "register_publisher" PROVE FALSE
            OBVIOUS
        <3>2. pc[w] = "create_close"
            BY <2>2, <3>1 DEF FdInv, BoxOpenLines
        <3>3. pc[u] = "remove_unlink"
            BY <3>1 DEF RemoveUnlink, At
        <3>4. tfs_ops = w /\ tfs_ops = u
            BY <3>2, <3>3 DEF TfsOpsDiscipline, Critical
        <3> QED
            BY <3>2, <3>3, <3>4
    <2>5. request'[w] = request[w]
        BY <2>2, RequestStays
    <2>6. PICK b \in Boxes, h \in handlesTaken : b = BoxOf(w) /\ h = fd[w]
        BY <2>2, <2>3
    <2>7. \/ UNCHANGED fsVars
          \/ \E name \in Paths, mode \in FSP!Modes : FS!tfs_open(name, mode)
          \/ \E g \in Results : FS!tfs_close(g)
          \/ \E name \in Paths \ {b} : FS!tfs_unlink(name)
        BY <2>4, <2>6, StepsSpareBox
    <2>8. FS!find_in_dir(b)' = FS!find_in_dir(b) /\ ofInumber'[h] = ofInumber[h]
        BY <2>2, <2>3, <2>6, <2>7, CallsKeepBoxes
    <2>9. BoxOf(w)' = b /\ fd'[w] = h
        BY <2>5, <2>6 DEF BoxOf
    <2> QED
        BY <2>2, <2>6, <2>8, <2>9 DEF OnBox, Exists
<1> QED
    BY <1>1, <1>2, <1>3, TypeCorrect, TfsOpsHeld, HandlesKept, PTL DEF Spec, HandleKeepsBox

-----------------------------------------------------------------------------
(* The file system under the handlers                                      *)

\* No handler writes, so every file is empty: the callers that delete and
\* truncate open files do no more harm than that.
FsQuiet ==
    /\ status = "running"
    /\ \A i \in FSP!Inodes : i # FSP!Root => iSize[i] = 0

LEMMA CallsKeepFsQuiet ==
    ASSUME FsInv, FsQuiet, FsCall
    PROVE  FsQuiet'
<1>1. CASE UNCHANGED fsVars
    BY <1>1 DEF FsQuiet, fsVars
<1>2. ASSUME NEW e \in FSP!UsedEntries
      PROVE  dInumber[e] \in FSP!Inodes /\ dInumber[e] # FSP!Root /\ iSize[dInumber[e]] = 0
    BY DEF FsInv, FsQuiet, FSP!TypeOK, FSP!DirConsistent, FSP!UsedEntries, FSP!EmptyEntries
<1>3. ASSUME NEW name \in Paths, NEW mode \in FSP!Modes, FS!tfs_open(name, mode)
      PROVE  FsQuiet'
    <2>1. FSP!tfs_open(name, mode) /\ name \in FSP!Paths
        BY <1>3, SameOpen DEF Paths, FSP!Paths
    <2>2. CASE UNCHANGED <<iSize, status>>
        BY <2>2 DEF FsQuiet
    <2>3. ASSUME NEW e \in FSP!UsedEntries, FSP!release_block(dInumber[e]),
                 iSize' = [iSize EXCEPT ![dInumber[e]] = 0]
          PROVE  FsQuiet'
        <3>1. UNCHANGED status
            BY <1>2, <2>3 DEF FSP!release_block
        <3> QED
            BY <1>2, <2>3, <3>1 DEF FsQuiet, FsInv, FSP!TypeOK
    <2>4. ASSUME NEW i \in FSP!FreeInodes, FSP!inode_create(i), UNCHANGED status
          PROVE  FsQuiet'
        BY <2>4 DEF FsQuiet, FsInv, FSP!TypeOK, FSP!inode_create, FSP!FreeInodes
    <2> QED
        BY <2>1, <2>2, <2>3, <2>4, NamesFit, TablesFit, InputsFit, FSP!OpenCases DEF FsInv
<1>4. ASSUME NEW h, FS!tfs_close(h)
      PROVE  FsQuiet'
    BY <1>4, SameClose DEF FsQuiet, FSP!tfs_close, FSP!BadHandle, FSP!inodeVars
<1>5. ASSUME NEW name \in Paths, FS!tfs_unlink(name)
      PROVE  FsQuiet'
    <2>1. FSP!tfs_unlink(name) /\ name \in FSP!Paths
        BY <1>5, SameUnlink DEF Paths, FSP!Paths
    <2>2. UNCHANGED iSize
        BY <2>1, NamesFit, TablesFit, InputsFit, FSP!UnlinkCases DEF FsInv
    <2>3. ASSUME NEW e \in FSP!UsedEntries, FSP!release_block(dInumber[e])
          PROVE  UNCHANGED status
        BY <1>2, <2>3 DEF FSP!release_block
    <2>4. UNCHANGED status
        BY <2>1, <2>3, NamesFit, TablesFit, InputsFit, FSP!UnlinkCases DEF FsInv
    <2> QED
        BY <2>2, <2>4 DEF FsQuiet
<1> QED
    BY <1>1, <1>3, <1>4, <1>5 DEF FsCall

\* The handlers delete and truncate files that others have open, for which the
\* file system by itself is not safe; yet no assertion of it fails and no copy
\* leaves its memory under the handlers of this broker.
FileSystemRuns == status = "running"

THEOREM FileSystemStaysUp == Spec => []FileSystemRuns
<1>1. Init => FsQuiet
    <2>1. Init => FSP!Init
        BY SameInit DEF Init
    <2> QED
        BY <2>1 DEF FSP!Init, FsQuiet
<1>2. TypeOK /\ FsInv /\ FsQuiet /\ [Next]_vars => FsQuiet'
    BY StepsAreCalls, CallsKeepFsQuiet
<1>3. FsQuiet => FileSystemRuns
    BY DEF FsQuiet, FileSystemRuns
<1> QED
    BY <1>1, <1>2, <1>3, TypeCorrect, PTL DEF Spec

=============================================================================
