------------------------------ MODULE TecnicoFS ------------------------------
(***************************************************************************)
(* The in-memory file system: fs/operations.c over the tables of           *)
(* fs/state.c.  Every tfs_* call holds g_library_mutex from its first to   *)
(* its last line, so a call is one step whatever thread makes it.          *)
(*                                                                         *)
(* An inode number, a block number and a handle are the indices the C code *)
(* uses, and every table is searched from index 0.  The allocation tables  *)
(* (FREE / TAKEN) are the sets of the indices taken.  Entries that are     *)
(* freed keep their contents, as they do in C: nothing clears an inode or  *)
(* a block that is given back.                                             *)
(***************************************************************************)
EXTENDS Integers, Sequences, FiniteSetsExt

CONSTANTS
    Names,          \* path names that are valid and fit a directory entry
    LongNames,      \* valid path names of MAX_FILE_NAME characters or more
    NoName,         \* the d_name of an empty entry
    InodeCount, BlockCount, HandleCount, BlockSize,     \* tfs_params
    EntryCount,     \* MAX_DIR_ENTRIES
    Bytes,          \* the bytes callers write; 0 is what fresh memory holds
    SizeModulus,    \* size_t wraps around at this value (2^64)
    MaxLength,      \* bound: the longest buffer of a read or write
    DiscardOpen     \* whether callers unlink or truncate files that are open

Root == 0                       \* ROOT_DIR_INUM
Inodes == 0 .. InodeCount - 1
Blocks == 0 .. BlockCount - 1
Handles == 0 .. HandleCount - 1
Entries == 0 .. EntryCount - 1
Addresses == 0 .. BlockCount * BlockSize - 1
Paths == Names \cup LongNames

ASSUME NamesAssumption == NoName \notin Paths /\ Names \cap LongNames = {}
ASSUME TablesAssumption ==
    /\ InodeCount \in Nat \ {0} /\ BlockCount \in Nat \ {0}
    /\ HandleCount \in Nat /\ EntryCount \in Nat
    /\ BlockSize \in Nat \ {0}
    /\ SizeModulus \in Nat /\ SizeModulus > BlockCount * BlockSize
\* A buffer and a block fit into the memory of the process together.
ASSUME InputsAssumption ==
    /\ MaxLength \in Nat /\ MaxLength + BlockSize < SizeModulus
    /\ DiscardOpen \in BOOLEAN

VARIABLES
    inodesTaken, iSize, iBlock,     \* freeinode_ts; i_size, i_data_block
    blocksTaken, data,              \* free_blocks; fs_data, all blocks in a row
    dName, dInumber,                \* the entries in the block of the root
    handlesTaken, ofInumber, ofOffset,  \* open_file_table
    returned,       \* what the last call returned, and the bytes it read
    status          \* "panic" after a failed assertion, "undefined" after an
                    \* access outside the memory that belongs to the call

inodeVars == <<inodesTaken, iSize, iBlock>>
blockVars == <<blocksTaken, data>>
dirVars == <<dName, dInumber>>
handleVars == <<handlesTaken, ofInumber, ofOffset>>
vars == <<inodeVars, blockVars, dirVars, handleVars, returned, status>>

Return(n) == returned' = [value |-> n, bytes |-> <<>>]

-----------------------------------------------------------------------------
(* fs/state.c                                                              *)

FreeInodes == Inodes \ inodesTaken
FreeBlocks == Blocks \ blocksTaken
FreeHandles == Handles \ handlesTaken
EmptyEntries == {e \in Entries : dInumber[e] = -1}

\* The tests of add_dir_entry: a short enough name and a place for it.
CanAddEntryAnyLength(name) == EmptyEntries # {}
CanAddEntry(name) == name \in Names /\ EmptyEntries # {}

\* find_in_dir: the inode of the first entry in use with that name, or -1.
find_in_dir(name) ==
    LET matches == {e \in Entries : dInumber[e] # -1 /\ dName[e] = name}
    IN  IF matches = {} THEN -1 ELSE dInumber[Min(matches)]

\* inode_create(T_FILE): iBlock is -1 until the first write.
inode_create(i) ==
    /\ iSize' = [iSize EXCEPT ![i] = 0]
    /\ iBlock' = [iBlock EXCEPT ![i] = -1]

\* As release_block, for a block that i may have given back before.
release_block_twice(i) ==
    /\ blocksTaken' = blocksTaken \ {iBlock[i]}
    /\ UNCHANGED status

\* The block of inode i goes back if i has one; data_block_free asserts that
\* the number is valid, not that the block is taken.
release_block(i) ==
    /\ blocksTaken' = IF iSize[i] > 0 THEN blocksTaken \ {iBlock[i]} ELSE blocksTaken
    /\ status' = IF iSize[i] > 0 /\ iBlock[i] \notin Blocks THEN "panic" ELSE status

\* inode_delete asserts that the inode is taken.
inode_delete(i) ==
    /\ inodesTaken' = inodesTaken \ {i}
    /\ IF i \in inodesTaken
       THEN release_block(i)
       ELSE status' = "panic" /\ UNCHANGED blocksTaken

\* add_to_open_file_table, and its result as the result of tfs_open.
add_to_open_file_table(i, offset) ==
    IF FreeHandles = {}
    THEN Return(-1) /\ UNCHANGED handleVars
    ELSE LET h == Min(FreeHandles)
         IN  /\ handlesTaken' = handlesTaken \cup {h}
             /\ ofInumber' = [ofInumber EXCEPT ![h] = i]
             /\ ofOffset' = [ofOffset EXCEPT ![h] = offset]
             /\ Return(h)

\* As clear_dir_entry, but the name stays, or nothing happens at all.
clear_dir_entry_number(name) ==
    LET matches == {e \in Entries : dName[e] = name}
    IN  /\ dInumber' = [dInumber EXCEPT ![Min(matches)] = -1]
        /\ Return(0)
        /\ UNCHANGED dName
clear_dir_entry_never(name) == Return(0) /\ UNCHANGED dirVars

\* clear_dir_entry compares names only; it does not look at d_inumber.
clear_dir_entry(name) ==
    LET matches == {e \in Entries : dName[e] = name}
    IN  IF matches = {}
        THEN Return(-1) /\ UNCHANGED dirVars
        ELSE /\ dInumber' = [dInumber EXCEPT ![Min(matches)] = -1]
             /\ dName' = [dName EXCEPT ![Min(matches)] = NoName]
             /\ Return(0)

-----------------------------------------------------------------------------
(* fs/operations.c                                                         *)

\* tfs_init: the root takes inode 0 and block 0, its entries are empty.
Init ==
    /\ inodesTaken = {Root}
    /\ iSize = [i \in Inodes |-> IF i = Root THEN BlockSize ELSE 0]
    /\ iBlock = [i \in Inodes |-> IF i = Root THEN 0 ELSE -1]
    /\ blocksTaken = {0}
    /\ data = [a \in Addresses |-> 0]
    /\ dName = [e \in Entries |-> NoName]
    /\ dInumber = [e \in Entries |-> -1]
    /\ handlesTaken = {}
    /\ ofInumber = [h \in Handles |-> 0]
    /\ ofOffset = [h \in Handles |-> 0]
    /\ returned = [value |-> 0, bytes |-> <<>>]
    /\ status = "running"

IsOpen(i) == \E h \in handlesTaken : ofInumber[h] = i
MayDiscard(i) == DiscardOpen \/ ~IsOpen(i)

\* The file exists.
OpenExisting(name, mode) ==
    LET i == find_in_dir(name)
        size == IF "TRUNC" \in mode THEN 0 ELSE iSize[i]
    IN  /\ i # -1
        /\ IF "TRUNC" \in mode
           THEN release_block(i) /\ iSize' = [iSize EXCEPT ![i] = 0]
           ELSE UNCHANGED <<blocksTaken, status, iSize>>
        /\ add_to_open_file_table(i, IF "APPEND" \in mode THEN size ELSE 0)
        /\ UNCHANGED <<inodesTaken, iBlock, data, dirVars>>

\* The file has to be created.  It stays created when no handle is left; the
\* inode is given back, but was initialised, when no entry can be added.
OpenCreate(name, mode) ==
    /\ find_in_dir(name) = -1
    /\ "CREAT" \in mode
    /\ \/ /\ FreeInodes = {}
          /\ Return(-1)
          /\ UNCHANGED <<inodeVars, dirVars, handleVars>>
       \/ /\ FreeInodes # {}
          /\ ~CanAddEntry(name)
          /\ inode_create(Min(FreeInodes))
          /\ Return(-1)
          /\ UNCHANGED <<inodesTaken, dirVars, handleVars>>
       \/ LET i == Min(FreeInodes)
              e == Min(EmptyEntries)
          IN  /\ FreeInodes # {}
              /\ CanAddEntry(name)
              /\ inodesTaken' = inodesTaken \cup {i}
              /\ inode_create(i)
              /\ dName' = [dName EXCEPT ![e] = name]
              /\ dInumber' = [dInumber EXCEPT ![e] = i]
              /\ add_to_open_file_table(i, 0)
    /\ UNCHANGED <<blockVars, status>>

OpenMissing(name, mode) ==
    /\ find_in_dir(name) = -1
    /\ "CREAT" \notin mode
    /\ Return(-1)
    /\ UNCHANGED <<inodeVars, blockVars, dirVars, handleVars, status>>

tfs_open(name, mode) ==
    /\ status = "running"
    /\ OpenExisting(name, mode) \/ OpenCreate(name, mode) \/ OpenMissing(name, mode)

\* A handle that is not open: every call on it fails.
BadHandle(h) ==
    /\ h \notin handlesTaken
    /\ Return(-1)
    /\ UNCHANGED <<inodeVars, blockVars, dirVars, handleVars, status>>

tfs_close(h) ==
    /\ status = "running"
    /\ \/ BadHandle(h)
       \/ /\ h \in handlesTaken
          /\ handlesTaken' = handlesTaken \ {h}
          /\ Return(0)
          /\ UNCHANGED <<inodeVars, blockVars, dirVars, ofInumber, ofOffset, status>>

\* size_t arithmetic.
Minus(a, b) == (a - b) % SizeModulus
Plus(a, b) == (a + b) % SizeModulus

\* The addresses a memcpy of n bytes at an offset of block b touches.
Span(b, offset, n) == b * BlockSize + offset .. b * BlockSize + offset + n - 1

\* The size after a write that ends at end.
SizeSet(size, end) == end
SizeGrown(size, end) == IF end > size THEN end ELSE size

\* tfs_write once the number of bytes n is known and the inode has block b.
StoreBytes(h, buffer, n, b) ==
    LET i == ofInumber[h]
        o == ofOffset[h]
        end == Plus(o, n)
    IN  IF n > Len(buffer) \/ ~(Span(b, o, n) \subseteq Addresses)
        THEN /\ status' = "undefined"
             /\ Return(-1)
             /\ UNCHANGED <<data, ofOffset, iSize>>
        ELSE /\ data' = [a \in Addresses |->
                            IF a \in Span(b, o, n)
                            THEN buffer[a - (b * BlockSize + o) + 1] ELSE data[a]]
             /\ ofOffset' = [ofOffset EXCEPT ![h] = end]
             /\ iSize' = [iSize EXCEPT ![i] = SizeGrown(@, end)]
             /\ Return(n)
             /\ UNCHANGED status

\* How many bytes fit: the sum and the difference are size_t.
WriteLengthOneMore(h, buffer) ==
    IF Plus(Len(buffer), ofOffset[h]) > BlockSize + 1
    THEN Minus(BlockSize + 1, ofOffset[h]) ELSE Len(buffer)
WriteLength(h, buffer) ==
    IF Plus(Len(buffer), ofOffset[h]) > BlockSize
    THEN Minus(BlockSize, ofOffset[h]) ELSE Len(buffer)

\* Only an empty file gets a block.
NeedsBlockAtStart(h) == ofOffset[h] = 0
NeedsBlock(h) == iSize[ofInumber[h]] = 0

tfs_write(h, buffer) ==
    /\ status = "running"
    /\ \/ BadHandle(h)
       \/ LET i == ofInumber[h]
              n == WriteLength(h, buffer)
          IN  /\ h \in handlesTaken
              /\ \/ /\ n = 0
                    /\ Return(0)
                    /\ UNCHANGED <<iSize, iBlock, blockVars, ofOffset, status>>
                 \/ /\ n > 0
                    /\ ~NeedsBlock(h)
                    /\ StoreBytes(h, buffer, n, iBlock[i])
                    /\ UNCHANGED <<iBlock, blocksTaken>>
                 \/ /\ n > 0
                    /\ NeedsBlock(h)
                    /\ FreeBlocks # {}
                    /\ blocksTaken' = blocksTaken \cup {Min(FreeBlocks)}
                    /\ iBlock' = [iBlock EXCEPT ![i] = Min(FreeBlocks)]
                    /\ StoreBytes(h, buffer, n, Min(FreeBlocks))
                 \/ /\ n > 0
                    /\ NeedsBlock(h)
                    /\ FreeBlocks = {}
                    /\ Return(-1)
                    /\ UNCHANGED <<iSize, iBlock, blockVars, ofOffset, status>>
              /\ UNCHANGED <<inodesTaken, dirVars, handlesTaken, ofInumber>>

\* The rest of the file from the offset on, at most len bytes; the difference
\* is a size_t, so an offset past the end leaves a huge rest.
ReadLengthUnclipped(h, len) == len
ReadLength(h, len) ==
    LET rest == Minus(iSize[ofInumber[h]], ofOffset[h])
    IN  IF rest > len THEN len ELSE rest

tfs_read(h, len) ==
    /\ status = "running"
    /\ \/ BadHandle(h)
       \/ LET b == iBlock[ofInumber[h]]
              n == ReadLength(h, len)
              start == b * BlockSize + ofOffset[h]
          IN  /\ h \in handlesTaken
              /\ IF n > 0 /\ b \notin Blocks
                 THEN status' = "panic" /\ Return(-1) /\ UNCHANGED ofOffset
                 ELSE IF n > 0 /\ ~(Span(b, ofOffset[h], n) \subseteq Addresses)
                 THEN status' = "undefined" /\ Return(-1) /\ UNCHANGED ofOffset
                 ELSE /\ returned' = [value |-> n,
                                      bytes |-> [k \in 1 .. n |-> data[start + k - 1]]]
                      /\ ofOffset' = [ofOffset EXCEPT ![h] = Plus(@, n)]
                      /\ UNCHANGED status
              /\ UNCHANGED <<inodeVars, blockVars, dirVars, handlesTaken, ofInumber>>

\* The inode goes first, open or not; then the entry.
tfs_unlink(name) ==
    LET i == find_in_dir(name)
    IN  /\ status = "running"
        /\ \/ /\ i = -1
              /\ Return(-1)
              /\ UNCHANGED <<inodeVars, blockVars, dirVars, status>>
           \/ /\ i # -1
              /\ inode_delete(i)
              /\ clear_dir_entry(name)
              /\ UNCHANGED <<iSize, iBlock, data>>
        /\ UNCHANGED handleVars

-----------------------------------------------------------------------------
Modes == SUBSET {"CREAT", "TRUNC", "APPEND"}
Payloads == UNION {[1 .. n -> {b}] : n \in 0 .. MaxLength, b \in Bytes}

Open ==
    \E name \in Paths, mode \in Modes :
        /\ "TRUNC" \in mode => MayDiscard(find_in_dir(name))
        /\ tfs_open(name, mode)
Close == \E h \in Handles : tfs_close(h)
Write == \E h \in Handles, buffer \in Payloads : tfs_write(h, buffer)
Read == \E h \in Handles, len \in 0 .. MaxLength : tfs_read(h, len)
Unlink ==
    \E name \in Paths : MayDiscard(find_in_dir(name)) /\ tfs_unlink(name)

\* The broker does not come back from a panic or undefined behaviour.
Dead == status # "running" /\ UNCHANGED vars

Next == Open \/ Close \/ Write \/ Read \/ Unlink \/ Dead

Spec == Init /\ [][Next]_vars

-----------------------------------------------------------------------------
ReturnValue == [value : Nat \cup {-1}, bytes : Seq(Bytes \cup {0})]

TypeOK ==
    /\ inodesTaken \subseteq Inodes
    /\ iSize \in [Inodes -> 0 .. SizeModulus - 1]
    /\ iBlock \in [Inodes -> Blocks \cup {-1}]
    /\ blocksTaken \subseteq Blocks
    /\ data \in [Addresses -> Bytes \cup {0}]
    /\ dName \in [Entries -> Names \cup {NoName}]
    /\ dInumber \in [Entries -> Inodes \cup {-1}]
    /\ handlesTaken \subseteq Handles
    /\ ofInumber \in [Handles -> Inodes]
    /\ ofOffset \in [Handles -> 0 .. SizeModulus - 1]
    /\ returned \in ReturnValue
    /\ status \in {"running", "panic", "undefined"}

UsedEntries == Entries \ EmptyEntries
Holders == {i \in inodesTaken : iSize[i] > 0}

\* The directory and the inode table agree: the inodes taken are the root and
\* one per entry, and no name occurs twice.
DirConsistent ==
    /\ inodesTaken = {Root} \cup {dInumber[e] : e \in UsedEntries}
    /\ \A e \in UsedEntries : dInumber[e] # Root
    /\ \A e, f \in UsedEntries :
            e # f => dName[e] # dName[f] /\ dInumber[e] # dInumber[f]
    /\ \A e \in Entries : dInumber[e] = -1 <=> dName[e] = NoName

\* No two files that exist share a block, none uses the block of the directory
\* and none uses a block that is free, whatever callers do with old handles.
LiveBlocksExclusive ==
    /\ iBlock[Root] = 0 /\ iSize[Root] = BlockSize
    /\ \A i \in Holders : iBlock[i] \in blocksTaken
    /\ \A i, j \in Holders : i # j => iBlock[i] # iBlock[j]

\* Every block that is taken belongs to a file that exists: none has leaked.
BlocksAccounted == blocksTaken = {iBlock[i] : i \in Holders}

\* "inode of open file deleted" (tfs_write, tfs_read) does not happen.
HandlesLive == \A h \in handlesTaken : ofInumber[h] \in inodesTaken \ {Root}

\* No handle is past the end of its file and no file is longer than its block.
OffsetsInside ==
    \A h \in handlesTaken :
        ofOffset[h] <= iSize[ofInumber[h]] /\ iSize[ofInumber[h]] <= BlockSize

\* No assertion fails and no copy leaves the memory it was given.
NeverDead == status = "running"

\* A read stops at the end of the file.
ReadsStayInside ==
    [][\A h \in handlesTaken : Read /\ ofOffset'[h] # ofOffset[h] =>
            ofOffset'[h] <= iSize[ofInumber[h]]]_vars

-----------------------------------------------------------------------------
(* Callers that leave open files alone see the files of FileStore.         *)

ContentsOf(i) == [k \in 1 .. iSize[i] |-> data[iBlock[i] * BlockSize + k - 1]]
NameOf(i) == dName[CHOOSE e \in UsedEntries : dInumber[e] = i]

VisibleFiles == [name \in {dName[e] : e \in UsedEntries} |-> ContentsOf(find_in_dir(name))]
VisibleHandles ==
    [h \in Handles |->
        IF h \in handlesTaken
        THEN [name |-> NameOf(ofInumber[h]), offset |-> ofOffset[h]]
        ELSE [name |-> NoName, offset |-> 0]]

Files == INSTANCE FileStore WITH
    MaxSize <- BlockSize, files <- VisibleFiles, opened <- VisibleHandles

\* Inodes, blocks, entries and handles that are reused never show.
ImplementsFileStore == Files!Spec

=============================================================================
