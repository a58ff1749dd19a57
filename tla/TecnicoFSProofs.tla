--------------------------- MODULE TecnicoFSProofs ---------------------------
(* Theorems about TecnicoFS, for tables of every size.                     *)
EXTENDS TecnicoFS, WellFoundedInduction, TLAPS

USE DEF NamesAssumption, TablesAssumption, InputsAssumption
USE NamesAssumption, TablesAssumption, InputsAssumption

-----------------------------------------------------------------------------
(* The searches from index 0 and the arithmetic of size_t                  *)

LEMMA MinIsLeast ==
    ASSUME NEW S \in SUBSET Nat, S # {}
    PROVE  Min(S) \in S /\ \A y \in S : Min(S) <= y
<1>1. \E x \in S : \A y \in S : x <= y
    <2> DEFINE Less == {ss \in Nat \X Nat : ss[1] < ss[2]}
    <2>1. OpToRel(<, Nat) = Less
        BY Zenon DEF OpToRel
    <2>2. \E x \in S : \A y \in S : <<y, x>> \notin Less
        BY <2>1, NatLessThanWellFounded, WFMin
    <2>3. \A x, y \in Nat : <<y, x>> \in Less <=> y < x
        OBVIOUS
    <2>4. PICK x \in S : \A y \in S : <<y, x>> \notin Less
        BY <2>2
    <2> HIDE DEF Less
    <2>5. \A y \in S : ~(y < x)
        BY <2>3, <2>4
    <2>6. \A y \in S : x <= y
        <3> TAKE y \in S
        <3>1. x \in Nat /\ y \in Nat
            OBVIOUS
        <3> QED
            BY <3>1, <2>5
    <2> QED
        BY <2>6
<1> QED
    BY <1>1 DEF Min

LEMMA SizeOf == ASSUME NEW a \in Int PROVE a % SizeModulus \in 0 .. SizeModulus - 1
OBVIOUS

LEMMA NoWrap == ASSUME NEW a \in 0 .. SizeModulus - 1 PROVE a % SizeModulus = a
OBVIOUS

\* The last bytes of a block are inside fs_data.
LEMMA BlockInside ==
    ASSUME NEW b \in Blocks, NEW n \in 0 .. BlockSize
    PROVE  b * BlockSize + n \in 0 .. BlockCount * BlockSize
<1>1. b \in Nat /\ BlockCount - (b + 1) \in Nat
    BY DEF Blocks
<1>2. b * BlockSize \in Nat /\ (BlockCount - (b + 1)) * BlockSize \in Nat
    BY <1>1
<1>3. (BlockCount - (b + 1)) * BlockSize = BlockCount * BlockSize - b * BlockSize - BlockSize
    BY <1>1
<1> QED
    BY <1>2, <1>3

-----------------------------------------------------------------------------
(* Types                                                                   *)

\* The buffers callers pass are sequences of bytes of a bounded length.
LEMMA PayloadIsBuffer ==
    ASSUME NEW buffer \in Payloads
    PROVE  /\ Len(buffer) \in 0 .. MaxLength
           /\ \A k \in 1 .. Len(buffer) : buffer[k] \in Bytes
<1>1. PICK n \in 0 .. MaxLength, b \in Bytes : buffer \in [1 .. n -> {b}]
    BY DEF Payloads
<1>2. buffer \in Seq({b}) /\ Len(buffer) = n
    BY <1>1
<1> QED
    BY <1>1, <1>2

LEMMA ReturnTypes ==
    ASSUME NEW n \in Nat \cup {-1}, Return(n)
    PROVE  returned' \in ReturnValue
<1>1. <<>> \in Seq(Bytes \cup {0})
    OBVIOUS
<1> QED
    BY <1>1 DEF Return, ReturnValue

\* find_in_dir answers -1 when no entry in use has the name, and otherwise
\* the inode of an entry in use that has it.
LEMMA FindAnswers ==
    ASSUME TypeOK, NEW name
    PROVE  \/ /\ find_in_dir(name) = -1
              /\ \A e \in UsedEntries : dName[e] # name
           \/ /\ find_in_dir(name) \in Inodes
              /\ \E e \in UsedEntries :
                    dName[e] = name /\ find_in_dir(name) = dInumber[e]
<1> DEFINE matches == {e \in Entries : dInumber[e] # -1 /\ dName[e] = name}
<1>1. matches = {e \in UsedEntries : dName[e] = name}
    BY DEF UsedEntries, EmptyEntries
<1>2. UsedEntries \subseteq Entries /\ Entries \subseteq Nat
    BY DEF UsedEntries, Entries
<1>3. CASE matches = {}
    <2>1. find_in_dir(name) = -1
        BY <1>3 DEF find_in_dir
    <2> QED
        BY <2>1, <1>1, <1>3
<1>4. CASE matches # {}
    <2>1. Min(matches) \in matches
        BY <1>1, <1>2, <1>4, MinIsLeast
    <2>2. find_in_dir(name) = dInumber[Min(matches)]
        BY <1>4 DEF find_in_dir
    <2>3. dInumber[Min(matches)] \in Inodes
        BY <2>1 DEF TypeOK
    <2> QED
        BY <2>1, <2>2, <2>3, <1>1
<1> QED
    BY <1>3, <1>4

\* A free index found from 0 on is an index that is free.
LEMMA FirstFree ==
    ASSUME TypeOK
    PROVE  /\ FreeInodes # {} => Min(FreeInodes) \in FreeInodes
           /\ FreeBlocks # {} => Min(FreeBlocks) \in FreeBlocks
           /\ FreeHandles # {} => Min(FreeHandles) \in FreeHandles
           /\ EmptyEntries # {} => Min(EmptyEntries) \in EmptyEntries
<1>1. FreeInodes \subseteq Nat /\ FreeBlocks \subseteq Nat
    BY DEF FreeInodes, FreeBlocks, Inodes, Blocks
<1>2. FreeHandles \subseteq Nat /\ EmptyEntries \subseteq Nat
    BY DEF FreeHandles, EmptyEntries, Handles, Entries
<1> QED
    BY <1>1, <1>2, MinIsLeast

LEMMA ReleaseTypes ==
    ASSUME TypeOK, NEW i, release_block(i)
    PROVE  blocksTaken' \subseteq Blocks /\ status' \in {"running", "panic", "undefined"}
BY DEF release_block, TypeOK

LEMMA ObtainTypes ==
    ASSUME TypeOK, NEW i \in Inodes, NEW o \in 0 .. SizeModulus - 1,
           add_to_open_file_table(i, o)
    PROVE  /\ handlesTaken' \subseteq Handles
           /\ ofInumber' \in [Handles -> Inodes]
           /\ ofOffset' \in [Handles -> 0 .. SizeModulus - 1]
           /\ returned' \in ReturnValue
<1>1. CASE FreeHandles = {}
    <2>1. Return(-1) /\ UNCHANGED handleVars
        BY <1>1 DEF add_to_open_file_table
    <2>2. returned' \in ReturnValue
        BY <2>1, ReturnTypes
    <2> QED
        BY <2>1, <2>2 DEF handleVars, TypeOK
<1>2. CASE FreeHandles # {}
    <2> DEFINE h == Min(FreeHandles)
    <2>1. h \in Handles
        BY <1>2, FirstFree DEF FreeHandles
    <2>2. /\ handlesTaken' = handlesTaken \cup {h}
          /\ ofInumber' = [ofInumber EXCEPT ![h] = i]
          /\ ofOffset' = [ofOffset EXCEPT ![h] = o]
          /\ Return(h)
        BY <1>2 DEF add_to_open_file_table
    <2>3. returned' \in ReturnValue
        <3>1. h \in Nat \cup {-1}
            BY <2>1 DEF Handles
        <3> HIDE DEF h
        <3> QED
            BY <2>2, <3>1, ReturnTypes
    <2> HIDE DEF h
    <2> QED
        BY <2>1, <2>2, <2>3 DEF TypeOK
<1> QED
    BY <1>1, <1>2

LEMMA CreateTypes ==
    ASSUME TypeOK, NEW i \in Inodes, inode_create(i)
    PROVE  /\ iSize' \in [Inodes -> 0 .. SizeModulus - 1]
           /\ iBlock' \in [Inodes -> Blocks \cup {-1}]
BY DEF inode_create, TypeOK

LEMMA OpenTypes ==
    ASSUME TypeOK, NEW name \in Paths, NEW mode \in Modes, tfs_open(name, mode)
    PROVE  TypeOK'
<1>1. CASE OpenExisting(name, mode)
    <2> DEFINE i == find_in_dir(name)
               size == IF "TRUNC" \in mode THEN 0 ELSE iSize[i]
               o == IF "APPEND" \in mode THEN size ELSE 0
    <2>1. i \in Inodes
        BY <1>1, FindAnswers DEF OpenExisting
    <2>2. add_to_open_file_table(i, o) /\ UNCHANGED <<inodesTaken, iBlock, data, dirVars>>
        BY <1>1 DEF OpenExisting
    <2>3. o \in 0 .. SizeModulus - 1
        BY <2>1 DEF TypeOK
    <2>4. /\ blocksTaken' \subseteq Blocks
          /\ status' \in {"running", "panic", "undefined"}
          /\ iSize' \in [Inodes -> 0 .. SizeModulus - 1]
        <3>1. CASE "TRUNC" \in mode
            <4>1. release_block(i) /\ iSize' = [iSize EXCEPT ![i] = 0]
                BY <1>1, <3>1 DEF OpenExisting
            <4> HIDE DEF i
            <4> QED
                BY <4>1, <2>1, ReleaseTypes DEF TypeOK
        <3>2. CASE "TRUNC" \notin mode
            BY <1>1, <3>2 DEF OpenExisting, TypeOK
        <3> QED
            BY <3>1, <3>2
    <2> HIDE DEF i, o
    <2>5. /\ handlesTaken' \subseteq Handles
          /\ ofInumber' \in [Handles -> Inodes]
          /\ ofOffset' \in [Handles -> 0 .. SizeModulus - 1]
          /\ returned' \in ReturnValue
        BY <2>1, <2>2, <2>3, ObtainTypes
    <2> QED
        BY <2>2, <2>4, <2>5 DEF TypeOK, dirVars
<1>2. CASE OpenCreate(name, mode)
    <2>1. UNCHANGED <<blocksTaken, data, status>>
        BY <1>2 DEF OpenCreate, blockVars
    <2>2. CASE FreeInodes = {} /\ Return(-1) /\ UNCHANGED <<inodeVars, dirVars, handleVars>>
        <3>1. returned' \in ReturnValue
            BY <2>2, ReturnTypes
        <3> QED
            BY <2>1, <2>2, <3>1 DEF TypeOK, inodeVars, dirVars, handleVars
    <2>3. CASE /\ FreeInodes # {}
               /\ inode_create(Min(FreeInodes))
               /\ Return(-1)
               /\ UNCHANGED <<inodesTaken, dirVars, handleVars>>
        <3>1. returned' \in ReturnValue
            BY <2>3, ReturnTypes
        <3>2. Min(FreeInodes) \in Inodes
            BY <2>3, FirstFree DEF FreeInodes
        <3>3. /\ iSize' \in [Inodes -> 0 .. SizeModulus - 1]
              /\ iBlock' \in [Inodes -> Blocks \cup {-1}]
            BY <2>3, <3>2, CreateTypes
        <3> QED
            BY <2>1, <2>3, <3>1, <3>3 DEF TypeOK, dirVars, handleVars
    <2>4. CASE /\ FreeInodes # {}
               /\ CanAddEntry(name)
               /\ inodesTaken' = inodesTaken \cup {Min(FreeInodes)}
               /\ inode_create(Min(FreeInodes))
               /\ dName' = [dName EXCEPT ![Min(EmptyEntries)] = name]
               /\ dInumber' = [dInumber EXCEPT ![Min(EmptyEntries)] = Min(FreeInodes)]
               /\ add_to_open_file_table(Min(FreeInodes), 0)
        <3>1. Min(FreeInodes) \in Inodes
            BY <2>4, FirstFree DEF FreeInodes
        <3>2. /\ iSize' \in [Inodes -> 0 .. SizeModulus - 1]
              /\ iBlock' \in [Inodes -> Blocks \cup {-1}]
            BY <2>4, <3>1, CreateTypes
        <3>3. /\ dName' \in [Entries -> Names \cup {NoName}]
              /\ dInumber' \in [Entries -> Inodes \cup {-1}]
            BY <2>4, <3>1 DEF TypeOK, CanAddEntry
        <3>4. /\ handlesTaken' \subseteq Handles
              /\ ofInumber' \in [Handles -> Inodes]
              /\ ofOffset' \in [Handles -> 0 .. SizeModulus - 1]
              /\ returned' \in ReturnValue
            BY <2>4, <3>1, ObtainTypes
        <3> QED
            BY <2>1, <2>4, <3>1, <3>2, <3>3, <3>4 DEF TypeOK
    <2> QED
        BY <1>2, <2>2, <2>3, <2>4 DEF OpenCreate
<1>3. CASE OpenMissing(name, mode)
    <2>1. returned' \in ReturnValue
        BY <1>3, ReturnTypes DEF OpenMissing
    <2> QED
        BY <1>3, <2>1 DEF OpenMissing, TypeOK, inodeVars, blockVars, dirVars, handleVars
<1> QED
    BY <1>1, <1>2, <1>3 DEF tfs_open

LEMMA BadHandleTypes ==
    ASSUME TypeOK, NEW h, BadHandle(h)
    PROVE  TypeOK'
<1>1. returned' \in ReturnValue
    BY ReturnTypes DEF BadHandle
<1> QED
    BY <1>1 DEF BadHandle, TypeOK, inodeVars, blockVars, dirVars, handleVars

LEMMA CloseTypes ==
    ASSUME TypeOK, NEW h, tfs_close(h)
    PROVE  TypeOK'
<1>1. CASE BadHandle(h)
    BY <1>1, BadHandleTypes
<1>2. CASE ~BadHandle(h)
    <2>1. returned' \in ReturnValue
        BY <1>2, ReturnTypes DEF tfs_close
    <2> QED
        BY <1>2, <2>1 DEF tfs_close, TypeOK, inodeVars, blockVars, dirVars
<1> QED
    BY <1>1, <1>2

\* What a write stores are bytes of the buffer or bytes that were there.
LEMMA StoreTypes ==
    ASSUME TypeOK, NEW h \in Handles, NEW buffer \in Payloads,
           NEW n \in Nat, NEW b \in Blocks \cup {-1}, StoreBytes(h, buffer, n, b)
    PROVE  /\ data' \in [Addresses -> Bytes \cup {0}]
           /\ ofOffset' \in [Handles -> 0 .. SizeModulus - 1]
           /\ iSize' \in [Inodes -> 0 .. SizeModulus - 1]
           /\ returned' \in ReturnValue
           /\ status' \in {"running", "panic", "undefined"}
<1> DEFINE i == ofInumber[h]
           o == ofOffset[h]
           end == Plus(o, n)
<1>1. i \in Inodes /\ o \in 0 .. SizeModulus - 1 /\ iSize[i] \in 0 .. SizeModulus - 1
    BY DEF TypeOK
<1>2. end \in 0 .. SizeModulus - 1
    BY <1>1, SizeOf DEF Plus
<1>3. CASE n > Len(buffer) \/ ~(Span(b, o, n) \subseteq Addresses)
    <2>1. /\ status' = "undefined" /\ Return(-1)
          /\ UNCHANGED <<data, ofOffset, iSize>>
        BY <1>3 DEF StoreBytes
    <2> QED
        BY <2>1, ReturnTypes DEF TypeOK
<1>4. CASE ~(n > Len(buffer)) /\ Span(b, o, n) \subseteq Addresses
    <2>1. /\ data' = [a \in Addresses |->
                        IF a \in Span(b, o, n)
                        THEN buffer[a - (b * BlockSize + o) + 1] ELSE data[a]]
          /\ ofOffset' = [ofOffset EXCEPT ![h] = end]
          /\ iSize' = [iSize EXCEPT ![i] = SizeGrown(@, end)]
          /\ Return(n)
          /\ UNCHANGED status
        BY <1>4 DEF StoreBytes
    <2>2. SizeGrown(iSize[i], end) \in 0 .. SizeModulus - 1
        BY <1>1, <1>2 DEF SizeGrown
    <2>3. \A a \in Span(b, o, n) : buffer[a - (b * BlockSize + o) + 1] \in Bytes
        <3> TAKE a \in Span(b, o, n)
        <3>1. b * BlockSize \in Int
            BY DEF Blocks
        <3>2. a - (b * BlockSize + o) + 1 \in 1 .. n
            BY <3>1, <1>1 DEF Span
        <3>3. n <= Len(buffer)
            BY <1>4, PayloadIsBuffer
        <3> QED
            BY <3>2, <3>3, PayloadIsBuffer
    <2>4. data' \in [Addresses -> Bytes \cup {0}]
        BY <2>1, <2>3 DEF TypeOK
    <2>5. returned' \in ReturnValue
        BY <2>1, ReturnTypes
    <2> HIDE DEF end, i
    <2> QED
        BY <1>1, <1>2, <2>1, <2>2, <2>4, <2>5 DEF TypeOK
<1> QED
    BY <1>3, <1>4

\* The number of bytes of a write or a read is a size_t, whatever wraps.
LEMMA LengthTypes ==
    ASSUME TypeOK, NEW h \in Handles
    PROVE  /\ \A buffer \in Payloads : WriteLength(h, buffer) \in Nat
           /\ \A len \in 0 .. MaxLength : ReadLength(h, len) \in Nat
<1>1. ofOffset[h] \in 0 .. SizeModulus - 1 /\ iSize[ofInumber[h]] \in 0 .. SizeModulus - 1
    BY DEF TypeOK
<1>2. \A buffer \in Payloads : WriteLength(h, buffer) \in Nat
    <2> TAKE buffer \in Payloads
    <2>1. Minus(BlockSize, ofOffset[h]) \in Nat
        BY <1>1, SizeOf DEF Minus
    <2> QED
        BY <2>1, PayloadIsBuffer DEF WriteLength
<1>3. \A len \in 0 .. MaxLength : ReadLength(h, len) \in Nat
    <2> TAKE len \in 0 .. MaxLength
    <2>1. Minus(iSize[ofInumber[h]], ofOffset[h]) \in Nat
        BY <1>1, SizeOf DEF Minus
    <2> QED
        BY <2>1 DEF ReadLength
<1> QED
    BY <1>2, <1>3

\* A write to an open file, one disjunct after the other.
LEMMA WriteCases ==
    ASSUME NEW h, NEW buffer, tfs_write(h, buffer), ~BadHandle(h)
    PROVE  /\ h \in handlesTaken
           /\ status = "running"
           /\ UNCHANGED <<inodesTaken, dName, dInumber, handlesTaken, ofInumber>>
           /\ \/ /\ WriteLength(h, buffer) = 0
                 /\ Return(0)
                 /\ UNCHANGED <<iSize, iBlock, blocksTaken, data, ofOffset, status>>
              \/ /\ WriteLength(h, buffer) > 0
                 /\ iSize[ofInumber[h]] # 0
                 /\ StoreBytes(h, buffer, WriteLength(h, buffer), iBlock[ofInumber[h]])
                 /\ UNCHANGED <<iBlock, blocksTaken>>
              \/ /\ WriteLength(h, buffer) > 0
                 /\ iSize[ofInumber[h]] = 0
                 /\ FreeBlocks # {}
                 /\ blocksTaken' = blocksTaken \cup {Min(FreeBlocks)}
                 /\ iBlock' = [iBlock EXCEPT ![ofInumber[h]] = Min(FreeBlocks)]
                 /\ StoreBytes(h, buffer, WriteLength(h, buffer), Min(FreeBlocks))
              \/ /\ WriteLength(h, buffer) > 0
                 /\ iSize[ofInumber[h]] = 0
                 /\ FreeBlocks = {}
                 /\ Return(-1)
                 /\ UNCHANGED <<iSize, iBlock, blocksTaken, data, ofOffset, status>>
BY Zenon DEF tfs_write, NeedsBlock, blockVars, dirVars

LEMMA WriteTypes ==
    ASSUME TypeOK, NEW h \in Handles, NEW buffer \in Payloads, tfs_write(h, buffer)
    PROVE  TypeOK'
<1> DEFINE i == ofInumber[h]
           n == WriteLength(h, buffer)
<1>1. CASE BadHandle(h)
    BY <1>1, BadHandleTypes
<1>2. CASE ~BadHandle(h)
    <2>1. n \in Nat /\ i \in Inodes
        BY LengthTypes DEF TypeOK
    <2>2. UNCHANGED <<inodesTaken, dName, dInumber, handlesTaken, ofInumber>>
        BY <1>2, WriteCases
    <2>3. CASE UNCHANGED <<iSize, iBlock, blocksTaken, data, ofOffset, status>> /\ (Return(0) \/ Return(-1))
        <3>1. returned' \in ReturnValue
            BY <2>3, ReturnTypes
        <3> QED
            BY <2>2, <2>3, <3>1 DEF TypeOK
    <2>4. CASE StoreBytes(h, buffer, n, iBlock[i]) /\ UNCHANGED <<iBlock, blocksTaken>>
        <3>1. iBlock[i] \in Blocks \cup {-1}
            BY <2>1 DEF TypeOK
        <3> HIDE DEF n, i
        <3> QED
            BY <2>1, <2>2, <2>4, <3>1, StoreTypes DEF TypeOK
    <2>5. CASE /\ FreeBlocks # {}
               /\ blocksTaken' = blocksTaken \cup {Min(FreeBlocks)}
               /\ iBlock' = [iBlock EXCEPT ![i] = Min(FreeBlocks)]
               /\ StoreBytes(h, buffer, n, Min(FreeBlocks))
        <3>1. Min(FreeBlocks) \in Blocks
            BY <2>5, FirstFree DEF FreeBlocks
        <3>2. iBlock' \in [Inodes -> Blocks \cup {-1}] /\ blocksTaken' \subseteq Blocks
            BY <2>1, <2>5, <3>1 DEF TypeOK
        <3> HIDE DEF n, i
        <3> QED
            BY <2>1, <2>2, <2>5, <3>1, <3>2, StoreTypes DEF TypeOK
    <2> QED
        BY <1>2, <2>3, <2>4, <2>5, WriteCases
<1> QED
    BY <1>1, <1>2

\* A read of an open file.
LEMMA ReadCases ==
    ASSUME NEW h, NEW len, tfs_read(h, len), ~BadHandle(h)
    PROVE  LET b == iBlock[ofInumber[h]]
               n == ReadLength(h, len)
           IN  /\ h \in handlesTaken
               /\ UNCHANGED <<inodesTaken, iSize, iBlock, blocksTaken, data,
                              dName, dInumber, handlesTaken, ofInumber>>
               /\ \/ /\ n > 0 /\ (b \notin Blocks \/ ~(Span(b, ofOffset[h], n) \subseteq Addresses))
                     /\ status' \in {"panic", "undefined"} /\ Return(-1)
                     /\ UNCHANGED ofOffset
                  \/ /\ n > 0 => b \in Blocks /\ Span(b, ofOffset[h], n) \subseteq Addresses
                     /\ returned' =
                            [value |-> n,
                             bytes |-> [k \in 1 .. n |-> data[b * BlockSize + ofOffset[h] + k - 1]]]
                     /\ ofOffset' = [ofOffset EXCEPT ![h] = Plus(@, n)]
                     /\ UNCHANGED status
BY DEF tfs_read, inodeVars, blockVars, dirVars

LEMMA ReadTypes ==
    ASSUME TypeOK, NEW h \in Handles, NEW len \in 0 .. MaxLength, tfs_read(h, len)
    PROVE  TypeOK'
<1> DEFINE b == iBlock[ofInumber[h]]
           n == ReadLength(h, len)
           start == b * BlockSize + ofOffset[h]
<1>1. CASE BadHandle(h)
    BY <1>1, BadHandleTypes
<1>2. CASE ~BadHandle(h)
    <2>1. n \in Nat
        BY LengthTypes
    <2>2. UNCHANGED <<inodesTaken, iSize, iBlock, blocksTaken, data,
                      dName, dInumber, handlesTaken, ofInumber>>
        BY <1>2, ReadCases
    <2>3. CASE /\ status' \in {"panic", "undefined"} /\ Return(-1)
               /\ UNCHANGED ofOffset
        BY <2>2, <2>3, ReturnTypes DEF TypeOK
    <2>4. CASE /\ n > 0 => b \in Blocks /\ Span(b, ofOffset[h], n) \subseteq Addresses
               /\ returned' = [value |-> n,
                               bytes |-> [k \in 1 .. n |-> data[start + k - 1]]]
               /\ ofOffset' = [ofOffset EXCEPT ![h] = Plus(@, n)]
               /\ UNCHANGED status
        <3>1. b \in Int /\ ofOffset[h] \in 0 .. SizeModulus - 1
            BY DEF TypeOK, Blocks
        <3>2. Plus(ofOffset[h], n) \in 0 .. SizeModulus - 1
            BY <2>1, <3>1, SizeOf DEF Plus
        <3>3. \A k \in 1 .. n : data[start + k - 1] \in Bytes \cup {0}
            <4> TAKE k \in 1 .. n
            <4>1. n > 0 /\ start + k - 1 \in Span(b, ofOffset[h], n)
                <5>1. b * BlockSize \in Int
                    BY <3>1
                <5> QED
                    BY <2>1, <3>1, <5>1 DEF Span
            <4>2. start + k - 1 \in Addresses
                BY <2>4, <4>1
            <4> QED
                BY <4>2 DEF TypeOK
        <3>4. [k \in 1 .. n |-> data[start + k - 1]] \in Seq(Bytes \cup {0})
            BY <2>1, <3>3
        <3>5. returned' \in ReturnValue
            BY <2>1, <2>4, <3>4 DEF ReturnValue
        <3>6. ofOffset' \in [Handles -> 0 .. SizeModulus - 1]
            BY <2>4, <3>2 DEF TypeOK
        <3> QED
            BY <2>2, <2>4, <3>5, <3>6 DEF TypeOK
    <2> QED
        BY <1>2, <2>3, <2>4, ReadCases
<1> QED
    BY <1>1, <1>2

\* clear_dir_entry empties one entry, or answers -1 and changes nothing.
LEMMA ClearTypes ==
    ASSUME TypeOK, NEW name, clear_dir_entry(name)
    PROVE  /\ dName' \in [Entries -> Names \cup {NoName}]
           /\ dInumber' \in [Entries -> Inodes \cup {-1}]
           /\ returned' \in ReturnValue
<1>1. returned' \in ReturnValue
    BY ReturnTypes DEF clear_dir_entry
<1> QED
    BY <1>1 DEF clear_dir_entry, dirVars, TypeOK

LEMMA DeleteTypes ==
    ASSUME TypeOK, NEW i \in Inodes, inode_delete(i)
    PROVE  /\ inodesTaken' \subseteq Inodes
           /\ blocksTaken' \subseteq Blocks
           /\ status' \in {"running", "panic", "undefined"}
BY ReleaseTypes DEF inode_delete, TypeOK

LEMMA UnlinkTypes ==
    ASSUME TypeOK, NEW name \in Paths, tfs_unlink(name)
    PROVE  TypeOK'
<1> DEFINE i == find_in_dir(name)
<1>1. CASE i = -1 /\ Return(-1) /\ UNCHANGED <<inodeVars, blockVars, dirVars, status>>
    <2>1. returned' \in ReturnValue
        BY <1>1, ReturnTypes
    <2> QED
        BY <1>1, <2>1 DEF tfs_unlink, TypeOK, inodeVars, blockVars, dirVars, handleVars
<1>2. CASE i # -1 /\ inode_delete(i) /\ clear_dir_entry(name) /\ UNCHANGED <<iSize, iBlock, data>>
    <2>1. i \in Inodes
        BY <1>2, FindAnswers
    <2> HIDE DEF i
    <2>2. /\ inodesTaken' \subseteq Inodes
          /\ blocksTaken' \subseteq Blocks
          /\ status' \in {"running", "panic", "undefined"}
        BY <1>2, <2>1, DeleteTypes
    <2>3. /\ dName' \in [Entries -> Names \cup {NoName}]
          /\ dInumber' \in [Entries -> Inodes \cup {-1}]
          /\ returned' \in ReturnValue
        BY <1>2, ClearTypes
    <2> QED
        BY <1>2, <2>2, <2>3 DEF tfs_unlink, TypeOK, handleVars
<1> QED
    BY <1>1, <1>2 DEF tfs_unlink

LEMMA InitTypes == Init => TypeOK
<1> SUFFICES ASSUME Init PROVE TypeOK
    OBVIOUS
<1>1. BlockSize \in 0 .. SizeModulus - 1 /\ 0 \in 0 .. SizeModulus - 1
    OBVIOUS
<1>2. Root \in Inodes /\ 0 \in Inodes /\ 0 \in Blocks
    BY DEF Root, Inodes, Blocks
<1>3. returned \in ReturnValue
    <2>1. <<>> \in Seq(Bytes \cup {0})
        OBVIOUS
    <2> QED
        BY <2>1 DEF Init, ReturnValue
<1> QED
    BY <1>1, <1>2, <1>3 DEF Init, TypeOK

\* Every variable of the file system keeps its type, whatever callers do: the
\* tables stay inside their bounds and sizes and offsets inside a size_t.
THEOREM TypeCorrect == Spec => []TypeOK
<1>1. Init => TypeOK
    BY InitTypes
<1>2. TypeOK /\ [Next]_vars => TypeOK'
    <2> SUFFICES ASSUME TypeOK, [Next]_vars PROVE TypeOK'
        OBVIOUS
    <2>1. CASE Open
        BY <2>1, OpenTypes DEF Open
    <2>2. CASE Close
        BY <2>2, CloseTypes DEF Close
    <2>3. CASE Write
        BY <2>3, WriteTypes DEF Write
    <2>4. CASE Read
        BY <2>4, ReadTypes DEF Read
    <2>5. CASE Unlink
        BY <2>5, UnlinkTypes DEF Unlink
    <2>6. CASE UNCHANGED vars
        BY <2>6 DEF vars, inodeVars, blockVars, dirVars, handleVars, TypeOK
    <2> QED
        BY <2>1, <2>2, <2>3, <2>4, <2>5, <2>6 DEF Next, Dead
<1> QED
    BY <1>1, <1>2, PTL DEF Spec

-----------------------------------------------------------------------------
(* The directory                                                           *)

\* What a call of tfs_open does, with the inode and the entry it works on:
\* the file exists; nothing changes; an inode is initialised and given back;
\* the file is created.
LEMMA OpenCases ==
    ASSUME TypeOK, NEW name \in Paths, NEW mode, tfs_open(name, mode)
    PROVE  /\ status = "running" /\ UNCHANGED data
           /\ \/ \E i \in Inodes, e \in UsedEntries :
                    /\ i = find_in_dir(name) /\ dName[e] = name /\ i = dInumber[e]
                    /\ IF "TRUNC" \in mode
                       THEN release_block(i) /\ iSize' = [iSize EXCEPT ![i] = 0]
                       ELSE UNCHANGED <<blocksTaken, status, iSize>>
                    /\ add_to_open_file_table(i, IF "APPEND" \in mode /\ "TRUNC" \notin mode
                                                 THEN iSize[i] ELSE 0)
                    /\ UNCHANGED <<inodesTaken, iBlock, dName, dInumber>>
              \/ /\ Return(-1)
                 /\ find_in_dir(name) = -1
                 /\ UNCHANGED <<inodesTaken, iSize, iBlock, blocksTaken, dName, dInumber,
                                handlesTaken, ofInumber, ofOffset, status>>
              \/ \E i \in FreeInodes :
                    /\ find_in_dir(name) = -1
                    /\ inode_create(i)
                    /\ Return(-1)
                    /\ UNCHANGED <<inodesTaken, blocksTaken, dName, dInumber,
                                   handlesTaken, ofInumber, ofOffset, status>>
              \/ \E i \in FreeInodes, e \in EmptyEntries :
                    /\ name \in Names /\ "CREAT" \in mode
                    /\ find_in_dir(name) = -1
                    /\ \A f \in UsedEntries : dName[f] # name
                    /\ inodesTaken' = inodesTaken \cup {i}
                    /\ inode_create(i)
                    /\ dName' = [dName EXCEPT ![e] = name]
                    /\ dInumber' = [dInumber EXCEPT ![e] = i]
                    /\ add_to_open_file_table(i, 0)
                    /\ UNCHANGED <<blocksTaken, status>>
<1>1. CASE OpenExisting(name, mode)
    <2> DEFINE i == find_in_dir(name)
    <2>1. i \in Inodes /\ \E e \in UsedEntries : dName[e] = name /\ i = dInumber[e]
        BY <1>1, FindAnswers DEF OpenExisting
    <2>2. /\ IF "TRUNC" \in mode
             THEN release_block(i) /\ iSize' = [iSize EXCEPT ![i] = 0]
             ELSE UNCHANGED <<blocksTaken, status, iSize>>
          /\ add_to_open_file_table(i, IF "APPEND" \in mode /\ "TRUNC" \notin mode
                                       THEN iSize[i] ELSE 0)
          /\ UNCHANGED <<inodesTaken, iBlock, data, dName, dInumber>>
        <3>1. (IF "APPEND" \in mode THEN (IF "TRUNC" \in mode THEN 0 ELSE iSize[i]) ELSE 0)
              = IF "APPEND" \in mode /\ "TRUNC" \notin mode THEN iSize[i] ELSE 0
            OBVIOUS
        <3> QED
            BY Zenon, <1>1, <3>1 DEF OpenExisting, dirVars
    <2> HIDE DEF i
    <2>3. i = find_in_dir(name)
        BY DEF i
    <2> QED
        BY Zenon, <2>1, <2>2, <2>3 DEF tfs_open
<1>2. CASE OpenCreate(name, mode)
    <2>1. find_in_dir(name) = -1 /\ UNCHANGED <<blocksTaken, data, status>>
        BY <1>2 DEF OpenCreate, blockVars
    <2>2. \A f \in UsedEntries : dName[f] # name
        BY <2>1, FindAnswers DEF Inodes
    <2>3. CASE FreeInodes = {} /\ Return(-1) /\ UNCHANGED <<inodeVars, dirVars, handleVars>>
        BY <2>1, <2>3 DEF tfs_open, inodeVars, dirVars, handleVars
    <2>4. CASE /\ FreeInodes # {}
               /\ inode_create(Min(FreeInodes))
               /\ Return(-1)
               /\ UNCHANGED <<inodesTaken, dirVars, handleVars>>
        <3>1. Min(FreeInodes) \in FreeInodes
            BY <2>4, FirstFree
        <3> QED
            BY Zenon, <2>1, <2>4, <3>1 DEF tfs_open, dirVars, handleVars
    <2>5. CASE /\ FreeInodes # {}
               /\ CanAddEntry(name)
               /\ inodesTaken' = inodesTaken \cup {Min(FreeInodes)}
               /\ inode_create(Min(FreeInodes))
               /\ dName' = [dName EXCEPT ![Min(EmptyEntries)] = name]
               /\ dInumber' = [dInumber EXCEPT ![Min(EmptyEntries)] = Min(FreeInodes)]
               /\ add_to_open_file_table(Min(FreeInodes), 0)
        <3>1. Min(FreeInodes) \in FreeInodes /\ Min(EmptyEntries) \in EmptyEntries
            BY <2>5, FirstFree DEF CanAddEntry
        <3>2. "CREAT" \in mode /\ name \in Names /\ status = "running"
            BY <1>2, <2>5 DEF OpenCreate, CanAddEntry, tfs_open
        <3> QED
            BY Zenon, <2>1, <2>2, <2>5, <3>1, <3>2
    <2> QED
        BY Zenon, <1>2, <2>3, <2>4, <2>5 DEF OpenCreate
<1>3. CASE OpenMissing(name, mode)
    BY <1>3 DEF tfs_open, OpenMissing, inodeVars, blockVars, dirVars, handleVars
<1> QED
    BY <1>1, <1>2, <1>3 DEF tfs_open

\* Unused entries have no name, so the entry clear_dir_entry picks by its name
\* alone is the one find_in_dir found.
LEMMA ClearedEntry ==
    ASSUME TypeOK, DirConsistent, NEW name \in Paths, NEW e \in UsedEntries,
           dName[e] = name, clear_dir_entry(name)
    PROVE  /\ dInumber' = [dInumber EXCEPT ![e] = -1]
           /\ dName' = [dName EXCEPT ![e] = NoName]
           /\ Return(0)
<1> DEFINE matches == {f \in Entries : dName[f] = name}
<1>1. matches = {e}
    <2>1. \A f \in matches : f \in UsedEntries
        BY DEF DirConsistent, UsedEntries, EmptyEntries
    <2>2. e \in matches
        BY DEF UsedEntries
    <2> QED
        BY <2>1, <2>2 DEF DirConsistent
<1>2. Min(matches) = e
    <2>1. {e} \subseteq Nat
        BY DEF UsedEntries, Entries
    <2> QED
        BY <1>1, <2>1, MinIsLeast
<1> QED
    BY <1>1, <1>2 DEF clear_dir_entry

\* What a call of tfs_unlink does to a file that exists.
LEMMA UnlinkCases ==
    ASSUME TypeOK, DirConsistent, NEW name \in Paths, tfs_unlink(name)
    PROVE  /\ status = "running"
           /\ UNCHANGED <<iSize, iBlock, data, handlesTaken, ofInumber, ofOffset>>
           /\ \/ /\ find_in_dir(name) = -1
                 /\ Return(-1)
                 /\ UNCHANGED <<inodesTaken, blocksTaken, dName, dInumber, status>>
              \/ \E e \in UsedEntries :
                    /\ dName[e] = name /\ dInumber[e] = find_in_dir(name)
                    /\ inodesTaken' = inodesTaken \ {dInumber[e]}
                    /\ release_block(dInumber[e])
                    /\ dInumber' = [dInumber EXCEPT ![e] = -1]
                    /\ dName' = [dName EXCEPT ![e] = NoName]
                    /\ Return(0)
<1> DEFINE i == find_in_dir(name)
<1>1. CASE i = -1 /\ Return(-1) /\ UNCHANGED <<inodeVars, blockVars, dirVars, status>>
    BY <1>1 DEF tfs_unlink, inodeVars, blockVars, dirVars, handleVars
<1>2. CASE i # -1 /\ inode_delete(i) /\ clear_dir_entry(name) /\ UNCHANGED <<iSize, iBlock, data>>
    <2>1. PICK e \in UsedEntries : dName[e] = name /\ dInumber[e] = i
        BY <1>2, FindAnswers
    <2>2. i \in inodesTaken
        BY <2>1 DEF DirConsistent
    <2>3. inodesTaken' = inodesTaken \ {i} /\ release_block(i)
        BY <1>2, <2>2 DEF inode_delete
    <2>4. /\ dInumber' = [dInumber EXCEPT ![e] = -1]
          /\ dName' = [dName EXCEPT ![e] = NoName]
          /\ Return(0)
        BY <1>2, <2>1, ClearedEntry
    <2>5. UNCHANGED <<handlesTaken, ofInumber, ofOffset>> /\ status = "running"
        BY DEF tfs_unlink, handleVars
    <2> HIDE DEF i
    <2>6. dInumber[e] = find_in_dir(name)
        BY <2>1 DEF i
    <2> QED
        BY Zenon, <1>2, <2>1, <2>3, <2>4, <2>5, <2>6
<1> QED
    BY <1>1, <1>2 DEF tfs_unlink

LEMMA OpenKeepsDirectory ==
    ASSUME TypeOK, DirConsistent, NEW name \in Paths, NEW mode, tfs_open(name, mode)
    PROVE  DirConsistent'
<1>1. CASE UNCHANGED <<inodesTaken, dName, dInumber>>
    BY <1>1 DEF DirConsistent, UsedEntries, EmptyEntries
<1>2. ASSUME NEW i \in FreeInodes, NEW e \in EmptyEntries, name \in Names,
             \A f \in UsedEntries : dName[f] # name,
             inodesTaken' = inodesTaken \cup {i},
             dName' = [dName EXCEPT ![e] = name],
             dInumber' = [dInumber EXCEPT ![e] = i]
      PROVE  DirConsistent'
    <2>1. i \in Inodes /\ i \notin inodesTaken /\ i # -1
        BY DEF FreeInodes, Inodes
    <2>2. e \in Entries /\ e \notin UsedEntries
        BY DEF EmptyEntries, UsedEntries
    <2>3. /\ dName'[e] = name /\ dInumber'[e] = i
          /\ \A f \in Entries : f # e => dName'[f] = dName[f] /\ dInumber'[f] = dInumber[f]
        BY <1>2, <2>2 DEF TypeOK
    <2>4. UsedEntries' = UsedEntries \cup {e}
        BY <2>1, <2>2, <2>3 DEF UsedEntries, EmptyEntries
    <2>5. UsedEntries \subseteq Entries
        BY DEF UsedEntries
    <2>6. inodesTaken' = {Root} \cup {dInumber'[f] : f \in UsedEntries'}
        <3>1. {dInumber'[f] : f \in UsedEntries'} = {dInumber[f] : f \in UsedEntries} \cup {i}
            BY <2>2, <2>3, <2>4, <2>5
        <3> QED
            BY <1>2, <3>1 DEF DirConsistent
    <2>7. \A f \in UsedEntries' : dInumber'[f] # Root
        BY <2>1, <2>2, <2>3, <2>4, <2>5 DEF DirConsistent
    <2>8. \A f \in UsedEntries : dInumber[f] # i
        BY <2>1 DEF DirConsistent
    <2>9. \A f, g \in UsedEntries' :
                f # g => dName'[f] # dName'[g] /\ dInumber'[f] # dInumber'[g]
        BY <1>2, <2>2, <2>3, <2>4, <2>5, <2>8 DEF DirConsistent
    <2>10. \A f \in Entries : dInumber'[f] = -1 <=> dName'[f] = NoName
        <3>1. name # NoName
            BY <1>2 DEF Paths
        <3> QED
            BY <2>1, <2>3, <3>1 DEF DirConsistent
    <2> QED
        BY <2>6, <2>7, <2>9, <2>10 DEF DirConsistent
<1> QED
    BY <1>1, <1>2, OpenCases

LEMMA UnlinkKeepsDirectory ==
    ASSUME TypeOK, DirConsistent, NEW name \in Paths, tfs_unlink(name)
    PROVE  DirConsistent'
<1>1. CASE UNCHANGED <<inodesTaken, dName, dInumber>>
    BY <1>1 DEF DirConsistent, UsedEntries, EmptyEntries
<1>2. ASSUME NEW e \in UsedEntries,
             inodesTaken' = inodesTaken \ {dInumber[e]},
             dInumber' = [dInumber EXCEPT ![e] = -1],
             dName' = [dName EXCEPT ![e] = NoName]
      PROVE  DirConsistent'
    <2>1. UsedEntries \subseteq Entries /\ e \in Entries
        BY DEF UsedEntries
    <2>2. /\ dName'[e] = NoName /\ dInumber'[e] = -1
          /\ \A f \in Entries : f # e => dName'[f] = dName[f] /\ dInumber'[f] = dInumber[f]
        BY <1>2, <2>1 DEF TypeOK
    <2>3. UsedEntries' = UsedEntries \ {e}
        BY <2>1, <2>2 DEF UsedEntries, EmptyEntries
    <2>4. inodesTaken' = {Root} \cup {dInumber'[f] : f \in UsedEntries'}
        <3>1. {dInumber'[f] : f \in UsedEntries'} = {dInumber[f] : f \in UsedEntries \ {e}}
            BY <2>1, <2>2, <2>3
        <3>2. {dInumber[f] : f \in UsedEntries \ {e}}
              = {dInumber[f] : f \in UsedEntries} \ {dInumber[e]}
            BY DEF DirConsistent
        <3>3. Root # dInumber[e]
            BY DEF DirConsistent
        <3> QED
            BY <1>2, <3>1, <3>2, <3>3 DEF DirConsistent
    <2>5. /\ \A f \in UsedEntries' : dInumber'[f] # Root
          /\ \A f, g \in UsedEntries' :
                f # g => dName'[f] # dName'[g] /\ dInumber'[f] # dInumber'[g]
        BY <2>1, <2>2, <2>3 DEF DirConsistent
    <2>6. \A f \in Entries : dInumber'[f] = -1 <=> dName'[f] = NoName
        BY <2>2 DEF DirConsistent
    <2> QED
        BY <2>4, <2>5, <2>6 DEF DirConsistent
<1> QED
    BY <1>1, <1>2, UnlinkCases

LEMMA InitDirectory == Init => DirConsistent
BY DEF Init, DirConsistent, UsedEntries, EmptyEntries

\* The directory and the inode table agree, also when an open fails half way
\* for want of an inode, an entry or a handle.
THEOREM DirectoryConsistent == Spec => []DirConsistent
<1>1. Init => DirConsistent
    BY InitDirectory
<1>2. TypeOK /\ DirConsistent /\ [Next]_vars => DirConsistent'
    <2> SUFFICES ASSUME TypeOK, DirConsistent, [Next]_vars PROVE DirConsistent'
        OBVIOUS
    <2>1. CASE Open
        BY <2>1, OpenKeepsDirectory DEF Open
    <2>2. CASE Unlink
        BY <2>2, UnlinkKeepsDirectory DEF Unlink
    <2>3. CASE UNCHANGED <<inodesTaken, dName, dInumber>>
        BY <2>3 DEF DirConsistent, UsedEntries, EmptyEntries
    <2>4. CASE Close
        BY <2>3, <2>4 DEF Close, tfs_close, BadHandle, inodeVars, dirVars
    <2>5. CASE Write
        BY <2>3, <2>5 DEF Write, tfs_write, BadHandle, inodeVars, dirVars
    <2>6. CASE Read
        BY <2>3, <2>6 DEF Read, tfs_read, BadHandle, inodeVars, dirVars
    <2>7. CASE UNCHANGED vars
        BY <2>3, <2>7 DEF vars, inodeVars, dirVars
    <2> QED
        BY <2>1, <2>2, <2>4, <2>5, <2>6, <2>7 DEF Next, Dead
<1> QED
    BY <1>1, <1>2, TypeCorrect, PTL DEF Spec

-----------------------------------------------------------------------------
(* The blocks                                                              *)

\* No handle is on the directory itself: find_in_dir never answers Root.
HandlesOffRoot == \A h \in handlesTaken : ofInumber[h] # Root

LEMMA InodesInside ==
    ASSUME TypeOK
    PROVE  Holders \subseteq Inodes /\ inodesTaken \subseteq Inodes /\ Root \in Inodes
<1>1. Root \in Inodes
    BY DEF Root, Inodes
<1>2. Holders \subseteq inodesTaken /\ inodesTaken \subseteq Inodes
    BY DEF Holders, TypeOK
<1> QED
    BY <1>1, <1>2

\* The three ways a call changes which blocks the files hold: none (a block
\* may be taken for an inode that is deleted), one less, or one more.
LEMMA HoldersSame ==
    ASSUME LiveBlocksExclusive, Holders' = Holders, iSize'[Root] = iSize[Root],
           \A i \in Holders \cup {Root} : iBlock'[i] = iBlock[i],
           blocksTaken \subseteq blocksTaken'
    PROVE  /\ LiveBlocksExclusive'
           /\ blocksTaken' = blocksTaken /\ BlocksAccounted => BlocksAccounted'
<1>1. LiveBlocksExclusive'
    BY DEF LiveBlocksExclusive
<1>2. ASSUME blocksTaken' = blocksTaken, BlocksAccounted PROVE BlocksAccounted'
    BY <1>2 DEF BlocksAccounted
<1> QED
    BY <1>1, <1>2

LEMMA HoldersShrink ==
    ASSUME TypeOK, LiveBlocksExclusive, NEW i \in inodesTaken \ {Root},
           Holders' = Holders \ {i}, iBlock' = iBlock, iSize'[Root] = iSize[Root],
           release_block(i)
    PROVE  LiveBlocksExclusive' /\ (BlocksAccounted => BlocksAccounted')
<1>1. blocksTaken' = IF i \in Holders THEN blocksTaken \ {iBlock[i]} ELSE blocksTaken
    BY DEF release_block, Holders
<1>2. LiveBlocksExclusive'
    BY <1>1 DEF LiveBlocksExclusive
<1>3. ASSUME BlocksAccounted PROVE BlocksAccounted'
    <2>1. CASE i \in Holders
        <3>1. blocksTaken' = {iBlock[j] : j \in Holders} \ {iBlock[i]}
            BY <1>1, <1>3, <2>1 DEF BlocksAccounted
        <3>2. {iBlock[j] : j \in Holders} \ {iBlock[i]} = {iBlock[j] : j \in Holders \ {i}}
            BY <2>1 DEF LiveBlocksExclusive
        <3> QED
            BY <3>1, <3>2 DEF BlocksAccounted
    <2>2. CASE i \notin Holders
        BY <1>1, <1>3, <2>2 DEF BlocksAccounted
    <2> QED
        BY <2>1, <2>2
<1> QED
    BY <1>2, <1>3

LEMMA HoldersGrow ==
    ASSUME TypeOK, LiveBlocksExclusive, NEW i \in Inodes \ {Root}, NEW b \in FreeBlocks,
           i \notin Holders, Holders' = Holders \cup {i}, iSize'[Root] = iSize[Root],
           iBlock' = [iBlock EXCEPT ![i] = b], blocksTaken' = blocksTaken \cup {b}
    PROVE  LiveBlocksExclusive' /\ (BlocksAccounted => BlocksAccounted')
<1>1. Holders \subseteq Inodes /\ Root \in Inodes
    BY InodesInside
<1>2. /\ iBlock'[i] = b /\ b \notin blocksTaken
      /\ \A j \in Holders \cup {Root} : iBlock'[j] = iBlock[j]
    BY <1>1 DEF TypeOK, FreeBlocks
<1>3. LiveBlocksExclusive'
    BY <1>2 DEF LiveBlocksExclusive
<1>4. ASSUME BlocksAccounted PROVE BlocksAccounted'
    <2>1. {iBlock'[j] : j \in Holders'} = {iBlock[j] : j \in Holders} \cup {b}
        BY <1>2
    <2> QED
        BY <1>4, <2>1 DEF BlocksAccounted
<1> QED
    BY <1>3, <1>4

\* An inode that is free can be initialised without a file noticing.
LEMMA CreateKeepsHolders ==
    ASSUME TypeOK, DirConsistent, NEW i \in FreeInodes, inode_create(i),
           inodesTaken' = inodesTaken \/ inodesTaken' = inodesTaken \cup {i}
    PROVE  /\ Holders' = Holders
           /\ iSize'[Root] = iSize[Root]
           /\ \A j \in Holders \cup {Root} : iBlock'[j] = iBlock[j]
<1>1. i \in Inodes /\ i \notin inodesTaken /\ inodesTaken \subseteq Inodes
    BY DEF FreeInodes, TypeOK
<1>2. Root \in inodesTaken
    BY DEF DirConsistent
<1>3. /\ iSize'[i] = 0 /\ iBlock'[i] = -1
      /\ \A j \in Inodes : j # i => iSize'[j] = iSize[j] /\ iBlock'[j] = iBlock[j]
    BY <1>1 DEF inode_create, TypeOK
<1> QED
    BY <1>1, <1>2, <1>3 DEF Holders

\* The inode that find_in_dir finds exists and is not the directory.
LEMMA FoundIsFile ==
    ASSUME TypeOK, DirConsistent, NEW name, find_in_dir(name) # -1
    PROVE  find_in_dir(name) \in inodesTaken \ {Root}
BY FindAnswers DEF DirConsistent

LEMMA OpenKeepsBlocks ==
    ASSUME TypeOK, DirConsistent, LiveBlocksExclusive,
           NEW name \in Paths, NEW mode, tfs_open(name, mode)
    PROVE  LiveBlocksExclusive' /\ (BlocksAccounted => BlocksAccounted')
<1>1. ASSUME NEW i \in Inodes, i = find_in_dir(name),
             IF "TRUNC" \in mode
             THEN release_block(i) /\ iSize' = [iSize EXCEPT ![i] = 0]
             ELSE UNCHANGED <<blocksTaken, status, iSize>>,
             UNCHANGED <<inodesTaken, iBlock>>
      PROVE  LiveBlocksExclusive' /\ (BlocksAccounted => BlocksAccounted')
    <2>1. i \in inodesTaken \ {Root}
        BY <1>1, FoundIsFile DEF Inodes
    <2>2. CASE "TRUNC" \in mode
        <3>1. /\ iSize'[i] = 0
              /\ \A j \in Inodes : j # i => iSize'[j] = iSize[j]
            BY <1>1, <2>2 DEF TypeOK
        <3>2. Holders' = Holders \ {i}
            BY <1>1, <3>1 DEF Holders, TypeOK
        <3>3. iSize'[Root] = iSize[Root]
            BY <2>1, <3>1 DEF DirConsistent, TypeOK
        <3> QED
            BY <1>1, <2>1, <2>2, <3>2, <3>3, HoldersShrink
    <2>3. CASE "TRUNC" \notin mode
        BY <1>1, <2>3, HoldersSame DEF Holders
    <2> QED
        BY <2>2, <2>3
<1>2. ASSUME UNCHANGED <<inodesTaken, iSize, iBlock, blocksTaken>>
      PROVE  LiveBlocksExclusive' /\ (BlocksAccounted => BlocksAccounted')
    BY <1>2, HoldersSame DEF Holders
<1>3. ASSUME NEW i \in FreeInodes, inode_create(i), UNCHANGED blocksTaken,
             inodesTaken' = inodesTaken \/ inodesTaken' = inodesTaken \cup {i}
      PROVE  LiveBlocksExclusive' /\ (BlocksAccounted => BlocksAccounted')
    BY <1>3, CreateKeepsHolders, HoldersSame
<1> QED
    BY <1>1, <1>2, <1>3, OpenCases

LEMMA UnlinkKeepsBlocks ==
    ASSUME TypeOK, DirConsistent, LiveBlocksExclusive, NEW name \in Paths, tfs_unlink(name)
    PROVE  LiveBlocksExclusive' /\ (BlocksAccounted => BlocksAccounted')
<1>1. UNCHANGED <<iSize, iBlock>>
    BY UnlinkCases
<1>2. CASE UNCHANGED <<inodesTaken, blocksTaken>>
    BY <1>1, <1>2, HoldersSame DEF Holders
<1>3. ASSUME NEW e \in UsedEntries, inodesTaken' = inodesTaken \ {dInumber[e]},
             release_block(dInumber[e])
      PROVE  LiveBlocksExclusive' /\ (BlocksAccounted => BlocksAccounted')
    <2>1. dInumber[e] \in inodesTaken \ {Root}
        BY DEF DirConsistent
    <2>2. Holders' = Holders \ {dInumber[e]}
        BY <1>1, <1>3 DEF Holders
    <2> QED
        BY <1>1, <1>3, <2>1, <2>2, HoldersShrink
<1> QED
    BY <1>2, <1>3, UnlinkCases

\* A store changes one size at most, and makes none 0 that was not.
LEMMA StoreSizes ==
    ASSUME TypeOK, NEW h \in Handles, NEW buffer \in Payloads, NEW n \in Nat, NEW b,
           StoreBytes(h, buffer, n, b)
    PROVE  /\ iSize' \in [Inodes -> Int]
           /\ \A j \in Inodes : j # ofInumber[h] => iSize'[j] = iSize[j]
           /\ iSize'[ofInumber[h]] >= iSize[ofInumber[h]]
<1> DEFINE end == Plus(ofOffset[h], n)
<1>1. ofInumber[h] \in Inodes /\ iSize[ofInumber[h]] \in Nat
    BY DEF TypeOK
<1>2. CASE iSize' = iSize
    BY <1>1, <1>2 DEF TypeOK
<1>3. CASE iSize' = [iSize EXCEPT ![ofInumber[h]] = SizeGrown(@, end)]
    <2>1. end \in Int
        <3>1. ofOffset[h] + n \in Int
            BY DEF TypeOK
        <3> QED
            BY <3>1, SizeOf DEF Plus
    <2> HIDE DEF end
    <2>2. SizeGrown(iSize[ofInumber[h]], end) >= iSize[ofInumber[h]]
        BY <1>1, <2>1 DEF SizeGrown
    <2>3. SizeGrown(iSize[ofInumber[h]], end) \in Int
        BY <1>1, <2>1 DEF SizeGrown
    <2> QED
        BY <1>1, <1>3, <2>2, <2>3 DEF TypeOK
<1> QED
    BY <1>2, <1>3 DEF StoreBytes

\* The first block of a deleted inode is lost to the others, no more.
LEMMA WriteKeepsBlocks ==
    ASSUME TypeOK, LiveBlocksExclusive, HandlesOffRoot,
           NEW h \in Handles, NEW buffer \in Payloads, tfs_write(h, buffer), ~BadHandle(h)
    PROVE  /\ LiveBlocksExclusive'
           /\ (/\ BlocksAccounted
               /\ \/ UNCHANGED blocksTaken
                  \/ ofInumber[h] \in inodesTaken /\ iSize'[ofInumber[h]] > 0)
              => BlocksAccounted'
<1> DEFINE i == ofInumber[h]
           n == WriteLength(h, buffer)
<1>1. i \in Inodes \ {Root} /\ iSize[i] \in Nat
    BY WriteCases DEF HandlesOffRoot, TypeOK
<1>2. Holders \subseteq Inodes /\ Root \in Inodes /\ inodesTaken \subseteq Inodes
    BY InodesInside
<1>3. inodesTaken' = inodesTaken
    BY WriteCases
<1>4. CASE UNCHANGED <<iSize, iBlock, blocksTaken>>
    BY <1>3, <1>4, HoldersSame DEF Holders
<1>5. ASSUME NEW b, StoreBytes(h, buffer, n, b)
      PROVE  /\ \A j \in Inodes : j # i => iSize'[j] = iSize[j]
             /\ iSize'[i] >= iSize[i] /\ iSize'[i] \in Int
             /\ iSize'[Root] = iSize[Root]
    <2>0. n \in Nat
        BY LengthTypes
    <2> HIDE DEF n
    <2>1. /\ iSize' \in [Inodes -> Int]
          /\ \A j \in Inodes : j # i => iSize'[j] = iSize[j]
          /\ iSize'[i] >= iSize[i]
        BY <1>5, <2>0, StoreSizes
    <2> QED
        BY <1>1, <1>2, <2>1
<1>6. CASE /\ iSize[i] # 0
           /\ StoreBytes(h, buffer, n, iBlock[i])
           /\ UNCHANGED <<iBlock, blocksTaken>>
    <2> HIDE DEF i, n
    <2>1. Holders' = Holders
        BY <1>1, <1>2, <1>3, <1>5, <1>6 DEF Holders
    <2> QED
        BY <1>5, <1>6, <2>1, HoldersSame
<1>7. CASE /\ iSize[i] = 0
           /\ FreeBlocks # {}
           /\ blocksTaken' = blocksTaken \cup {Min(FreeBlocks)}
           /\ iBlock' = [iBlock EXCEPT ![i] = Min(FreeBlocks)]
           /\ StoreBytes(h, buffer, n, Min(FreeBlocks))
    <2> DEFINE b == Min(FreeBlocks)
    <2>1. b \in FreeBlocks
        BY <1>7, FirstFree
    <2>2. /\ blocksTaken' = blocksTaken \cup {b}
          /\ iBlock' = [iBlock EXCEPT ![i] = b]
          /\ i \notin Holders
        BY <1>7 DEF Holders
    <2>3. /\ \A j \in Inodes : j # i => iSize'[j] = iSize[j]
          /\ iSize'[i] >= iSize[i] /\ iSize'[i] \in Int
          /\ iSize'[Root] = iSize[Root]
        BY <1>5, <1>7
    <2> HIDE DEF i, n, b
    <2>4. CASE i \in inodesTaken /\ iSize'[i] > 0
        <3>1. Holders' = Holders \cup {i}
            BY <1>1, <1>2, <1>3, <2>3, <2>4 DEF Holders
        <3> QED
            BY <1>1, <2>1, <2>2, <2>3, <3>1, HoldersGrow
    <2>5. CASE ~(i \in inodesTaken /\ iSize'[i] > 0)
        <3>1. Holders' = Holders
            BY <1>1, <1>2, <1>3, <2>2, <2>3, <2>5 DEF Holders
        <3>2. \A j \in Holders \cup {Root} : iBlock'[j] = iBlock[j]
            BY <1>1, <1>2, <2>2 DEF TypeOK
        <3>3. LiveBlocksExclusive' /\ (blocksTaken' = blocksTaken /\ BlocksAccounted => BlocksAccounted')
            BY <2>2, <2>3, <3>1, <3>2, HoldersSame
        <3>4. i = ofInumber[h]
            BY DEF i
        <3> QED
            BY <2>5, <3>3, <3>4
    <2> QED
        BY <2>4, <2>5
<1> QED
    BY <1>4, <1>6, <1>7, WriteCases

\* add_to_open_file_table adds one handle on the inode, or none.
LEMMA ObtainCases ==
    ASSUME TypeOK, NEW i \in Inodes, NEW o, add_to_open_file_table(i, o)
    PROVE  \/ FreeHandles = {} /\ Return(-1) /\ UNCHANGED <<handlesTaken, ofInumber, ofOffset>>
           \/ \E h \in FreeHandles :
                 /\ Return(h)
                 /\ handlesTaken' = handlesTaken \cup {h}
                 /\ ofInumber' = [ofInumber EXCEPT ![h] = i]
                 /\ ofOffset' = [ofOffset EXCEPT ![h] = o]
                 /\ ofInumber'[h] = i /\ ofOffset'[h] = o
                 /\ \A g \in handlesTaken :
                        ofInumber'[g] = ofInumber[g] /\ ofOffset'[g] = ofOffset[g]
<1>1. CASE FreeHandles = {}
    BY <1>1 DEF add_to_open_file_table, handleVars
<1>2. CASE FreeHandles # {}
    <2> DEFINE h == Min(FreeHandles)
    <2>1. h \in FreeHandles
        BY <1>2, FirstFree
    <2>2. /\ handlesTaken' = handlesTaken \cup {h}
          /\ ofInumber' = [ofInumber EXCEPT ![h] = i]
          /\ ofOffset' = [ofOffset EXCEPT ![h] = o]
          /\ Return(h)
        BY <1>2 DEF add_to_open_file_table
    <2> HIDE DEF h
    <2>3. ofInumber'[h] = i /\ ofOffset'[h] = o
        BY <2>1, <2>2 DEF TypeOK, FreeHandles
    <2>4. \A g \in handlesTaken : ofInumber'[g] = ofInumber[g] /\ ofOffset'[g] = ofOffset[g]
        BY <2>1, <2>2 DEF TypeOK, FreeHandles
    <2> QED
        BY Zenon, <2>1, <2>2, <2>3, <2>4
<1> QED
    BY <1>1, <1>2

LEMMA OpenKeepsHandlesOffRoot ==
    ASSUME TypeOK, DirConsistent, HandlesOffRoot,
           NEW name \in Paths, NEW mode, tfs_open(name, mode)
    PROVE  HandlesOffRoot'
<1>1. ASSUME NEW i \in Inodes \ {Root}, NEW o, add_to_open_file_table(i, o)
      PROVE  HandlesOffRoot'
    BY <1>1, ObtainCases DEF HandlesOffRoot
<1>2. ASSUME NEW i \in Inodes, i = find_in_dir(name) PROVE i # Root
    BY <1>2, FoundIsFile DEF Inodes
<1>3. ASSUME NEW i \in FreeInodes PROVE i \in Inodes \ {Root}
    BY <1>3 DEF FreeInodes, DirConsistent
<1>4. CASE UNCHANGED <<handlesTaken, ofInumber>>
    BY <1>4 DEF HandlesOffRoot
<1> QED
    BY <1>1, <1>2, <1>3, <1>4, OpenCases

\* The files that exist never share a block, nor use one that is free or the
\* directory's, even when open files are deleted or truncated.
THEOREM BlocksNotShared == Spec => []LiveBlocksExclusive /\ []HandlesOffRoot
<1>1. Init => LiveBlocksExclusive /\ HandlesOffRoot
    <2> SUFFICES ASSUME Init PROVE LiveBlocksExclusive /\ HandlesOffRoot
        OBVIOUS
    <2>1. Root \in Inodes
        BY DEF Root, Inodes
    <2>2. iBlock[Root] = 0 /\ iSize[Root] = BlockSize /\ Holders \subseteq {Root}
        BY <2>1 DEF Init, Holders
    <2> QED
        BY <2>2 DEF Init, LiveBlocksExclusive, HandlesOffRoot
<1>2. /\ TypeOK /\ DirConsistent /\ LiveBlocksExclusive /\ HandlesOffRoot /\ [Next]_vars
      => LiveBlocksExclusive' /\ HandlesOffRoot'
    <2> SUFFICES ASSUME TypeOK, DirConsistent, LiveBlocksExclusive, HandlesOffRoot, [Next]_vars
                 PROVE  LiveBlocksExclusive' /\ HandlesOffRoot'
        OBVIOUS
    <2>1. CASE Open
        BY <2>1, OpenKeepsBlocks, OpenKeepsHandlesOffRoot DEF Open
    <2>2. CASE Unlink
        <3>1. LiveBlocksExclusive'
            BY <2>2, UnlinkKeepsBlocks DEF Unlink
        <3>2. UNCHANGED <<handlesTaken, ofInumber>>
            BY <2>2 DEF Unlink, tfs_unlink, handleVars
        <3> QED
            BY <3>1, <3>2 DEF HandlesOffRoot
    <2>3. CASE UNCHANGED <<inodesTaken, iSize, iBlock, blocksTaken, ofInumber>>
               /\ handlesTaken' \subseteq handlesTaken
        BY <2>3, HoldersSame DEF Holders, HandlesOffRoot
    <2>4. CASE Close
        BY <2>3, <2>4 DEF Close, tfs_close, BadHandle, inodeVars, blockVars, handleVars
    <2>5. CASE Write
        <3>1. PICK h \in Handles, buffer \in Payloads : tfs_write(h, buffer)
            BY <2>5 DEF Write
        <3>2. CASE BadHandle(h)
            BY <2>3, <3>2 DEF BadHandle, inodeVars, blockVars, handleVars
        <3>3. CASE ~BadHandle(h)
            BY <3>1, <3>3, WriteKeepsBlocks, WriteCases DEF HandlesOffRoot
        <3> QED
            BY <3>2, <3>3
    <2>6. CASE Read
        BY <2>3, <2>6 DEF Read, tfs_read, BadHandle, inodeVars, blockVars, handleVars
    <2>7. CASE UNCHANGED vars
        BY <2>3, <2>7 DEF vars, inodeVars, blockVars, handleVars
    <2> QED
        BY <2>1, <2>2, <2>4, <2>5, <2>6, <2>7 DEF Next, Dead
<1> QED
    BY <1>1, <1>2, TypeCorrect, DirectoryConsistent, PTL DEF Spec

-----------------------------------------------------------------------------
(* Callers that leave open files alone                                     *)

\* A file that was deleted keeps its size, so the bound is on every inode.
SizesInside == \A i \in Inodes : iSize[i] <= BlockSize

\* The handles point at files that exist, no place is outside its file, no
\* block has leaked and no call went wrong: each is needed for the others.
OwnedInv == HandlesLive /\ OffsetsInside /\ SizesInside /\ BlocksAccounted /\ NeverDead

LEMMA SpanInside ==
    ASSUME NEW b \in Blocks, NEW o \in Nat, NEW n \in Nat, o + n <= BlockSize
    PROVE  Span(b, o, n) \subseteq Addresses
<1>1. /\ b * BlockSize \in Nat /\ b * BlockSize \in Int
      /\ b * BlockSize + (o + n) <= BlockCount * BlockSize
    <2>1. b * BlockSize \in Nat
        BY DEF Blocks
    <2>2. o + n \in 0 .. BlockSize
        OBVIOUS
    <2> QED
        BY <2>1, <2>2, BlockInside
<1>2. BlockCount * BlockSize \in Nat
    OBVIOUS
<1> QED
    BY <1>1, <1>2 DEF Span, Addresses

\* Inside its block no sum of a write wraps around.
LEMMA WriteExact ==
    ASSUME TypeOK, OffsetsInside, NEW h \in handlesTaken, NEW buffer \in Payloads
    PROVE  LET o == ofOffset[h]
               n == WriteLength(h, buffer)
           IN  /\ o \in 0 .. BlockSize
               /\ n = IF Len(buffer) > BlockSize - o THEN BlockSize - o ELSE Len(buffer)
               /\ n \in 0 .. Len(buffer) /\ o + n \in 0 .. BlockSize
               /\ Plus(o, n) = o + n
               /\ \A b \in Blocks : Span(b, o, n) \subseteq Addresses
<1> DEFINE o == ofOffset[h]
           n == WriteLength(h, buffer)
<1>1. o \in 0 .. BlockSize
    <2>1. h \in Handles /\ o \in Nat /\ iSize[ofInumber[h]] \in Nat
        BY DEF TypeOK
    <2> HIDE DEF o
    <2>2. o <= iSize[ofInumber[h]] /\ iSize[ofInumber[h]] <= BlockSize
        BY DEF OffsetsInside, o
    <2> QED
        BY <2>1, <2>2
<1>2. Len(buffer) \in 0 .. MaxLength
    BY PayloadIsBuffer
<1>3. /\ Plus(Len(buffer), o) = Len(buffer) + o
      /\ Minus(BlockSize, o) = BlockSize - o
    <2> HIDE DEF o, n
    <2>1. /\ Len(buffer) + o \in 0 .. SizeModulus - 1
          /\ BlockSize - o \in 0 .. SizeModulus - 1
        BY <1>1, <1>2
    <2> QED
        BY <2>1, NoWrap DEF Plus, Minus
<1>4. n = IF Len(buffer) > BlockSize - o THEN BlockSize - o ELSE Len(buffer)
    BY <1>1, <1>2, <1>3 DEF WriteLength
<1> HIDE DEF o, n
<1>5. n \in 0 .. Len(buffer) /\ o + n \in 0 .. BlockSize
    BY <1>1, <1>2, <1>4
<1>6. Plus(o, n) = o + n
    BY <1>1, <1>2, <1>5, NoWrap DEF Plus
<1>7. \A b \in Blocks : Span(b, o, n) \subseteq Addresses
    BY <1>1, <1>2, <1>5, SpanInside
<1> QED
    BY <1>1, <1>4, <1>5, <1>6, <1>7 DEF o, n

\* What a write stores when it takes place.
LEMMA StoreExact ==
    ASSUME TypeOK, OffsetsInside, NEW h \in handlesTaken, NEW buffer \in Payloads,
           NEW b \in Blocks, StoreBytes(h, buffer, WriteLength(h, buffer), b)
    PROVE  LET o == ofOffset[h]
               n == WriteLength(h, buffer)
           IN  /\ data' = [a \in Addresses |->
                            IF a \in Span(b, o, n)
                            THEN buffer[a - (b * BlockSize + o) + 1] ELSE data[a]]
               /\ ofOffset' = [ofOffset EXCEPT ![h] = o + n]
               /\ iSize' = [iSize EXCEPT ![ofInumber[h]] = IF o + n > @ THEN o + n ELSE @]
               /\ Return(n)
               /\ UNCHANGED status
<1> DEFINE o == ofOffset[h]
           n == WriteLength(h, buffer)
<1>1. n \in 0 .. Len(buffer) /\ Plus(o, n) = o + n /\ Span(b, o, n) \subseteq Addresses
    BY WriteExact
<1>2. Len(buffer) \in Nat
    BY PayloadIsBuffer
<1>3. ~(n > Len(buffer) \/ ~(Span(b, o, n) \subseteq Addresses))
    <2> HIDE DEF n, o
    <2> QED
        BY <1>1, <1>2
<1> QED
    BY Zenon, <1>1, <1>3 DEF StoreBytes, SizeGrown

\* A read reaches to the end of the file at most and stays in its block.
LEMMA ReadExact ==
    ASSUME TypeOK, LiveBlocksExclusive, HandlesLive, OffsetsInside,
           NEW h \in handlesTaken, NEW len \in 0 .. MaxLength
    PROVE  LET i == ofInumber[h]
               o == ofOffset[h]
               n == ReadLength(h, len)
           IN  /\ o \in Nat /\ iSize[i] - o \in Nat
               /\ n = IF iSize[i] - o > len THEN len ELSE iSize[i] - o
               /\ n \in 0 .. len /\ o + n \in 0 .. iSize[i]
               /\ Plus(o, n) = o + n
               /\ n > 0 => iBlock[i] \in Blocks /\ Span(iBlock[i], o, n) \subseteq Addresses
<1> DEFINE i == ofInumber[h]
           o == ofOffset[h]
           n == ReadLength(h, len)
<1>1. o \in Nat /\ iSize[i] \in 0 .. BlockSize /\ o <= iSize[i] /\ i \in inodesTaken
    <2>1. h \in Handles /\ o \in Nat /\ iSize[i] \in Nat
        BY DEF TypeOK
    <2>2. o <= iSize[i] /\ iSize[i] <= BlockSize /\ i \in inodesTaken
        BY DEF OffsetsInside, HandlesLive
    <2> QED
        BY <2>1, <2>2
<1> DEFINE s == iSize[i]
<1>2. Minus(s, o) = s - o
    <2> HIDE DEF s, o
    <2>1. s - o \in 0 .. SizeModulus - 1
        BY <1>1 DEF s
    <2> QED
        BY <2>1, NoWrap DEF Minus
<1>3. n = IF s - o > len THEN len ELSE s - o
    BY <1>2 DEF ReadLength
<1>4. n > 0 => iBlock[i] \in Blocks
    <2>1. n > 0 => i \in Holders
        <3> HIDE DEF i, o, n
        <3> QED
            BY <1>1, <1>3 DEF Holders
    <2>2. i \in Holders => iBlock[i] \in Blocks
        BY DEF LiveBlocksExclusive, TypeOK
    <2> QED
        BY <2>1, <2>2
<1> HIDE DEF i, o, n
<1>5. n \in 0 .. len /\ o + n \in 0 .. s /\ s - o \in Nat
    BY <1>1, <1>3
<1>6. Plus(o, n) = o + n
    BY <1>1, <1>5, NoWrap DEF Plus
<1>7. iBlock[i] \in Blocks => Span(iBlock[i], o, n) \subseteq Addresses
    BY <1>1, <1>5, SpanInside
<1> QED
    BY <1>1, <1>3, <1>4, <1>5, <1>6, <1>7 DEF i, o, n

\* The block of a file goes back without a failed assertion.
LEMMA ReleaseKeepsRunning ==
    ASSUME TypeOK, LiveBlocksExclusive, NEW i \in inodesTaken, release_block(i)
    PROVE  status' = status
<1>1. iSize[i] > 0 => iBlock[i] \in Blocks
    BY DEF LiveBlocksExclusive, Holders, TypeOK
<1> QED
    BY <1>1 DEF release_block

\* A new handle starts inside its file, and the others keep theirs.
LEMMA ObtainKeepsHandles ==
    ASSUME TypeOK, NEW i \in Inodes, NEW o \in Nat, add_to_open_file_table(i, o),
           i \in inodesTaken' \ {Root}, o <= iSize'[i], iSize'[i] <= BlockSize,
           \A h \in handlesTaken :
                /\ ofInumber[h] \in inodesTaken' \ {Root}
                /\ ofOffset[h] <= iSize'[ofInumber[h]] /\ iSize'[ofInumber[h]] <= BlockSize
    PROVE  HandlesLive' /\ OffsetsInside'
<1>1. CASE UNCHANGED <<handlesTaken, ofInumber, ofOffset>>
    BY <1>1 DEF HandlesLive, OffsetsInside
<1>2. ASSUME NEW h \in FreeHandles,
             handlesTaken' = handlesTaken \cup {h},
             ofInumber'[h] = i, ofOffset'[h] = o,
             \A g \in handlesTaken : ofInumber'[g] = ofInumber[g] /\ ofOffset'[g] = ofOffset[g]
      PROVE  HandlesLive' /\ OffsetsInside'
    BY <1>2 DEF HandlesLive, OffsetsInside
<1> QED
    BY <1>1, <1>2, ObtainCases

LEMMA CreateSizes ==
    ASSUME TypeOK, NEW i \in FreeInodes, inode_create(i)
    PROVE  /\ i \in Inodes /\ i \notin inodesTaken /\ iSize'[i] = 0
           /\ \A j \in Inodes : j # i => iSize'[j] = iSize[j]
BY DEF inode_create, TypeOK, FreeInodes

LEMMA OpenKeepsOwned ==
    ASSUME TypeOK, DirConsistent, LiveBlocksExclusive, OwnedInv,
           NEW name \in Paths, NEW mode, tfs_open(name, mode),
           "TRUNC" \in mode => ~IsOpen(find_in_dir(name))
    PROVE  OwnedInv'
<1>1. BlocksAccounted'
    BY OpenKeepsBlocks DEF OwnedInv
<1>2. /\ \A h \in handlesTaken : ofInumber[h] \in Inodes /\ ofInumber[h] \in inodesTaken \ {Root}
      /\ \A j \in Inodes : iSize[j] \in Nat /\ iSize[j] <= BlockSize
      /\ \A h \in handlesTaken : ofOffset[h] \in Nat /\ ofOffset[h] <= iSize[ofInumber[h]]
      /\ status = "running"
    BY DEF OwnedInv, HandlesLive, OffsetsInside, SizesInside, NeverDead, TypeOK
<1>3. ASSUME NEW i \in Inodes, i = find_in_dir(name),
             IF "TRUNC" \in mode
             THEN release_block(i) /\ iSize' = [iSize EXCEPT ![i] = 0]
             ELSE UNCHANGED <<blocksTaken, status, iSize>>,
             add_to_open_file_table(i, IF "APPEND" \in mode /\ "TRUNC" \notin mode
                                       THEN iSize[i] ELSE 0),
             UNCHANGED inodesTaken
      PROVE  OwnedInv'
    <2>1. i \in inodesTaken \ {Root}
        BY <1>3, FoundIsFile DEF Inodes
    <2>2. CASE "TRUNC" \in mode
        <3>1. /\ iSize'[i] = 0
              /\ \A j \in Inodes : j # i => iSize'[j] = iSize[j]
            BY <1>3, <2>2 DEF TypeOK
        <3>2. \A h \in handlesTaken : ofInumber[h] # i
            BY <1>3, <2>2 DEF IsOpen
        <3>3. HandlesLive' /\ OffsetsInside'
            <4>1. add_to_open_file_table(i, 0)
                BY <1>3, <2>2
            <4>2. \A h \in handlesTaken :
                    /\ ofInumber[h] \in inodesTaken' \ {Root}
                    /\ ofOffset[h] <= iSize'[ofInumber[h]] /\ iSize'[ofInumber[h]] <= BlockSize
                BY <1>2, <1>3, <3>1, <3>2
            <4> QED
                BY <1>3, <2>1, <3>1, <4>1, <4>2, ObtainKeepsHandles
        <3>4. SizesInside'
            BY <1>2, <3>1 DEF SizesInside
        <3>5. NeverDead'
            BY <1>2, <1>3, <2>1, <2>2, ReleaseKeepsRunning DEF NeverDead
        <3> QED
            BY <1>1, <3>3, <3>4, <3>5 DEF OwnedInv
    <2>3. CASE "TRUNC" \notin mode
        <3> DEFINE o == IF "APPEND" \in mode THEN iSize[i] ELSE 0
        <3>1. add_to_open_file_table(i, o) /\ UNCHANGED <<status, iSize>>
            BY <1>3, <2>3
        <3>2. o \in Nat /\ o <= iSize'[i]
            BY <1>2, <1>3, <3>1
        <3> HIDE DEF o
        <3>3. HandlesLive' /\ OffsetsInside'
            BY <1>2, <1>3, <2>1, <3>1, <3>2, ObtainKeepsHandles
        <3> QED
            BY <1>1, <1>2, <3>1, <3>3 DEF OwnedInv, SizesInside, NeverDead
    <2> QED
        BY <2>2, <2>3
<1>4. CASE UNCHANGED <<inodesTaken, iSize, handlesTaken, ofInumber, ofOffset, status>>
    BY <1>1, <1>4 DEF OwnedInv, HandlesLive, OffsetsInside, SizesInside, NeverDead
<1>5. ASSUME NEW i \in FreeInodes, inode_create(i),
             UNCHANGED <<inodesTaken, handlesTaken, ofInumber, ofOffset, status>>
      PROVE  OwnedInv'
    <2>1. \A h \in handlesTaken : iSize'[ofInumber[h]] = iSize[ofInumber[h]]
        BY <1>2, <1>5, CreateSizes
    <2>2. SizesInside'
        BY <1>2, <1>5, CreateSizes DEF SizesInside
    <2> QED
        BY <1>1, <1>2, <1>5, <2>1, <2>2 DEF OwnedInv, HandlesLive, OffsetsInside, NeverDead
<1>6. ASSUME NEW i \in FreeInodes, inode_create(i), inodesTaken' = inodesTaken \cup {i},
             add_to_open_file_table(i, 0), UNCHANGED status
      PROVE  OwnedInv'
    <2>1. /\ i \in Inodes /\ i \notin inodesTaken /\ iSize'[i] = 0
          /\ \A j \in Inodes : j # i => iSize'[j] = iSize[j]
        BY <1>6, CreateSizes
    <2>2. i # Root
        BY <2>1 DEF DirConsistent
    <2>3. SizesInside'
        BY <1>2, <2>1 DEF SizesInside
    <2>4. \A h \in handlesTaken :
                /\ ofInumber[h] \in inodesTaken' \ {Root}
                /\ ofOffset[h] <= iSize'[ofInumber[h]] /\ iSize'[ofInumber[h]] <= BlockSize
        BY <1>2, <1>6, <2>1
    <2>5. HandlesLive' /\ OffsetsInside'
        BY <1>6, <2>1, <2>2, <2>4, ObtainKeepsHandles
    <2> QED
        BY <1>1, <1>2, <1>6, <2>3, <2>5 DEF OwnedInv, NeverDead
<1> QED
    BY <1>3, <1>4, <1>5, <1>6, OpenCases

LEMMA UnlinkKeepsOwned ==
    ASSUME TypeOK, DirConsistent, LiveBlocksExclusive, OwnedInv,
           NEW name \in Paths, tfs_unlink(name), ~IsOpen(find_in_dir(name))
    PROVE  OwnedInv'
<1>1. BlocksAccounted'
    BY UnlinkKeepsBlocks DEF OwnedInv
<1>2. UNCHANGED <<iSize, handlesTaken, ofInumber, ofOffset>>
    BY UnlinkCases
<1>3. OffsetsInside' /\ SizesInside'
    BY <1>2 DEF OwnedInv, OffsetsInside, SizesInside
<1>4. CASE UNCHANGED <<inodesTaken, status>>
    BY <1>1, <1>2, <1>3, <1>4 DEF OwnedInv, HandlesLive, NeverDead
<1>5. ASSUME NEW e \in UsedEntries, dInumber[e] = find_in_dir(name),
             inodesTaken' = inodesTaken \ {dInumber[e]}, release_block(dInumber[e])
      PROVE  OwnedInv'
    <2>1. HandlesLive'
        BY <1>2, <1>5 DEF OwnedInv, HandlesLive, IsOpen
    <2>2. dInumber[e] \in inodesTaken
        BY DEF DirConsistent
    <2>3. NeverDead'
        BY <1>5, <2>2, ReleaseKeepsRunning DEF OwnedInv, NeverDead
    <2> QED
        BY <1>1, <1>3, <2>1, <2>3 DEF OwnedInv
<1> QED
    BY <1>4, <1>5, UnlinkCases

LEMMA WriteKeepsOwned ==
    ASSUME TypeOK, LiveBlocksExclusive, HandlesOffRoot, OwnedInv,
           NEW h \in Handles, NEW buffer \in Payloads, tfs_write(h, buffer), ~BadHandle(h)
    PROVE  OwnedInv'
<1> DEFINE i == ofInumber[h]
           o == ofOffset[h]
           n == WriteLength(h, buffer)
<1>1. /\ h \in handlesTaken /\ status = "running"
      /\ UNCHANGED <<inodesTaken, handlesTaken, ofInumber>>
    BY WriteCases
<1>2. HandlesLive'
    BY <1>1 DEF OwnedInv, HandlesLive
<1>3. CASE UNCHANGED <<iSize, iBlock, blocksTaken, ofOffset, status>>
    <2>1. BlocksAccounted'
        BY <1>3, WriteKeepsBlocks DEF OwnedInv
    <2> QED
        BY <1>1, <1>2, <1>3, <2>1 DEF OwnedInv, OffsetsInside, SizesInside, NeverDead
<1>4. ASSUME NEW b \in Blocks, StoreBytes(h, buffer, n, b), n > 0
      PROVE  OffsetsInside' /\ SizesInside' /\ NeverDead' /\ iSize'[i] > 0
    <2>1. /\ ofOffset' = [ofOffset EXCEPT ![h] = o + n]
          /\ iSize' = [iSize EXCEPT ![i] = IF o + n > iSize[i] THEN o + n ELSE iSize[i]]
          /\ UNCHANGED status
        BY <1>1, <1>4, StoreExact DEF OwnedInv
    <2>2. o \in Nat /\ n \in Nat /\ o + n <= BlockSize
        BY <1>1, WriteExact DEF OwnedInv
    <2>3. h \in Handles /\ i \in Inodes /\ iSize[i] \in Nat
        BY DEF TypeOK
    <2>4. iSize[i] <= BlockSize
        BY <2>3 DEF OwnedInv, SizesInside
    <2> HIDE DEF o, n
    <2>5. /\ ofOffset'[h] = o + n
          /\ \A g \in Handles : g # h => ofOffset'[g] = ofOffset[g]
          /\ iSize'[i] = IF o + n > iSize[i] THEN o + n ELSE iSize[i]
          /\ \A j \in Inodes : j # i => iSize'[j] = iSize[j]
        BY <2>1, <2>3 DEF TypeOK
    <2>6. /\ iSize'[i] >= iSize[i] /\ iSize'[i] >= o + n /\ iSize'[i] <= BlockSize
          /\ iSize'[i] > 0 /\ iSize'[i] \in Nat
        BY <1>4, <2>2, <2>3, <2>4, <2>5
    <2>7. SizesInside'
        BY <2>5, <2>6 DEF OwnedInv, SizesInside
    <2>8. ASSUME NEW g \in handlesTaken
          PROVE  ofOffset'[g] <= iSize'[ofInumber[g]] /\ iSize'[ofInumber[g]] <= BlockSize
        <3>1. g \in Handles /\ ofInumber[g] \in Inodes /\ ofOffset[g] \in Nat
            BY DEF TypeOK
        <3>2. ofOffset[g] <= iSize[ofInumber[g]] /\ iSize[ofInumber[g]] <= BlockSize
            BY DEF OwnedInv, OffsetsInside
        <3>3. CASE ofInumber[g] = i /\ g # h
            <4>1. ofOffset'[g] = ofOffset[g] /\ ofOffset[g] <= iSize[i]
                BY <2>5, <3>1, <3>2, <3>3
            <4> HIDE DEF i
            <4> QED
                BY <2>3, <2>6, <3>1, <3>3, <4>1
        <3>4. CASE ofInumber[g] # i
            BY <2>5, <3>1, <3>2, <3>4
        <3>5. CASE g = h
            BY <2>5, <2>6, <3>5
        <3> QED
            BY <3>3, <3>4, <3>5
    <2>9. OffsetsInside'
        BY <1>1, <2>8 DEF OffsetsInside
    <2> QED
        BY <1>1, <2>1, <2>6, <2>7, <2>9 DEF NeverDead
<1>5. CASE /\ n > 0 /\ iSize[i] # 0
           /\ StoreBytes(h, buffer, n, iBlock[i])
           /\ UNCHANGED <<iBlock, blocksTaken>>
    <2>1. i \in Holders
        BY <1>1, <1>5 DEF Holders, OwnedInv, HandlesLive, TypeOK
    <2>2. iBlock[i] \in Blocks
        BY <2>1 DEF LiveBlocksExclusive, TypeOK
    <2>3. BlocksAccounted'
        BY <1>5, WriteKeepsBlocks DEF OwnedInv
    <2> HIDE DEF i, n
    <2> QED
        BY <1>2, <1>4, <1>5, <2>2, <2>3 DEF OwnedInv
<1>6. CASE /\ n > 0
           /\ FreeBlocks # {}
           /\ StoreBytes(h, buffer, n, Min(FreeBlocks))
    <2>1. Min(FreeBlocks) \in Blocks
        BY <1>6, FirstFree DEF FreeBlocks
    <2> HIDE DEF n
    <2>2. OffsetsInside' /\ SizesInside' /\ NeverDead' /\ iSize'[i] > 0
        BY <1>4, <1>6, <2>1
    <2>3. i \in inodesTaken
        BY <1>1 DEF OwnedInv, HandlesLive
    <2>4. BlocksAccounted'
        BY <2>2, <2>3, WriteKeepsBlocks DEF OwnedInv
    <2> QED
        BY <1>2, <2>2, <2>4 DEF OwnedInv
<1> QED
    BY <1>3, <1>5, <1>6, WriteCases

LEMMA ReadKeepsOwned ==
    ASSUME TypeOK, LiveBlocksExclusive, OwnedInv,
           NEW h \in Handles, NEW len \in 0 .. MaxLength, tfs_read(h, len), ~BadHandle(h)
    PROVE  /\ OwnedInv'
           /\ ofOffset' = [ofOffset EXCEPT ![h] = @ + ReadLength(h, len)]
           /\ ofOffset'[h] <= iSize[ofInumber[h]]
<1> DEFINE i == ofInumber[h]
           o == ofOffset[h]
           n == ReadLength(h, len)
<1>1. /\ h \in handlesTaken
      /\ UNCHANGED <<inodesTaken, iSize, iBlock, blocksTaken, handlesTaken, ofInumber>>
    BY ReadCases
<1>2. /\ o \in Nat /\ n \in Nat /\ o + n <= iSize[i] /\ Plus(o, n) = o + n
      /\ n > 0 => iBlock[i] \in Blocks /\ Span(iBlock[i], o, n) \subseteq Addresses
    <2>1. /\ o \in Nat /\ iSize[i] - o \in Nat /\ o + n \in 0 .. iSize[i]
          /\ n \in 0 .. len /\ Plus(o, n) = o + n
          /\ n > 0 => iBlock[i] \in Blocks /\ Span(iBlock[i], o, n) \subseteq Addresses
        BY <1>1, ReadExact DEF OwnedInv
    <2> HIDE DEF i, o, n
    <2> QED
        BY <2>1
<1>3. ofOffset' = [ofOffset EXCEPT ![h] = Plus(o, n)] /\ UNCHANGED status
    BY <1>2, ReadCases
<1>4. /\ ofOffset'[h] = o + n
      /\ ofOffset' = [ofOffset EXCEPT ![h] = o + n]
      /\ \A g \in Handles : g # h => ofOffset'[g] = ofOffset[g]
    BY <1>2, <1>3 DEF TypeOK
<1> HIDE DEF o, n
<1>5. OffsetsInside'
    BY <1>1, <1>2, <1>4 DEF OwnedInv, OffsetsInside, TypeOK
<1>6. BlocksAccounted'
    BY <1>1 DEF OwnedInv, BlocksAccounted, Holders
<1>7. OwnedInv'
    BY <1>1, <1>3, <1>5, <1>6 DEF OwnedInv, HandlesLive, SizesInside, NeverDead
<1> QED
    BY <1>2, <1>4, <1>7 DEF o, n

\* OwnedInv is inductive for callers that neither delete nor truncate an open
\* file, with size_t arithmetic of any width that holds a buffer and a block.
LEMMA OwnedInvariant ==
    ASSUME ~DiscardOpen
    PROVE  Spec => []OwnedInv
<1>1. Init => OwnedInv
    <2> SUFFICES ASSUME Init PROVE OwnedInv
        OBVIOUS
    <2>1. Root \in Inodes
        BY DEF Root, Inodes
    <2>2. SizesInside
        BY DEF Init, SizesInside
    <2>3. iBlock[Root] = 0 /\ Holders = {Root}
        BY <2>1 DEF Init, Holders
    <2>4. BlocksAccounted
        BY <2>3 DEF Init, BlocksAccounted
    <2> QED
        BY <2>2, <2>4 DEF Init, OwnedInv, HandlesLive, OffsetsInside, NeverDead
<1>2. /\ TypeOK /\ DirConsistent /\ LiveBlocksExclusive /\ HandlesOffRoot /\ OwnedInv
      /\ [Next]_vars
      => OwnedInv'
    <2> SUFFICES ASSUME TypeOK, DirConsistent, LiveBlocksExclusive, HandlesOffRoot, OwnedInv,
                        [Next]_vars
                 PROVE  OwnedInv'
        OBVIOUS
    <2>1. CASE Open
        BY <2>1, OpenKeepsOwned DEF Open, MayDiscard
    <2>2. CASE Unlink
        BY <2>2, UnlinkKeepsOwned DEF Unlink, MayDiscard
    <2>3. CASE /\ UNCHANGED <<inodesTaken, iSize, iBlock, blocksTaken, ofInumber, ofOffset, status>>
               /\ handlesTaken' \subseteq handlesTaken
        BY <2>3 DEF OwnedInv, HandlesLive, OffsetsInside, SizesInside, BlocksAccounted,
                    Holders, NeverDead
    <2>4. CASE Close
        BY <2>3, <2>4 DEF Close, tfs_close, BadHandle, inodeVars, blockVars, handleVars
    <2>5. CASE Write
        <3>1. PICK h \in Handles, buffer \in Payloads : tfs_write(h, buffer)
            BY <2>5 DEF Write
        <3>2. CASE BadHandle(h)
            BY <2>3, <3>2 DEF BadHandle, inodeVars, blockVars, handleVars
        <3> QED
            BY <3>1, <3>2, WriteKeepsOwned
    <2>6. CASE Read
        <3>1. PICK h \in Handles, len \in 0 .. MaxLength : tfs_read(h, len)
            BY <2>6 DEF Read
        <3>2. CASE BadHandle(h)
            BY <2>3, <3>2 DEF BadHandle, inodeVars, blockVars, handleVars
        <3> QED
            BY <3>1, <3>2, ReadKeepsOwned
    <2>7. CASE UNCHANGED vars
        BY <2>3, <2>7 DEF vars, inodeVars, blockVars, handleVars
    <2> QED
        BY <2>1, <2>2, <2>4, <2>5, <2>6, <2>7 DEF Next, Dead
<1> QED
    BY <1>1, <1>2, TypeCorrect, DirectoryConsistent, BlocksNotShared, PTL DEF Spec

\* No block leaks: tfs_unlink and O_TRUNC give back the block a file has, and
\* tfs_write takes one only for a file that exists.
THEOREM BlocksNeverLeak ==
    ASSUME ~DiscardOpen
    PROVE  Spec => []BlocksAccounted
<1>1. OwnedInv => BlocksAccounted
    BY DEF OwnedInv
<1> QED
    BY <1>1, OwnedInvariant, PTL

\* Every offset is inside its file, and every file inside its block.
THEOREM OffsetsStayInside ==
    ASSUME ~DiscardOpen
    PROVE  Spec => []OffsetsInside
<1>1. OwnedInv => OffsetsInside
    BY DEF OwnedInv
<1> QED
    BY <1>1, OwnedInvariant, PTL

\* No assertion of the file system fails, and the memcpy of tfs_write and
\* tfs_read stays inside the buffer and fs_data.
THEOREM NoCallGoesWrong ==
    ASSUME ~DiscardOpen
    PROVE  Spec => []NeverDead
<1>1. OwnedInv => NeverDead
    BY DEF OwnedInv
<1> QED
    BY <1>1, OwnedInvariant, PTL

\* tfs_read stops at the end of the file, as long as nobody truncates files
\* that are open (with O_TRUNC on an open file TLC finds the counterexample).
THEOREM ReadsEndInFile ==
    ASSUME ~DiscardOpen
    PROVE  Spec => ReadsStayInside
<1> DEFINE A == \A h \in handlesTaken : Read /\ ofOffset'[h] # ofOffset[h] =>
                    ofOffset'[h] <= iSize[ofInumber[h]]
<1>1. TypeOK /\ LiveBlocksExclusive /\ OwnedInv /\ [Next]_vars => [A]_vars
    <2> SUFFICES ASSUME TypeOK, LiveBlocksExclusive, OwnedInv, Read,
                        NEW h \in handlesTaken, ofOffset'[h] # ofOffset[h]
                 PROVE  ofOffset'[h] <= iSize[ofInumber[h]]
        OBVIOUS
    <2>1. PICK g \in Handles, len \in 0 .. MaxLength : tfs_read(g, len)
        BY DEF Read
    <2>2. ~BadHandle(g)
        BY DEF BadHandle, handleVars
    <2>3. /\ ofOffset' = [ofOffset EXCEPT ![g] = @ + ReadLength(g, len)]
          /\ ofOffset'[g] <= iSize[ofInumber[g]]
        BY <2>1, <2>2, ReadKeepsOwned
    <2>4. h = g
        BY <2>3 DEF TypeOK
    <2> QED
        BY <2>3, <2>4
<1> QED
    BY <1>1, TypeCorrect, BlocksNotShared, OwnedInvariant, PTL DEF Spec, ReadsStayInside

-----------------------------------------------------------------------------
(* Which files exist after a call, for the modules that use the files      *)

FilesAreEntries ==
    \A n \in Paths : find_in_dir(n) # -1 <=> \E e \in UsedEntries : dName[e] = n

LEMMA EntriesFound == TypeOK => FilesAreEntries
BY FindAnswers DEF FilesAreEntries, Inodes

LEMMA EntriesFoundNext == TypeOK' => FilesAreEntries'
BY EntriesFound, PTL

\* A file appears only by an open of its own name with O_CREAT.
LEMMA OpenAppears ==
    ASSUME TypeOK, TypeOK', NEW name \in Paths, NEW mode, tfs_open(name, mode),
           NEW n \in Paths, find_in_dir(n)' # -1
    PROVE  find_in_dir(n) # -1 \/ (n = name /\ "CREAT" \in mode)
<1>1. PICK f \in UsedEntries' : dName'[f] = n
    BY EntriesFoundNext DEF FilesAreEntries
<1>2. ASSUME f \in UsedEntries, dName[f] = n PROVE find_in_dir(n) # -1
    BY <1>2, EntriesFound DEF FilesAreEntries
<1>3. CASE UNCHANGED <<dName, dInumber>>
    BY <1>1, <1>2, <1>3 DEF UsedEntries, EmptyEntries
<1>4. ASSUME NEW i, NEW e \in EmptyEntries, "CREAT" \in mode,
             dName' = [dName EXCEPT ![e] = name],
             dInumber' = [dInumber EXCEPT ![e] = i]
      PROVE  find_in_dir(n) # -1 \/ (n = name /\ "CREAT" \in mode)
    <2>1. CASE f = e
        BY <1>1, <1>4, <2>1 DEF TypeOK, EmptyEntries
    <2>2. CASE f # e
        BY <1>1, <1>2, <1>4, <2>2 DEF TypeOK, UsedEntries, EmptyEntries
    <2> QED
        BY <2>1, <2>2
<1> QED
    BY <1>3, <1>4, OpenCases

\* After tfs_unlink the file of that name is gone, and no file appears.
LEMMA UnlinkDisappears ==
    ASSUME TypeOK, TypeOK', DirConsistent, NEW name \in Paths, tfs_unlink(name),
           NEW n \in Paths, find_in_dir(n)' # -1
    PROVE  find_in_dir(n) # -1 /\ n # name
<1>1. PICK f \in UsedEntries' : dName'[f] = n
    BY EntriesFoundNext DEF FilesAreEntries
<1>2. ASSUME f \in UsedEntries, dName[f] = n PROVE find_in_dir(n) # -1
    BY <1>2, EntriesFound DEF FilesAreEntries
<1>3. CASE find_in_dir(name) = -1 /\ UNCHANGED <<dName, dInumber>>
    BY <1>1, <1>2, <1>3 DEF UsedEntries, EmptyEntries
<1>4. ASSUME NEW e \in UsedEntries, dName[e] = name,
             dInumber' = [dInumber EXCEPT ![e] = -1],
             dName' = [dName EXCEPT ![e] = NoName]
      PROVE  find_in_dir(n) # -1 /\ n # name
    <2>1. f # e /\ f \in UsedEntries /\ dName[f] = n
        BY <1>1, <1>4 DEF TypeOK, UsedEntries, EmptyEntries
    <2> QED
        BY <1>2, <1>4, <2>1 DEF DirConsistent
<1> QED
    BY <1>3, <1>4, UnlinkCases

\* What find_in_dir finds stays found where it was, while the entry stays.
FoundInEntries ==
    \A n \in Paths :
        \/ find_in_dir(n) = -1 /\ \A e \in UsedEntries : dName[e] # n
        \/ \E e \in UsedEntries : dName[e] = n /\ find_in_dir(n) = dInumber[e]

LEMMA FoundNow == TypeOK => FoundInEntries
BY FindAnswers DEF FoundInEntries

LEMMA FoundNext == TypeOK' => FoundInEntries'
BY FoundNow, PTL

LEMMA FindStays ==
    ASSUME TypeOK', DirConsistent', NEW n \in Paths, NEW f \in UsedEntries',
           dName'[f] = n, dInumber'[f] = find_in_dir(n)
    PROVE  find_in_dir(n)' = find_in_dir(n)
<1>1. PICK e \in UsedEntries' : dName'[e] = n /\ find_in_dir(n)' = dInumber'[e]
    BY FoundNext DEF FoundInEntries
<1>2. e = f
    BY <1>1 DEF DirConsistent
<1> QED
    BY <1>1, <1>2

\* An open leaves every file and every handle where it is, whatever it does to
\* the file it opens.
LEMMA OpenKeepsFiles ==
    ASSUME TypeOK, TypeOK', DirConsistent, NEW name \in Paths, NEW mode, tfs_open(name, mode),
           NEW n \in Paths, find_in_dir(n) # -1
    PROVE  find_in_dir(n)' = find_in_dir(n)
<1>1. PICK f \in UsedEntries : dName[f] = n /\ find_in_dir(n) = dInumber[f]
    BY FoundNow DEF FoundInEntries
<1>2. DirConsistent'
    BY OpenKeepsDirectory
<1>3. CASE UNCHANGED <<dName, dInumber>>
    <2>1. f \in UsedEntries' /\ dName'[f] = n /\ dInumber'[f] = find_in_dir(n)
        BY <1>1, <1>3 DEF UsedEntries, EmptyEntries
    <2> QED
        BY <1>2, <2>1, FindStays
<1>4. ASSUME NEW i, NEW e \in EmptyEntries,
             dName' = [dName EXCEPT ![e] = name],
             dInumber' = [dInumber EXCEPT ![e] = i]
      PROVE  find_in_dir(n)' = find_in_dir(n)
    <2>1. f # e
        BY DEF UsedEntries
    <2>2. f \in UsedEntries' /\ dName'[f] = n /\ dInumber'[f] = find_in_dir(n)
        BY <1>1, <1>4, <2>1 DEF UsedEntries, EmptyEntries, TypeOK
    <2> QED
        BY <1>2, <2>2, FindStays
<1> QED
    BY <1>3, <1>4, OpenCases

LEMMA OpenKeepsHandles ==
    ASSUME TypeOK, NEW name \in Paths, NEW mode, tfs_open(name, mode), NEW h \in handlesTaken
    PROVE  ofInumber'[h] = ofInumber[h]
<1>1. ASSUME NEW i \in Inodes, NEW o, add_to_open_file_table(i, o)
      PROVE  ofInumber'[h] = ofInumber[h]
    BY <1>1, ObtainCases
<1>2. \A i \in FreeInodes : i \in Inodes
    BY DEF FreeInodes
<1> QED
    BY <1>1, <1>2, OpenCases

\* tfs_unlink takes no file away but the one of its name.
LEMMA UnlinkKeepsFiles ==
    ASSUME TypeOK, TypeOK', DirConsistent, NEW name \in Paths, tfs_unlink(name),
           NEW n \in Paths, n # name, find_in_dir(n) # -1
    PROVE  find_in_dir(n)' = find_in_dir(n) /\ UNCHANGED ofInumber
<1>1. PICK f \in UsedEntries : dName[f] = n /\ find_in_dir(n) = dInumber[f]
    BY FoundNow DEF FoundInEntries
<1>2. DirConsistent'
    BY UnlinkKeepsDirectory
<1>3. CASE UNCHANGED <<dName, dInumber>>
    <2>1. f \in UsedEntries' /\ dName'[f] = n /\ dInumber'[f] = find_in_dir(n)
        BY <1>1, <1>3 DEF UsedEntries, EmptyEntries
    <2> QED
        BY <1>2, <2>1, FindStays, UnlinkCases
<1>4. ASSUME NEW e \in UsedEntries, dName[e] = name,
             dInumber' = [dInumber EXCEPT ![e] = -1],
             dName' = [dName EXCEPT ![e] = NoName]
      PROVE  find_in_dir(n)' = find_in_dir(n)
    <2>1. f # e
        BY <1>1, <1>4
    <2>2. f \in UsedEntries' /\ dName'[f] = n /\ dInumber'[f] = find_in_dir(n)
        BY <1>1, <1>4, <2>1 DEF UsedEntries, EmptyEntries, TypeOK
    <2> QED
        BY <1>2, <2>2, FindStays
<1> QED
    BY <1>3, <1>4, UnlinkCases

\* The handles after a call, and what it answers.
LEMMA OpenTakesHandle ==
    ASSUME TypeOK, NEW name \in Paths, NEW mode, tfs_open(name, mode)
    PROVE  \/ returned'.value = -1 /\ handlesTaken' = handlesTaken
           \/ \E h \in FreeHandles :
                    returned'.value = h /\ handlesTaken' = handlesTaken \cup {h}
<1>1. ASSUME NEW i \in Inodes, NEW o, add_to_open_file_table(i, o)
      PROVE  \/ returned'.value = -1 /\ handlesTaken' = handlesTaken
             \/ \E h \in FreeHandles :
                    returned'.value = h /\ handlesTaken' = handlesTaken \cup {h}
    BY <1>1, ObtainCases DEF Return
<1>2. \A i \in FreeInodes : i \in Inodes
    BY DEF FreeInodes
<1>3. ASSUME Return(-1), UNCHANGED handlesTaken
      PROVE  returned'.value = -1 /\ handlesTaken' = handlesTaken
    BY <1>3 DEF Return
<1> QED
    BY <1>1, <1>2, <1>3, OpenCases

LEMMA CloseGivesHandle ==
    ASSUME NEW h, tfs_close(h)
    PROVE  /\ handlesTaken' = handlesTaken \ {h}
           /\ UNCHANGED <<dName, dInumber>>
BY DEF tfs_close, BadHandle, handleVars, dirVars

=============================================================================
