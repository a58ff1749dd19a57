------------------------- MODULE TecnicoFSRefinement -------------------------
(***************************************************************************)
(* TecnicoFS implements FileStore for callers that neither delete nor      *)
(* truncate files that are open: inodes, blocks, entries and handles that  *)
(* are reused never show.                                                  *)
(***************************************************************************)
EXTENDS TecnicoFSProofs, SequenceTheorems

USE DEF NamesAssumption, TablesAssumption, InputsAssumption
USE NamesAssumption, TablesAssumption, InputsAssumption

-----------------------------------------------------------------------------
(* What the callers see of the tables                                      *)

\* What the proofs above know of every state such callers reach.
KnownInv == TypeOK /\ DirConsistent /\ LiveBlocksExclusive /\ HandlesOffRoot /\ OwnedInv

\* A file is visible under the name of its one entry, and a handle as a place
\* in the file of that entry.
Seen ==
    /\ \A e \in UsedEntries :
          /\ dName[e] \in Names /\ dInumber[e] \in inodesTaken \ {Root}
          /\ dInumber[e] \in Inodes
          /\ find_in_dir(dName[e]) = dInumber[e]
          /\ VisibleFiles[dName[e]] = ContentsOf(dInumber[e])
    /\ \A h \in handlesTaken :
          /\ h \in Handles
          /\ \E e \in UsedEntries : dInumber[e] = ofInumber[h]
          /\ \A e \in UsedEntries : dInumber[e] = ofInumber[h] =>
                VisibleHandles[h] = [name |-> dName[e], offset |-> ofOffset[h]]
    /\ \A h \in Handles \ handlesTaken : VisibleHandles[h] = [name |-> NoName, offset |-> 0]

LEMMA KnownSeen == KnownInv => Seen
<1> SUFFICES ASSUME KnownInv PROVE Seen
    OBVIOUS
<1>1. TypeOK /\ DirConsistent /\ HandlesLive
    BY DEF KnownInv, OwnedInv
<1>2. ASSUME NEW e \in UsedEntries
      PROVE  /\ dName[e] \in Names /\ dInumber[e] \in inodesTaken \ {Root}
             /\ dInumber[e] \in Inodes
             /\ find_in_dir(dName[e]) = dInumber[e]
             /\ VisibleFiles[dName[e]] = ContentsOf(dInumber[e])
    <2>1. e \in Entries /\ dInumber[e] # -1
        BY DEF UsedEntries, EmptyEntries
    <2>2. dName[e] \in Names /\ dInumber[e] \in inodesTaken \ {Root} /\ dInumber[e] \in Inodes
        BY <1>1, <2>1 DEF TypeOK, DirConsistent
    <2>3. find_in_dir(dName[e]) = dInumber[e]
        BY <1>1, FindAnswers DEF DirConsistent
    <2>4. VisibleFiles[dName[e]] = ContentsOf(find_in_dir(dName[e]))
        BY DEF VisibleFiles
    <2> QED
        BY <2>2, <2>3, <2>4
<1>3. ASSUME NEW h \in handlesTaken
      PROVE  /\ h \in Handles
             /\ \E e \in UsedEntries : dInumber[e] = ofInumber[h]
             /\ \A e \in UsedEntries : dInumber[e] = ofInumber[h] =>
                    VisibleHandles[h] = [name |-> dName[e], offset |-> ofOffset[h]]
    <2>1. h \in Handles
        BY <1>1 DEF TypeOK
    <2>2. \E e \in UsedEntries : dInumber[e] = ofInumber[h]
        BY <1>1 DEF HandlesLive, DirConsistent
    <2>3. ASSUME NEW e \in UsedEntries, dInumber[e] = ofInumber[h]
          PROVE  VisibleHandles[h] = [name |-> dName[e], offset |-> ofOffset[h]]
        <3>1. (CHOOSE f \in UsedEntries : dInumber[f] = ofInumber[h]) = e
            BY <1>1, <2>3 DEF DirConsistent
        <3>2. NameOf(ofInumber[h]) = dName[e]
            BY <3>1 DEF NameOf
        <3> QED
            BY <2>1, <3>2 DEF VisibleHandles
    <2> QED
        BY <2>1, <2>2, <2>3
<1>4. \A h \in Handles \ handlesTaken : VisibleHandles[h] = [name |-> NoName, offset |-> 0]
    BY DEF VisibleHandles
<1> QED
    BY <1>2, <1>3, <1>4 DEF Seen

LEMMA KnownSeenNext == KnownInv' => Seen'
BY KnownSeen, PTL

\* The names of the files, and the handles that are in use, as FileStore has them.
LEMMA Views ==
    ASSUME Seen
    PROVE  /\ DOMAIN VisibleFiles = {dName[e] : e \in UsedEntries}
           /\ \A name : Files!Exists(name) <=> \E e \in UsedEntries : dName[e] = name
           /\ \A h \in Handles : Files!IsFree(h) <=> h \notin handlesTaken
<1>1. DOMAIN VisibleFiles = {dName[e] : e \in UsedEntries}
    BY DEF VisibleFiles
<1>2. ASSUME NEW h \in Handles PROVE Files!IsFree(h) <=> h \notin handlesTaken
    <2>1. CASE h \in handlesTaken
        <3>1. PICK e \in UsedEntries : dInumber[e] = ofInumber[h]
            BY <2>1 DEF Seen
        <3>2. VisibleHandles[h] = [name |-> dName[e], offset |-> ofOffset[h]] /\ dName[e] \in Names
            BY <2>1, <3>1 DEF Seen
        <3>3. dName[e] # NoName
            BY <3>2 DEF Paths
        <3> QED
            BY <2>1, <3>2, <3>3 DEF Files!IsFree, Files!Closed
    <2>2. CASE h \notin handlesTaken
        BY <2>2 DEF Seen, Files!IsFree, Files!Closed
    <2> QED
        BY <2>1, <2>2
<1> QED
    BY <1>1, <1>2 DEF Files!Exists

\* A file that FileStore has in use is open.
LEMMA InUseIsOpen ==
    ASSUME TypeOK, DirConsistent, Seen, NEW e \in UsedEntries, dName[e] \in Files!InUse
    PROVE  IsOpen(dInumber[e])
<1>1. dName[e] # NoName
    BY DEF Seen, Paths
<1>2. PICK h \in Handles : VisibleHandles[h].name = dName[e]
    BY DEF Files!InUse
<1>3. h \in handlesTaken
    BY <1>1, <1>2 DEF Seen
<1>4. PICK f \in UsedEntries : dInumber[f] = ofInumber[h]
    BY <1>3 DEF Seen
<1>5. VisibleHandles[h] = [name |-> dName[f], offset |-> ofOffset[h]]
    BY <1>3, <1>4 DEF Seen
<1>6. dName[f] = dName[e]
    BY <1>2, <1>5
<1>7. f = e
    BY <1>6 DEF DirConsistent
<1> QED
    BY <1>3, <1>4, <1>7 DEF IsOpen

-----------------------------------------------------------------------------
(* How the handles change                                                  *)

\* The entries of the files that are open stay.
OpenEntriesStay ==
    \A e \in UsedEntries : IsOpen(dInumber[e]) =>
        e \in UsedEntries' /\ dName'[e] = dName[e] /\ dInumber'[e] = dInumber[e]

LEMMA VisibleHandlesIs ==
    ASSUME NEW f, DOMAIN f = Handles, f = [h \in DOMAIN f |-> f[h]],
           \A h \in Handles : VisibleHandles'[h] = f[h]
    PROVE  VisibleHandles' = f
<1>1. VisibleHandles' = [h \in Handles |-> VisibleHandles'[h]]
    BY DEF VisibleHandles
<1> HIDE DEF VisibleHandles
<1> QED
    BY <1>1

LEMMA VisibleHandlesForm ==
    DOMAIN VisibleHandles = Handles /\ VisibleHandles = [h \in Handles |-> VisibleHandles[h]]
BY DEF VisibleHandles

\* A handle that stays open on its inode keeps its file; its offset may change.
LEMMA HandleStays ==
    ASSUME Seen, Seen', OpenEntriesStay, NEW h \in handlesTaken, h \in handlesTaken',
           ofInumber'[h] = ofInumber[h]
    PROVE  \E n : /\ VisibleHandles[h] = [name |-> n, offset |-> ofOffset[h]]
                  /\ VisibleHandles'[h] = [name |-> n, offset |-> ofOffset'[h]]
<1>1. PICK e \in UsedEntries : dInumber[e] = ofInumber[h]
    BY DEF Seen
<1>2. VisibleHandles[h] = [name |-> dName[e], offset |-> ofOffset[h]]
    BY <1>1 DEF Seen
<1>3. e \in UsedEntries' /\ dName'[e] = dName[e] /\ dInumber'[e] = dInumber[e]
    BY <1>1 DEF OpenEntriesStay, IsOpen
<1>4. VisibleHandles'[h] = [name |-> dName'[e], offset |-> ofOffset'[h]]
    BY <1>1, <1>3 DEF Seen
<1> QED
    BY <1>2, <1>3, <1>4

LEMMA HandlesSame ==
    ASSUME Seen, Seen', OpenEntriesStay, UNCHANGED <<handlesTaken, ofInumber, ofOffset>>
    PROVE  VisibleHandles' = VisibleHandles
<1>1. ASSUME NEW h \in Handles PROVE VisibleHandles'[h] = VisibleHandles[h]
    <2>1. CASE h \in handlesTaken
        <3>1. PICK n : /\ VisibleHandles[h] = [name |-> n, offset |-> ofOffset[h]]
                       /\ VisibleHandles'[h] = [name |-> n, offset |-> ofOffset'[h]]
            BY <2>1, HandleStays
        <3> QED
            BY <3>1
    <2>2. CASE h \notin handlesTaken
        BY <2>2 DEF Seen
    <2> QED
        BY <2>1, <2>2
<1> QED
    BY <1>1, VisibleHandlesForm, VisibleHandlesIs

LEMMA HandleMoves ==
    ASSUME TypeOK, Seen, Seen', OpenEntriesStay, NEW h \in handlesTaken, NEW o,
           UNCHANGED <<handlesTaken, ofInumber>>, ofOffset' = [ofOffset EXCEPT ![h] = o]
    PROVE  VisibleHandles' = [VisibleHandles EXCEPT ![h].offset = o]
<1> DEFINE f == [VisibleHandles EXCEPT ![h].offset = o]
<1>0. h \in Handles
    BY DEF Seen
<1>1. ASSUME NEW g \in Handles PROVE VisibleHandles'[g] = f[g]
    <2>1. CASE g \in handlesTaken
        <3>1. PICK n : /\ VisibleHandles[g] = [name |-> n, offset |-> ofOffset[g]]
                       /\ VisibleHandles'[g] = [name |-> n, offset |-> ofOffset'[g]]
            BY <2>1, HandleStays
        <3>2. CASE g = h
            <4>1. f[g] = [VisibleHandles[g] EXCEPT !.offset = o]
                BY <1>0, <3>2, VisibleHandlesForm
            <4>2. f[g] = [name |-> n, offset |-> o]
                BY <3>1, <4>1
            <4>3. ofOffset'[g] = o
                BY <1>0, <3>2 DEF TypeOK
            <4> QED
                BY <3>1, <4>2, <4>3
        <3>3. CASE g # h
            <4>1. f[g] = VisibleHandles[g]
                BY <3>3, VisibleHandlesForm
            <4>2. ofOffset'[g] = ofOffset[g]
                BY <3>3 DEF TypeOK
            <4> QED
                BY <3>1, <4>1, <4>2
        <3> QED
            BY <3>2, <3>3
    <2>2. CASE g \notin handlesTaken
        <3>1. f[g] = VisibleHandles[g]
            BY <2>2, VisibleHandlesForm
        <3> QED
            BY <2>2, <3>1 DEF Seen
    <2> QED
        BY <2>1, <2>2
<1>2. DOMAIN f = Handles /\ f = [g \in DOMAIN f |-> f[g]]
    BY VisibleHandlesForm
<1> HIDE DEF f
<1>3. VisibleHandles' = f
    BY <1>1, <1>2, VisibleHandlesIs
<1> QED
    BY <1>3 DEF f

LEMMA HandleOpens ==
    ASSUME TypeOK, Seen, Seen', OpenEntriesStay, NEW h \in FreeHandles, NEW e \in UsedEntries',
           NEW o, handlesTaken' = handlesTaken \cup {h},
           ofInumber'[h] = dInumber'[e], ofOffset'[h] = o,
           \A g \in handlesTaken : ofInumber'[g] = ofInumber[g] /\ ofOffset'[g] = ofOffset[g]
    PROVE  VisibleHandles' = [VisibleHandles EXCEPT ![h] = [name |-> dName'[e], offset |-> o]]
<1> DEFINE f == [VisibleHandles EXCEPT ![h] = [name |-> dName'[e], offset |-> o]]
<1>0. h \in Handles /\ h \notin handlesTaken
    BY DEF FreeHandles
<1>1. ASSUME NEW g \in Handles PROVE VisibleHandles'[g] = f[g]
    <2>1. CASE g \in handlesTaken
        <3>1. PICK n : /\ VisibleHandles[g] = [name |-> n, offset |-> ofOffset[g]]
                       /\ VisibleHandles'[g] = [name |-> n, offset |-> ofOffset'[g]]
            BY <2>1, HandleStays
        <3>2. f[g] = VisibleHandles[g]
            BY <1>0, <2>1, VisibleHandlesForm
        <3> QED
            BY <2>1, <3>1, <3>2
    <2>2. CASE g = h
        <3>1. f[g] = [name |-> dName'[e], offset |-> o]
            BY <1>0, <2>2, VisibleHandlesForm
        <3>2. VisibleHandles'[g] = [name |-> dName'[e], offset |-> ofOffset'[h]]
            BY <2>2 DEF Seen
        <3> QED
            BY <3>1, <3>2
    <2>3. CASE g \notin handlesTaken /\ g # h
        <3>1. f[g] = VisibleHandles[g]
            BY <2>3, VisibleHandlesForm
        <3>2. g \notin handlesTaken'
            BY <2>3
        <3> QED
            BY <2>3, <3>1, <3>2 DEF Seen
    <2> QED
        BY <2>1, <2>2, <2>3
<1>2. DOMAIN f = Handles /\ f = [g \in DOMAIN f |-> f[g]]
    BY VisibleHandlesForm
<1> HIDE DEF f
<1>3. VisibleHandles' = f
    BY <1>1, <1>2, VisibleHandlesIs
<1> QED
    BY <1>3 DEF f

LEMMA HandleCloses ==
    ASSUME Seen, Seen', OpenEntriesStay, NEW h \in handlesTaken,
           handlesTaken' = handlesTaken \ {h}, UNCHANGED <<ofInumber, ofOffset>>
    PROVE  VisibleHandles' = [VisibleHandles EXCEPT ![h] = [name |-> NoName, offset |-> 0]]
<1> DEFINE f == [VisibleHandles EXCEPT ![h] = [name |-> NoName, offset |-> 0]]
<1>0. h \in Handles
    BY DEF Seen
<1>1. ASSUME NEW g \in Handles PROVE VisibleHandles'[g] = f[g]
    <2>1. CASE g \in handlesTaken /\ g # h
        <3>1. PICK n : /\ VisibleHandles[g] = [name |-> n, offset |-> ofOffset[g]]
                       /\ VisibleHandles'[g] = [name |-> n, offset |-> ofOffset'[g]]
            BY <2>1, HandleStays
        <3>2. f[g] = VisibleHandles[g]
            BY <2>1, VisibleHandlesForm
        <3> QED
            BY <3>1, <3>2
    <2>2. CASE g = h
        <3>1. f[g] = [name |-> NoName, offset |-> 0]
            BY <1>0, <2>2, VisibleHandlesForm
        <3> QED
            BY <2>2, <3>1 DEF Seen
    <2>3. CASE g \notin handlesTaken
        <3>1. f[g] = VisibleHandles[g]
            BY <2>3, VisibleHandlesForm
        <3> QED
            BY <2>3, <3>1 DEF Seen
    <2> QED
        BY <2>1, <2>2, <2>3
<1>2. DOMAIN f = Handles /\ f = [g \in DOMAIN f |-> f[g]]
    BY VisibleHandlesForm
<1> HIDE DEF f
<1>3. VisibleHandles' = f
    BY <1>1, <1>2, VisibleHandlesIs
<1> QED
    BY <1>3 DEF f

-----------------------------------------------------------------------------
(* How the files change                                                    *)

LEMMA VisibleFilesForm ==
    VisibleFiles = [n \in DOMAIN VisibleFiles |-> VisibleFiles[n]]
BY DEF VisibleFiles

LEMMA VisibleFilesIs ==
    ASSUME Seen', NEW f, f = [n \in DOMAIN f |-> f[n]],
           DOMAIN f = {dName'[e] : e \in UsedEntries'},
           \A e \in UsedEntries' : VisibleFiles'[dName'[e]] = f[dName'[e]]
    PROVE  VisibleFiles' = f
<1>1. VisibleFiles' = [n \in DOMAIN VisibleFiles' |-> VisibleFiles'[n]]
    BY DEF VisibleFiles
<1>2. DOMAIN VisibleFiles' = {dName'[e] : e \in UsedEntries'}
    BY DEF VisibleFiles
<1> HIDE DEF VisibleFiles
<1> QED
    BY <1>1, <1>2

\* The contents of a file are its bytes in its block.
LEMMA ContentsForm ==
    ASSUME TypeOK, NEW i \in Inodes
    PROVE  /\ iSize[i] \in Nat
           /\ DOMAIN ContentsOf(i) = 1 .. iSize[i]
           /\ Len(ContentsOf(i)) = iSize[i]
           /\ iSize[i] = 0 => ContentsOf(i) = <<>>
<1>1. iSize[i] \in Nat /\ iBlock[i] \in Int
    BY DEF TypeOK, Blocks
<1>2. data \in [Addresses -> Bytes \cup {0}]
    BY DEF TypeOK
<1>3. DOMAIN ContentsOf(i) = 1 .. iSize[i] /\ Len(ContentsOf(i)) = iSize[i]
    BY <1>1 DEF ContentsOf
<1>4. iSize[i] = 0 => ContentsOf(i) = <<>>
    BY <1>1 DEF ContentsOf
<1> QED
    BY <1>1, <1>3, <1>4

LEMMA FilesSame ==
    ASSUME Seen, Seen', UNCHANGED <<dName, dInumber>>,
           \A e \in UsedEntries : VisibleFiles'[dName[e]] = VisibleFiles[dName[e]]
    PROVE  VisibleFiles' = VisibleFiles
<1>1. UsedEntries' = UsedEntries
    BY DEF UsedEntries, EmptyEntries
<1>2. DOMAIN VisibleFiles = {dName[e] : e \in UsedEntries}
    BY DEF VisibleFiles
<1> HIDE DEF VisibleFiles
<1> QED
    BY <1>1, <1>2, VisibleFilesForm, VisibleFilesIs

\* A file whose size, block and bytes stay has the same contents.
LEMMA ContentsStay ==
    ASSUME Seen, Seen', NEW e \in UsedEntries, e \in UsedEntries',
           NEW i, dInumber[e] = i, dInumber'[e] = i, dName'[e] = dName[e],
           iSize'[i] = iSize[i],
           \A k \in 1 .. iSize[i] :
                data'[iBlock'[i] * BlockSize + k - 1] = data[iBlock[i] * BlockSize + k - 1]
    PROVE  VisibleFiles'[dName[e]] = VisibleFiles[dName[e]]
<1>1. VisibleFiles[dName[e]] = ContentsOf(i)
    BY DEF Seen
<1>2. VisibleFiles'[dName[e]] = ContentsOf(i)'
    BY DEF Seen, ContentsOf
<1>3. ContentsOf(i)' = ContentsOf(i)
    BY DEF ContentsOf
<1> QED
    BY <1>1, <1>2, <1>3

\* No byte belongs to two blocks.
LEMMA BlocksApart ==
    ASSUME NEW b \in Blocks, NEW c \in Blocks, b # c,
           NEW x \in 0 .. BlockSize - 1, NEW y \in 0 .. BlockSize - 1
    PROVE  b * BlockSize + x # c * BlockSize + y
<1>1. ASSUME NEW p \in Blocks, NEW q \in Blocks, p < q
      PROVE  p * BlockSize \in Int /\ q * BlockSize >= p * BlockSize + BlockSize
    <2>1. q - (p + 1) \in Nat /\ p \in Nat /\ q \in Nat
        BY <1>1 DEF Blocks
    <2>2. (q - (p + 1)) * BlockSize \in Nat /\ p * BlockSize \in Int /\ q * BlockSize \in Int
        BY <2>1
    <2>3. (q - (p + 1)) * BlockSize = q * BlockSize - p * BlockSize - BlockSize
        BY <2>1
    <2> QED
        BY <2>2, <2>3
<1>2. b * BlockSize \in Int /\ c * BlockSize \in Int
    BY DEF Blocks
<1>3. CASE b < c
    <2>1. c * BlockSize >= b * BlockSize + BlockSize
        BY <1>1, <1>3
    <2> QED
        BY <1>2, <2>1
<1>4. CASE c < b
    <2>1. b * BlockSize >= c * BlockSize + BlockSize
        BY <1>1, <1>4
    <2> QED
        BY <1>2, <2>1
<1> QED
    BY <1>3, <1>4 DEF Blocks

\* A write into block b that does not change the file of another block.
LEMMA OtherBlocksStay ==
    ASSUME TypeOK, NEW b \in Blocks, NEW c \in Blocks, b # c,
           NEW o \in Nat, NEW n \in Nat, o + n <= BlockSize,
           NEW k \in 1 .. BlockSize, NEW f,
           data' = [a \in Addresses |-> IF a \in Span(b, o, n) THEN f[a] ELSE data[a]]
    PROVE  data'[c * BlockSize + k - 1] = data[c * BlockSize + k - 1]
<1> DEFINE a == c * BlockSize + k - 1
<1>1. c * BlockSize \in Int /\ b * BlockSize \in Int
    BY DEF Blocks
<1>2. a \in Addresses
    <2>1. Span(c, k - 1, 1) \subseteq Addresses
        <3>1. k - 1 \in Nat /\ 1 \in Nat /\ (k - 1) + 1 <= BlockSize
            OBVIOUS
        <3> QED
            BY <3>1, SpanInside
    <2>2. a \in Span(c, k - 1, 1)
        BY <1>1 DEF Span
    <2> QED
        BY <2>1, <2>2
<1>3. a \notin Span(b, o, n)
    <2> SUFFICES ASSUME a \in Span(b, o, n) PROVE FALSE
        OBVIOUS
    <2>1. a - b * BlockSize \in 0 .. BlockSize - 1
        BY <1>1 DEF Span
    <2>2. k - 1 \in 0 .. BlockSize - 1
        OBVIOUS
    <2>3. b * BlockSize + (a - b * BlockSize) # c * BlockSize + (k - 1)
        BY <2>1, <2>2, BlocksApart
    <2> QED
        BY <1>1, <2>3
<1> HIDE DEF a
<1>4. data'[a] = data[a]
    BY <1>2, <1>3
<1> QED
    BY <1>4 DEF a

\* What a write leaves in the file: the old contents with the bytes written.
LEMMA WriteContents ==
    ASSUME TypeOK, NEW i \in Inodes, NEW b \in Blocks, NEW buffer,
           NEW o \in Nat, NEW n \in Nat, o + n <= BlockSize, o <= iSize[i],
           iSize[i] <= BlockSize, iSize[i] > 0 => iBlock[i] = b,
           iBlock'[i] = b, iSize'[i] = IF o + n > iSize[i] THEN o + n ELSE iSize[i],
           data' = [a \in Addresses |->
                        IF a \in Span(b, o, n)
                        THEN buffer[a - (b * BlockSize + o) + 1] ELSE data[a]]
    PROVE  ContentsOf(i)' = Files!Overwrite(ContentsOf(i), o, buffer, n)
<1> DEFINE s == ContentsOf(i)
           size == iSize[i]
           end == IF o + n > size THEN o + n ELSE size
<1>1. size \in Nat /\ Len(s) = size /\ b * BlockSize \in Int
    BY ContentsForm DEF Blocks
<1>2. ASSUME NEW k \in 1 .. end
      PROVE  data'[b * BlockSize + k - 1] =
                IF k \in o + 1 .. o + n THEN buffer[k - o] ELSE s[k]
    <2> DEFINE a == b * BlockSize + k - 1
    <2>1. k \in 1 .. BlockSize
        BY <1>1
    <2>2. a \in Addresses
        <3>1. Span(b, k - 1, 1) \subseteq Addresses
            BY <2>1, SpanInside
        <3>2. a \in Span(b, k - 1, 1)
            BY <1>1 DEF Span
        <3> QED
            BY <3>1, <3>2
    <2>3. data'[a] = IF a \in Span(b, o, n)
                     THEN buffer[a - (b * BlockSize + o) + 1] ELSE data[a]
        BY <2>2
    <2>4. a \in Span(b, o, n) <=> k \in o + 1 .. o + n
        <3> DEFINE x == b * BlockSize
        <3>1. x \in Int /\ Span(b, o, n) = x + o .. x + o + n - 1 /\ a = x + k - 1
            BY <1>1 DEF Span
        <3> HIDE DEF x, a
        <3> QED
            BY <3>1
    <2>5. a - (b * BlockSize + o) + 1 = k - o
        BY <1>1, <2>1
    <2>6. ASSUME k \notin o + 1 .. o + n PROVE s[k] = data[a]
        <3>1. k \in 1 .. size
            BY <1>1, <2>6
        <3>2. size > 0
            BY <1>1, <3>1
        <3>3. iBlock[i] = b
            BY <3>2
        <3> QED
            BY <3>1, <3>3 DEF ContentsOf
    <2> HIDE DEF a, s
    <2>7. data'[a] = IF k \in o + 1 .. o + n THEN buffer[k - o] ELSE s[k]
        BY <2>3, <2>4, <2>5, <2>6
    <2> QED
        BY <2>7 DEF a
<1>3. ContentsOf(i)' = [k \in 1 .. end |-> data'[b * BlockSize + k - 1]]
    BY DEF ContentsOf
<1>4. Files!Overwrite(s, o, buffer, n) =
        [k \in 1 .. end |-> IF k \in o + 1 .. o + n THEN buffer[k - o] ELSE s[k]]
    BY <1>1 DEF Files!Overwrite
<1> HIDE DEF s, end
<1>5. ContentsOf(i)' = Files!Overwrite(s, o, buffer, n)
    BY <1>2, <1>3, <1>4
<1> QED
    BY <1>5 DEF s

LEMMA WriteNothing ==
    ASSUME TypeOK, NEW i \in Inodes, NEW buffer, NEW o \in Nat, o <= iSize[i]
    PROVE  Files!Overwrite(ContentsOf(i), o, buffer, 0) = ContentsOf(i)
<1> DEFINE s == ContentsOf(i)
<1>1. Len(s) \in Nat /\ Len(s) = iSize[i] /\ s = [k \in 1 .. Len(s) |-> s[k]]
    BY ContentsForm DEF ContentsOf
<1> HIDE DEF s
<1>2. Files!Overwrite(s, o, buffer, 0) =
        [k \in 1 .. Len(s) |-> IF k \in o + 1 .. o + 0 THEN buffer[k - o] ELSE s[k]]
    BY <1>1 DEF Files!Overwrite
<1>3. \A k \in 1 .. Len(s) : k \notin o + 1 .. o + 0
    OBVIOUS
<1>4. Files!Overwrite(s, o, buffer, 0) = s
    BY <1>1, <1>2, <1>3
<1> QED
    BY <1>4 DEF s

\* What a read returns is a part of the contents.
LEMMA ReadContents ==
    ASSUME TypeOK, NEW i \in Inodes, NEW o \in Nat, NEW n \in Nat, o + n <= iSize[i]
    PROVE  SubSeq(ContentsOf(i), o + 1, o + n) =
                [k \in 1 .. n |-> data[iBlock[i] * BlockSize + o + k - 1]]
<1> DEFINE s == ContentsOf(i)
           S == {s[k] : k \in 1 .. iSize[i]}
<1>1. iSize[i] \in Nat /\ iBlock[i] \in Int /\ iBlock[i] * BlockSize \in Int
    BY DEF TypeOK, Blocks
<1>2. \A k \in o + 1 .. o + n : s[k] \in S
    BY <1>1
<1>3. \A k \in 1 .. iSize[i] : s[k] = data[iBlock[i] * BlockSize + k - 1]
    BY DEF ContentsOf
<1> HIDE DEF s, S
<1>4. /\ SubSeq(s, o + 1, o + n) \in Seq(S)
      /\ Len(SubSeq(s, o + 1, o + n)) = n
      /\ \A k \in 1 .. n : SubSeq(s, o + 1, o + n)[k] = s[o + k]
    BY <1>1, <1>2, SubSeqProperties
<1>5. \A k \in 1 .. n : s[o + k] = data[iBlock[i] * BlockSize + o + k - 1]
    BY <1>1, <1>3
<1>6. SubSeq(s, o + 1, o + n) = [k \in 1 .. n |-> SubSeq(s, o + 1, o + n)[k]]
    <2> DEFINE t == SubSeq(s, o + 1, o + n)
    <2>1. t \in Seq(S) /\ Len(t) = n
        BY <1>4
    <2> HIDE DEF t
    <2>2. t = [k \in 1 .. n |-> t[k]]
        BY <2>1
    <2> QED
        BY <2>2 DEF t
<1>7. SubSeq(s, o + 1, o + n) = [k \in 1 .. n |-> data[iBlock[i] * BlockSize + o + k - 1]]
    BY <1>4, <1>5, <1>6
<1> QED
    BY <1>7 DEF s

LEMMA FilesUntouched ==
    ASSUME UNCHANGED <<dName, dInumber, iSize, iBlock, data>>
    PROVE  VisibleFiles' = VisibleFiles /\ OpenEntriesStay
<1>1. \A name : find_in_dir(name)' = find_in_dir(name)
    BY DEF find_in_dir
<1>2. \A i : ContentsOf(i)' = ContentsOf(i)
    BY DEF ContentsOf
<1>3. UsedEntries' = UsedEntries
    BY DEF UsedEntries, EmptyEntries
<1> QED
    BY <1>1, <1>2, <1>3 DEF VisibleFiles, OpenEntriesStay, ContentsOf

\* Only the file of one entry changes.
LEMMA OneFileChanges ==
    ASSUME DirConsistent, Seen, Seen', UNCHANGED <<dName, dInumber>>,
           NEW e \in UsedEntries, NEW c, VisibleFiles'[dName[e]] = c,
           \A f \in UsedEntries : f # e => VisibleFiles'[dName[f]] = VisibleFiles[dName[f]]
    PROVE  VisibleFiles' = [VisibleFiles EXCEPT ![dName[e]] = c]
<1> DEFINE g == [VisibleFiles EXCEPT ![dName[e]] = c]
<1>1. UsedEntries' = UsedEntries
    BY DEF UsedEntries, EmptyEntries
<1>2. DOMAIN VisibleFiles = {dName[f] : f \in UsedEntries}
    BY DEF VisibleFiles
<1>3. DOMAIN g = {dName'[f] : f \in UsedEntries'} /\ g = [n \in DOMAIN g |-> g[n]]
    BY <1>1, <1>2, VisibleFilesForm
<1>4. ASSUME NEW f \in UsedEntries' PROVE VisibleFiles'[dName'[f]] = g[dName'[f]]
    <2>1. f \in UsedEntries /\ dName'[f] = dName[f] /\ dName[f] \in DOMAIN VisibleFiles
        BY <1>1, <1>2
    <2>2. CASE f = e
        <3>1. g[dName[e]] = c
            BY <2>1, <2>2, VisibleFilesForm
        <3> QED
            BY <2>1, <2>2, <3>1
    <2>3. CASE f # e
        <3>1. dName[f] # dName[e]
            BY <2>1, <2>3 DEF DirConsistent
        <3>2. g[dName[f]] = VisibleFiles[dName[f]]
            BY <2>1, <3>1, VisibleFilesForm
        <3> QED
            BY <2>1, <2>3, <3>2
    <2> QED
        BY <2>2, <2>3
<1> HIDE DEF g
<1>5. VisibleFiles' = g
    BY <1>3, <1>4, VisibleFilesIs
<1> QED
    BY <1>5 DEF g

-----------------------------------------------------------------------------
(* Every call is one of FileStore's                                        *)

\* The file and the place of an open handle.
LEMMA HandleSees ==
    ASSUME Seen, NEW h \in handlesTaken
    PROVE  /\ h \in Handles /\ ~Files!IsFree(h)
           /\ \E e \in UsedEntries :
                 /\ dInumber[e] = ofInumber[h]
                 /\ dName[e] \in DOMAIN VisibleFiles
                 /\ VisibleHandles[h].name = dName[e]
                 /\ VisibleHandles[h].offset = ofOffset[h]
                 /\ VisibleFiles[dName[e]] = ContentsOf(ofInumber[h])
<1>1. h \in Handles /\ ~Files!IsFree(h)
    BY Views DEF Seen
<1>2. PICK e \in UsedEntries : dInumber[e] = ofInumber[h]
    BY DEF Seen
<1>3. VisibleHandles[h] = [name |-> dName[e], offset |-> ofOffset[h]]
    BY <1>2 DEF Seen
<1>4. VisibleFiles[dName[e]] = ContentsOf(ofInumber[h])
    BY <1>2 DEF Seen
<1>5. dName[e] \in DOMAIN VisibleFiles
    BY Views
<1> QED
    BY <1>1, <1>2, <1>3, <1>4, <1>5

LEMMA FailRefines ==
    ASSUME Seen, Seen', Return(-1), UNCHANGED <<handlesTaken, ofInumber, ofOffset>>,
           UNCHANGED <<dName, dInumber, iSize, iBlock, data>>
    PROVE  Files!Fail
<1>1. VisibleFiles' = VisibleFiles /\ OpenEntriesStay
    BY FilesUntouched
<1>2. VisibleHandles' = VisibleHandles
    BY <1>1, HandlesSame
<1> QED
    BY <1>1, <1>2 DEF Files!Fail, Files!Return, Return

\* tfs_close, tfs_write and tfs_read fail on a handle that is not open.
LEMMA BadHandleRefines ==
    ASSUME Seen, Seen', NEW h \in Handles, BadHandle(h)
    PROVE  Files!IsFree(h) /\ Files!Fail
<1>1. Files!IsFree(h)
    BY Views DEF BadHandle
<1> QED
    BY <1>1, FailRefines DEF BadHandle, inodeVars, blockVars, dirVars, handleVars

LEMMA CloseRefines ==
    ASSUME Seen, Seen', NEW h \in Handles, tfs_close(h)
    PROVE  Files!Close(h)
<1>1. CASE BadHandle(h)
    BY <1>1, BadHandleRefines DEF Files!Close
<1>2. CASE ~BadHandle(h)
    <2>1. /\ h \in handlesTaken /\ handlesTaken' = handlesTaken \ {h} /\ Return(0)
          /\ UNCHANGED <<ofInumber, ofOffset, dName, dInumber, iSize, iBlock, data>>
        BY <1>2 DEF tfs_close, inodeVars, blockVars, dirVars
    <2>2. VisibleFiles' = VisibleFiles /\ OpenEntriesStay
        BY <2>1, FilesUntouched
    <2>3. VisibleHandles' = [VisibleHandles EXCEPT ![h] = [name |-> NoName, offset |-> 0]]
        BY <2>1, <2>2, HandleCloses
    <2>4. ~Files!IsFree(h)
        BY <2>1, HandleSees
    <2> QED
        BY <2>1, <2>2, <2>3, <2>4 DEF Files!Close, Files!Closed, Files!Return, Return
<1> QED
    BY <1>1, <1>2

LEMMA ReadRefines ==
    ASSUME KnownInv, Seen, Seen', NEW h \in Handles, NEW len \in 0 .. MaxLength,
           tfs_read(h, len)
    PROVE  Files!Read(h, len)
<1>1. CASE BadHandle(h)
    BY <1>1, BadHandleRefines DEF Files!Read
<1>2. CASE ~BadHandle(h)
    <2> DEFINE i == ofInumber[h]
               o == ofOffset[h]
               n == ReadLength(h, len)
    <2>0. h \in handlesTaken
        BY <1>2, ReadCases
    <2>1. /\ o \in Nat /\ iSize[i] - o \in Nat
          /\ n = IF iSize[i] - o > len THEN len ELSE iSize[i] - o
          /\ n \in 0 .. len /\ o + n \in 0 .. iSize[i]
          /\ Plus(o, n) = o + n
          /\ n > 0 => iBlock[i] \in Blocks /\ Span(iBlock[i], o, n) \subseteq Addresses
        BY <2>0, ReadExact DEF KnownInv, OwnedInv
    <2>2. /\ UNCHANGED <<iSize, iBlock, data, dName, dInumber, handlesTaken, ofInumber>>
          /\ returned' = [value |-> n,
                          bytes |-> [k \in 1 .. n |-> data[iBlock[i] * BlockSize + o + k - 1]]]
          /\ ofOffset' = [ofOffset EXCEPT ![h] = Plus(o, n)]
        <3> HIDE DEF n
        <3> QED
            BY <1>2, <2>1, ReadCases DEF n
    <2>3. VisibleFiles' = VisibleFiles /\ OpenEntriesStay
        BY <2>2, FilesUntouched
    <2>4. PICK e \in UsedEntries :
            /\ dInumber[e] = ofInumber[h]
            /\ dName[e] \in DOMAIN VisibleFiles
            /\ VisibleHandles[h].name = dName[e]
            /\ VisibleHandles[h].offset = ofOffset[h]
            /\ VisibleFiles[dName[e]] = ContentsOf(ofInumber[h])
        BY <2>0, HandleSees
    <2>5. ~Files!IsFree(h)
        BY <2>0, HandleSees
    <2>6. i \in Inodes /\ iSize[i] \in Nat /\ Len(ContentsOf(i)) = iSize[i]
        BY ContentsForm DEF KnownInv, TypeOK
    <2> HIDE DEF n, o, i
    <2>7. VisibleHandles' = [VisibleHandles EXCEPT ![h].offset = o + n]
        BY <2>0, <2>1, <2>2, <2>3, HandleMoves DEF KnownInv
    <2>8. n = Files!Smaller(len, Len(VisibleFiles[dName[e]]) - o)
        BY <2>1, <2>4, <2>6 DEF Files!Smaller, i
    <2>9. SubSeq(VisibleFiles[dName[e]], o + 1, o + n) =
            [k \in 1 .. n |-> data[iBlock[i] * BlockSize + o + k - 1]]
        <3>1. TypeOK /\ n \in Nat /\ o + n <= iSize[i]
            BY <2>1, <2>6 DEF KnownInv
        <3>2. VisibleFiles[dName[e]] = ContentsOf(i)
            BY <2>4 DEF i
        <3>3. SubSeq(ContentsOf(i), o + 1, o + n) =
                [k \in 1 .. n |-> data[iBlock[i] * BlockSize + o + k - 1]]
            <4>1. TypeOK /\ i \in Inodes /\ o \in Nat /\ n \in Nat /\ o + n <= iSize[i]
                BY <2>1, <2>6, <3>1
            <4> QED
                BY <4>1, ReadContents, Zenon
        <3> QED
            BY <3>2, <3>3, Zenon
    <2> QED
        BY <2>2, <2>3, <2>4, <2>5, <2>7, <2>8, <2>9 DEF Files!Read, o
<1> QED
    BY <1>1, <1>2

\* The bytes go to the block b of the file of the handle, and of no other file.
LEMMA StoreRefines ==
    ASSUME KnownInv, Seen, Seen', NEW h \in handlesTaken, NEW buffer \in Payloads,
           NEW b \in Blocks, StoreBytes(h, buffer, WriteLength(h, buffer), b),
           UNCHANGED <<dName, dInumber, handlesTaken, ofInumber>>,
           iBlock'[ofInumber[h]] = b,
           iSize[ofInumber[h]] > 0 => iBlock[ofInumber[h]] = b,
           \A j \in Inodes : j # ofInumber[h] => iBlock'[j] = iBlock[j],
           \A j \in Holders : j # ofInumber[h] => iBlock[j] # b
    PROVE  Files!Write(h, buffer)
<1> DEFINE i == ofInumber[h]
           o == ofOffset[h]
           n == WriteLength(h, buffer)
<1>0. TypeOK /\ DirConsistent /\ LiveBlocksExclusive /\ OffsetsInside /\ SizesInside
    BY DEF KnownInv, OwnedInv
<1>1. /\ data' = [a \in Addresses |->
                        IF a \in Span(b, o, n)
                        THEN buffer[a - (b * BlockSize + o) + 1] ELSE data[a]]
      /\ ofOffset' = [ofOffset EXCEPT ![h] = o + n]
      /\ iSize' = [iSize EXCEPT ![i] = IF o + n > @ THEN o + n ELSE @]
      /\ Return(n)
    BY <1>0, StoreExact
<1>2. /\ o \in 0 .. BlockSize
      /\ n = IF Len(buffer) > BlockSize - o THEN BlockSize - o ELSE Len(buffer)
      /\ n \in 0 .. Len(buffer) /\ o + n \in 0 .. BlockSize
    BY <1>0, WriteExact
<1>3. /\ h \in Handles /\ i \in Inodes /\ iSize[i] \in Nat
      /\ iSize[i] <= BlockSize /\ o <= iSize[i]
    BY <1>0 DEF TypeOK, SizesInside, OffsetsInside
<1>4. PICK e \in UsedEntries :
        /\ dInumber[e] = ofInumber[h]
        /\ dName[e] \in DOMAIN VisibleFiles
        /\ VisibleHandles[h].name = dName[e]
        /\ VisibleHandles[h].offset = ofOffset[h]
        /\ VisibleFiles[dName[e]] = ContentsOf(ofInumber[h])
    BY HandleSees
<1>5. ~Files!IsFree(h)
    BY HandleSees
<1>6. UsedEntries' = UsedEntries /\ OpenEntriesStay
    BY DEF UsedEntries, EmptyEntries, OpenEntriesStay
<1>7. o \in Nat /\ n \in Nat /\ o + n <= BlockSize
    BY <1>2, PayloadIsBuffer
<1>8. /\ iSize'[i] = IF o + n > iSize[i] THEN o + n ELSE iSize[i]
      /\ \A j \in Inodes : j # i => iSize'[j] = iSize[j]
    BY <1>0, <1>1, <1>3 DEF TypeOK
<1>9. VisibleHandles' = [VisibleHandles EXCEPT ![h].offset = o + n]
    <2> HIDE DEF o, n
    <2> QED
        BY <1>0, <1>1, <1>6, HandleMoves
<1>10. VisibleFiles'[dName[e]] = Files!Overwrite(VisibleFiles[dName[e]], o, buffer, n)
    <2>1. ContentsOf(i)' = Files!Overwrite(ContentsOf(i), o, buffer, n)
        <3> DEFINE p == ofInumber[h]
        <3>1. i = p
            OBVIOUS
        <3> HIDE DEF i, o, n
        <3> QED
            BY <1>0, <1>1, <1>3, <1>7, <1>8, WriteContents DEF i
    <2>2. VisibleFiles'[dName[e]] = ContentsOf(i)'
        BY <1>4, <1>6 DEF Seen, ContentsOf
    <2> QED
        BY <1>4, <2>1, <2>2
<1>11. ASSUME NEW f \in UsedEntries, f # e
       PROVE  VisibleFiles'[dName[f]] = VisibleFiles[dName[f]]
    <2> DEFINE j == dInumber[f]
    <2>1. j \in Inodes /\ j \in inodesTaken /\ j # i
        BY <1>0, <1>4, <1>11 DEF Seen, DirConsistent
    <2>2. /\ iSize[j] \in Nat /\ iSize[j] <= BlockSize
          /\ iSize'[j] = iSize[j] /\ iBlock'[j] = iBlock[j]
        BY <1>0, <1>8, <2>1 DEF TypeOK, SizesInside
    <2>3. ASSUME NEW k \in 1 .. iSize[j]
          PROVE  data'[iBlock'[j] * BlockSize + k - 1] = data[iBlock[j] * BlockSize + k - 1]
        <3>1. j \in Holders
            BY <2>1, <2>2 DEF Holders
        <3>2. iBlock[j] \in Blocks /\ iBlock[j] # b
            BY <1>0, <2>1, <3>1 DEF LiveBlocksExclusive, TypeOK
        <3>3. k \in 1 .. BlockSize
            BY <2>2
        <3> DEFINE g == [a \in Addresses |-> buffer[a - (b * BlockSize + o) + 1]]
        <3>4. data' = [a \in Addresses |-> IF a \in Span(b, o, n) THEN g[a] ELSE data[a]]
            BY <1>1
        <3> HIDE DEF g, o, n, j
        <3> QED
            BY <1>0, <1>7, <2>2, <3>2, <3>3, <3>4, OtherBlocksStay
    <2>4. dInumber'[f] = j /\ dName'[f] = dName[f] /\ f \in UsedEntries'
        BY <1>6
    <2> HIDE DEF j
    <2> QED
        BY <2>2, <2>3, <2>4, ContentsStay DEF j
<1>12. VisibleFiles' = [VisibleFiles EXCEPT ![dName[e]] =
                            Files!Overwrite(VisibleFiles[dName[e]], o, buffer, n)]
    <2> DEFINE c == Files!Overwrite(VisibleFiles[dName[e]], o, buffer, n)
    <2>1. VisibleFiles'[dName[e]] = c
        BY <1>10
    <2> HIDE DEF c
    <2>2. VisibleFiles' = [VisibleFiles EXCEPT ![dName[e]] = c]
        BY <1>0, <1>11, <2>1, OneFileChanges
    <2> QED
        BY <2>2 DEF c
<1>13. n = Files!Smaller(Len(buffer), BlockSize - o)
    BY <1>2, <1>7, PayloadIsBuffer DEF Files!Smaller
<1> HIDE DEF n
<1> QED
    BY <1>1, <1>4, <1>5, <1>9, <1>12, <1>13 DEF Files!Write, Files!Return, Return

LEMMA WriteRefines ==
    ASSUME KnownInv, Seen, Seen', NEW h \in Handles, NEW buffer \in Payloads,
           tfs_write(h, buffer)
    PROVE  Files!Write(h, buffer)
<1> DEFINE i == ofInumber[h]
           o == ofOffset[h]
           n == WriteLength(h, buffer)
<1>0. TypeOK /\ LiveBlocksExclusive /\ OffsetsInside /\ HandlesLive
    BY DEF KnownInv, OwnedInv
<1>1. CASE BadHandle(h)
    BY <1>1, BadHandleRefines DEF Files!Write
<1>2. ASSUME ~BadHandle(h)
      PROVE  h \in handlesTaken /\ UNCHANGED <<dName, dInumber, handlesTaken, ofInumber>>
    BY <1>2, WriteCases
<1>3. ASSUME ~BadHandle(h)
      PROVE  /\ i \in Inodes /\ i \in inodesTaken /\ iSize[i] \in Nat /\ o <= iSize[i]
             /\ o \in Nat /\ n = Files!Smaller(Len(buffer), BlockSize - o)
    <2>1. i \in Inodes /\ i \in inodesTaken /\ iSize[i] \in Nat /\ o <= iSize[i]
        BY <1>0, <1>2, <1>3 DEF TypeOK, OffsetsInside, HandlesLive
    <2>2. /\ o \in 0 .. BlockSize
          /\ n = IF Len(buffer) > BlockSize - o THEN BlockSize - o ELSE Len(buffer)
        BY <1>0, <1>2, <1>3, WriteExact
    <2>3. n = Files!Smaller(Len(buffer), BlockSize - o)
        BY <2>2, PayloadIsBuffer DEF Files!Smaller
    <2> QED
        BY <2>1, <2>2, <2>3
<1>4. ASSUME ~BadHandle(h), n = 0, Return(0),
             UNCHANGED <<iSize, iBlock, data, ofOffset>>
      PROVE  Files!Write(h, buffer)
    <2>1. VisibleFiles' = VisibleFiles /\ OpenEntriesStay
        BY <1>2, <1>4, FilesUntouched
    <2>2. PICK e \in UsedEntries :
            /\ dInumber[e] = ofInumber[h]
            /\ dName[e] \in DOMAIN VisibleFiles
            /\ VisibleHandles[h].name = dName[e]
            /\ VisibleHandles[h].offset = ofOffset[h]
            /\ VisibleFiles[dName[e]] = ContentsOf(ofInumber[h])
        BY <1>2, <1>4, HandleSees
    <2>3. ~Files!IsFree(h)
        BY <1>2, <1>4, HandleSees
    <2>4. ofOffset' = [ofOffset EXCEPT ![h] = o + 0]
        BY <1>0, <1>3, <1>4 DEF TypeOK
    <2>5. VisibleHandles' = [VisibleHandles EXCEPT ![h].offset = o + 0]
        <3> HIDE DEF o
        <3> QED
            BY <1>0, <1>2, <1>4, <2>1, <2>4, HandleMoves
    <2>6. Files!Overwrite(VisibleFiles[dName[e]], o, buffer, 0) = VisibleFiles[dName[e]]
        <3>1. VisibleFiles[dName[e]] = ContentsOf(i)
            BY <2>2
        <3> HIDE DEF i, o
        <3> QED
            BY <1>0, <1>3, <1>4, <3>1, WriteNothing
    <2>7. VisibleFiles' = [VisibleFiles EXCEPT ![dName[e]] =
                                Files!Overwrite(VisibleFiles[dName[e]], o, buffer, 0)]
        BY <2>1, <2>6, VisibleFilesForm
    <2>8. Files!Smaller(Len(buffer), BlockSize - o) = 0
        BY <1>3, <1>4
    <2> HIDE DEF n
    <2> QED
        BY <1>4, <2>2, <2>3, <2>5, <2>7, <2>8 DEF Files!Write, Files!Return, Return
<1>5. ASSUME ~BadHandle(h), n > 0, iSize[i] = 0, Return(-1),
             UNCHANGED <<iSize, iBlock, data, ofOffset>>
      PROVE  Files!Write(h, buffer)
    <2>1. Files!Fail
        BY <1>2, <1>5, FailRefines
    <2>2. PICK e \in UsedEntries :
            /\ dInumber[e] = ofInumber[h]
            /\ dName[e] \in DOMAIN VisibleFiles
            /\ VisibleHandles[h].name = dName[e]
            /\ VisibleHandles[h].offset = ofOffset[h]
            /\ VisibleFiles[dName[e]] = ContentsOf(ofInumber[h])
        BY <1>2, <1>5, HandleSees
    <2>3. ~Files!IsFree(h)
        BY <1>2, <1>5, HandleSees
    <2>4. VisibleFiles[dName[e]] = <<>>
        BY <1>0, <1>3, <1>5, <2>2, ContentsForm
    <2>5. Files!Smaller(Len(buffer), BlockSize - o) > 0
        BY <1>3, <1>5
    <2> HIDE DEF n
    <2> QED
        BY <2>1, <2>2, <2>3, <2>4, <2>5 DEF Files!Write
<1>6. ASSUME ~BadHandle(h), n > 0, iSize[i] # 0,
             StoreBytes(h, buffer, n, iBlock[i]), UNCHANGED iBlock
      PROVE  Files!Write(h, buffer)
    <2>1. i \in Holders
        BY <1>3, <1>6 DEF Holders
    <2>2. /\ iBlock[i] \in Blocks
          /\ \A j \in Holders : j # i => iBlock[j] # iBlock[i]
        BY <1>0, <2>1 DEF LiveBlocksExclusive, TypeOK
    <2> QED
        BY <1>2, <1>6, <2>2, StoreRefines
<1>7. ASSUME ~BadHandle(h), iSize[i] = 0, FreeBlocks # {},
             iBlock' = [iBlock EXCEPT ![i] = Min(FreeBlocks)],
             StoreBytes(h, buffer, n, Min(FreeBlocks))
      PROVE  Files!Write(h, buffer)
    <2> DEFINE b == Min(FreeBlocks)
    <2>1. b \in Blocks /\ b \notin blocksTaken
        BY <1>0, <1>7, FirstFree DEF FreeBlocks
    <2>2. \A j \in Holders : iBlock[j] # b
        BY <1>0, <2>1 DEF LiveBlocksExclusive
    <2>3. iBlock'[i] = b /\ \A j \in Inodes : j # i => iBlock'[j] = iBlock[j]
        BY <1>0, <1>3, <1>7 DEF TypeOK
    <2>4. StoreBytes(h, buffer, n, b)
        BY <1>7
    <2> HIDE DEF b
    <2> QED
        BY <1>2, <1>7, <2>1, <2>2, <2>3, <2>4, StoreRefines
<1>8. ASSUME ~BadHandle(h) PROVE Files!Write(h, buffer)
    BY <1>4, <1>5, <1>6, <1>7, <1>8, WriteCases
<1> QED
    BY <1>1, <1>8

LEMMA NotThere ==
    ASSUME TypeOK, Seen, NEW name, find_in_dir(name) = -1
    PROVE  ~Files!Exists(name)
BY FindAnswers, Views DEF Inodes

\* The handle tfs_open returns is on the file it found or created.
LEMMA ObtainRefines ==
    ASSUME TypeOK, Seen, Seen', OpenEntriesStay, NEW e \in UsedEntries',
           NEW i \in Inodes, dInumber'[e] = i, NEW o, add_to_open_file_table(i, o)
    PROVE  Files!Obtain(dName'[e], o)
<1>1. CASE FreeHandles = {} /\ Return(-1) /\ UNCHANGED <<handlesTaken, ofInumber, ofOffset>>
    <2>1. VisibleHandles' = VisibleHandles
        BY <1>1, HandlesSame
    <2>2. \A h \in Handles : ~Files!IsFree(h)
        BY <1>1, Views DEF FreeHandles
    <2> QED
        BY <1>1, <2>1, <2>2 DEF Files!Obtain, Files!Return, Return
<1>2. ASSUME NEW h \in FreeHandles, Return(h), handlesTaken' = handlesTaken \cup {h},
             ofInumber'[h] = i, ofOffset'[h] = o,
             \A g \in handlesTaken : ofInumber'[g] = ofInumber[g] /\ ofOffset'[g] = ofOffset[g]
      PROVE  Files!Obtain(dName'[e], o)
    <2>1. VisibleHandles' = [VisibleHandles EXCEPT ![h] = [name |-> dName'[e], offset |-> o]]
        BY <1>2, HandleOpens
    <2>2. h \in Handles /\ Files!IsFree(h)
        BY Views DEF FreeHandles
    <2> QED
        BY <1>2, <2>1, <2>2 DEF Files!Obtain, Files!Return, Return
<1> QED
    BY <1>1, <1>2, ObtainCases

LEMMA OpenExistingRefines ==
    ASSUME KnownInv, Seen, Seen', NEW mode, NEW i \in Inodes, NEW e \in UsedEntries,
           i = dInumber[e],
           IF "TRUNC" \in mode
           THEN release_block(i) /\ iSize' = [iSize EXCEPT ![i] = 0]
           ELSE UNCHANGED <<blocksTaken, status, iSize>>,
           add_to_open_file_table(i, IF "APPEND" \in mode /\ "TRUNC" \notin mode
                                     THEN iSize[i] ELSE 0),
           UNCHANGED <<iBlock, data, dName, dInumber>>,
           "TRUNC" \in mode => ~IsOpen(i)
    PROVE  Files!Open(dName[e], mode)
<1> DEFINE o == IF "APPEND" \in mode /\ "TRUNC" \notin mode THEN iSize[i] ELSE 0
<1>0. TypeOK /\ DirConsistent
    BY DEF KnownInv
<1>1. UsedEntries' = UsedEntries /\ OpenEntriesStay
    BY DEF UsedEntries, EmptyEntries, OpenEntriesStay
<1>2. Files!Exists(dName[e]) /\ VisibleFiles[dName[e]] = ContentsOf(i)
    BY Views DEF Seen
<1>3. Files!Obtain(dName[e], o)
    <2>1. add_to_open_file_table(i, o) /\ dInumber'[e] = i /\ dName'[e] = dName[e]
        OBVIOUS
    <2> HIDE DEF o
    <2>2. Files!Obtain(dName'[e], o)
        BY <1>0, <1>1, <2>1, ObtainRefines
    <2> QED
        BY <2>1, <2>2
<1>4. CASE "TRUNC" \notin mode
    <2>1. VisibleFiles' = VisibleFiles
        BY <1>4, FilesUntouched
    <2>2. o = IF "APPEND" \in mode THEN Len(VisibleFiles[dName[e]]) ELSE 0
        BY <1>0, <1>2, <1>4, ContentsForm
    <2> HIDE DEF o
    <2> QED
        BY <1>2, <1>3, <1>4, <2>1, <2>2 DEF Files!Open
<1>5. CASE "TRUNC" \in mode
    <2>1. dName[e] \notin Files!InUse
        BY <1>0, <1>5, InUseIsOpen
    <2>2. iSize' = [iSize EXCEPT ![i] = 0] /\ o = 0
        BY <1>5
    <2>3. VisibleFiles'[dName[e]] = <<>>
        <3>1. iSize'[i] = 0
            BY <1>0, <2>2 DEF TypeOK
        <3>2. VisibleFiles'[dName[e]] = ContentsOf(i)'
            BY <1>1 DEF Seen, ContentsOf
        <3>3. ContentsOf(i)' = <<>>
            BY <3>1 DEF ContentsOf
        <3> QED
            BY <3>2, <3>3
    <2>4. ASSUME NEW f \in UsedEntries, f # e
          PROVE  VisibleFiles'[dName[f]] = VisibleFiles[dName[f]]
        <3> DEFINE j == dInumber[f]
        <3>1. j \in Inodes /\ j # i
            BY <1>0, <2>4 DEF Seen, DirConsistent
        <3>2. iSize'[j] = iSize[j] /\ iBlock'[j] = iBlock[j]
            BY <1>0, <2>2, <3>1 DEF TypeOK
        <3>3. dInumber'[f] = j /\ dName'[f] = dName[f] /\ f \in UsedEntries'
            BY <1>1
        <3> HIDE DEF j
        <3> QED
            BY <3>2, <3>3, ContentsStay DEF j
    <2>5. VisibleFiles' = [VisibleFiles EXCEPT ![dName[e]] = <<>>]
        BY <1>0, <2>3, <2>4, OneFileChanges
    <2> HIDE DEF o
    <2> QED
        BY <1>2, <1>3, <1>5, <2>1, <2>2, <2>5 DEF Files!Open
<1> QED
    BY <1>4, <1>5

\* An inode that is initialised but not used shows nowhere.
LEMMA OpenFailsRefines ==
    ASSUME KnownInv, Seen, Seen', NEW i \in FreeInodes, inode_create(i), Return(-1),
           UNCHANGED <<data, dName, dInumber, handlesTaken, ofInumber, ofOffset>>
    PROVE  Files!Fail
<1>1. UsedEntries' = UsedEntries /\ OpenEntriesStay
    BY DEF UsedEntries, EmptyEntries, OpenEntriesStay
<1>2. ASSUME NEW f \in UsedEntries
      PROVE  VisibleFiles'[dName[f]] = VisibleFiles[dName[f]]
    <2> DEFINE j == dInumber[f]
    <2>1. j \in Inodes /\ j # i
        BY DEF Seen, FreeInodes
    <2>2. iSize'[j] = iSize[j] /\ iBlock'[j] = iBlock[j]
        BY <2>1 DEF inode_create, KnownInv, TypeOK
    <2>3. dInumber'[f] = j /\ dName'[f] = dName[f] /\ f \in UsedEntries'
        BY <1>1
    <2> HIDE DEF j
    <2> QED
        BY <2>2, <2>3, ContentsStay DEF j
<1>3. VisibleFiles' = VisibleFiles
    BY <1>2, FilesSame
<1>4. VisibleHandles' = VisibleHandles
    BY <1>1, HandlesSame
<1> QED
    BY <1>3, <1>4 DEF Files!Fail, Files!Return, Return

LEMMA OpenCreateRefines ==
    ASSUME KnownInv, Seen, Seen', NEW name \in Names, NEW mode, "CREAT" \in mode,
           NEW i \in FreeInodes, NEW e \in EmptyEntries, find_in_dir(name) = -1,
           \A f \in UsedEntries : dName[f] # name,
           inode_create(i),
           dName' = [dName EXCEPT ![e] = name], dInumber' = [dInumber EXCEPT ![e] = i],
           add_to_open_file_table(i, 0), UNCHANGED data
    PROVE  Files!Open(name, mode)
<1> DEFINE g == [n \in DOMAIN VisibleFiles \cup {name} |->
                    IF n = name THEN <<>> ELSE VisibleFiles[n]]
<1>0. TypeOK
    BY DEF KnownInv
<1>1. /\ i \in Inodes /\ e \in Entries /\ e \notin UsedEntries /\ i # -1
      /\ dName'[e] = name /\ dInumber'[e] = i
      /\ \A f \in UsedEntries : f # e /\ dName'[f] = dName[f] /\ dInumber'[f] = dInumber[f]
    BY <1>0 DEF FreeInodes, EmptyEntries, UsedEntries, Inodes, TypeOK
<1>2. UsedEntries' = UsedEntries \cup {e}
    BY <1>0, <1>1 DEF UsedEntries, EmptyEntries, TypeOK
<1>3. OpenEntriesStay
    BY <1>1, <1>2 DEF OpenEntriesStay
<1>4. DOMAIN VisibleFiles = {dName[f] : f \in UsedEntries}
    BY Views
<1>5. DOMAIN g = {dName'[f] : f \in UsedEntries'} /\ g = [n \in DOMAIN g |-> g[n]]
    BY <1>1, <1>2, <1>4
<1>6. /\ iSize'[i] = 0
      /\ \A j \in Inodes : j # i => iSize'[j] = iSize[j] /\ iBlock'[j] = iBlock[j]
    BY <1>0, <1>1 DEF inode_create, TypeOK
<1>7. VisibleFiles'[name] = <<>>
    <2>1. VisibleFiles'[name] = ContentsOf(i)'
        BY <1>1, <1>2 DEF Seen, ContentsOf
    <2>2. ContentsOf(i)' = <<>>
        BY <1>6 DEF ContentsOf
    <2> QED
        BY <2>1, <2>2
<1>8. ASSUME NEW f \in UsedEntries
      PROVE  VisibleFiles'[dName[f]] = VisibleFiles[dName[f]]
    <2> DEFINE j == dInumber[f]
    <2>1. j \in Inodes /\ j # i
        BY DEF Seen, FreeInodes
    <2>2. iSize'[j] = iSize[j] /\ iBlock'[j] = iBlock[j]
        BY <1>6, <2>1
    <2>3. dInumber'[f] = j /\ dName'[f] = dName[f] /\ f \in UsedEntries'
        BY <1>1, <1>2
    <2> HIDE DEF j
    <2> QED
        BY <2>2, <2>3, ContentsStay DEF j
<1>9. ASSUME NEW f \in UsedEntries' PROVE VisibleFiles'[dName'[f]] = g[dName'[f]]
    <2> HIDE DEF VisibleFiles
    <2>1. CASE f = e
        BY <1>1, <1>7, <2>1
    <2>2. CASE f \in UsedEntries
        BY <1>1, <1>4, <1>8, <2>2
    <2> QED
        BY <1>2, <2>1, <2>2
<1>10. VisibleFiles' = g
    <2> HIDE DEF g
    <2> QED
        BY <1>5, <1>9, VisibleFilesIs
<1>11. Files!Obtain(name, 0)
    <2>1. Files!Obtain(dName'[e], 0)
        BY <1>0, <1>1, <1>2, <1>3, ObtainRefines
    <2> QED
        BY <1>1, <2>1
<1>12. ~Files!Exists(name)
    BY <1>0, NotThere
<1> QED
    BY <1>10, <1>11, <1>12 DEF Files!Open

LEMMA OpenRefines ==
    ASSUME KnownInv, Seen, Seen', NEW name \in Paths, NEW mode, tfs_open(name, mode),
           "TRUNC" \in mode => ~IsOpen(find_in_dir(name))
    PROVE  Files!Open(name, mode)
<1>0. TypeOK /\ UNCHANGED data
    BY OpenCases DEF KnownInv
<1>1. ASSUME NEW i \in Inodes, NEW e \in UsedEntries,
             i = find_in_dir(name), dName[e] = name, i = dInumber[e],
             IF "TRUNC" \in mode
             THEN release_block(i) /\ iSize' = [iSize EXCEPT ![i] = 0]
             ELSE UNCHANGED <<blocksTaken, status, iSize>>,
             add_to_open_file_table(i, IF "APPEND" \in mode /\ "TRUNC" \notin mode
                                       THEN iSize[i] ELSE 0),
             UNCHANGED <<inodesTaken, iBlock, dName, dInumber>>
      PROVE  Files!Open(name, mode)
    <2>1. Files!Open(dName[e], mode)
        BY <1>0, <1>1, OpenExistingRefines
    <2> QED
        BY <1>1, <2>1
<1>2. CASE /\ Return(-1)
           /\ find_in_dir(name) = -1
           /\ UNCHANGED <<inodesTaken, iSize, iBlock, blocksTaken, dName, dInumber,
                          handlesTaken, ofInumber, ofOffset, status>>
    <2>1. Files!Fail
        BY <1>0, <1>2, FailRefines
    <2> QED
        BY <1>0, <1>2, <2>1, NotThere DEF Files!Open
<1>3. ASSUME NEW i \in FreeInodes, find_in_dir(name) = -1, inode_create(i), Return(-1),
             UNCHANGED <<inodesTaken, blocksTaken, dName, dInumber,
                         handlesTaken, ofInumber, ofOffset, status>>
      PROVE  Files!Open(name, mode)
    <2>1. Files!Fail
        BY <1>0, <1>3, OpenFailsRefines
    <2> QED
        BY <1>0, <1>3, <2>1, NotThere DEF Files!Open
<1> QED
    BY <1>0, <1>1, <1>2, <1>3, OpenCases, OpenCreateRefines

LEMMA UnlinkRefines ==
    ASSUME KnownInv, Seen, Seen', NEW name \in Paths, tfs_unlink(name),
           ~IsOpen(find_in_dir(name))
    PROVE  Files!Unlink(name)
<1>0. TypeOK /\ DirConsistent
    BY DEF KnownInv
<1>1. UNCHANGED <<iSize, iBlock, data, handlesTaken, ofInumber, ofOffset>>
    BY <1>0, UnlinkCases
<1>2. CASE find_in_dir(name) = -1 /\ Return(-1) /\ UNCHANGED <<dName, dInumber>>
    <2>1. Files!Fail
        BY <1>1, <1>2, FailRefines
    <2> QED
        BY <1>0, <1>2, <2>1, NotThere DEF Files!Unlink
<1>3. ASSUME NEW e \in UsedEntries, dName[e] = name, dInumber[e] = find_in_dir(name),
             dInumber' = [dInumber EXCEPT ![e] = -1],
             dName' = [dName EXCEPT ![e] = NoName],
             Return(0)
      PROVE  Files!Unlink(name)
    <2> DEFINE g == Files!Restrict(VisibleFiles, DOMAIN VisibleFiles \ {name})
    <2>1. /\ UsedEntries' = UsedEntries \ {e}
          /\ \A f \in UsedEntries' : dName'[f] = dName[f] /\ dInumber'[f] = dInumber[f]
        BY <1>0, <1>3 DEF UsedEntries, EmptyEntries, TypeOK
    <2>2. OpenEntriesStay
        BY <1>3, <2>1 DEF OpenEntriesStay
    <2>3. VisibleHandles' = VisibleHandles
        BY <1>1, <2>2, HandlesSame
    <2>4. Files!Exists(name) /\ name \notin Files!InUse
        BY <1>0, <1>3, InUseIsOpen, Views
    <2>5. DOMAIN VisibleFiles = {dName[f] : f \in UsedEntries}
        BY Views
    <2>6. g = [n \in DOMAIN VisibleFiles \ {name} |-> VisibleFiles[n]]
        BY DEF Files!Restrict
    <2>7. \A f \in UsedEntries : dName[f] = name => f = e
        BY <1>0, <1>3 DEF DirConsistent
    <2> HIDE DEF g
    <2>8. DOMAIN g = {dName'[f] : f \in UsedEntries'} /\ g = [n \in DOMAIN g |-> g[n]]
        BY <1>3, <2>1, <2>5, <2>6, <2>7
    <2>9. ASSUME NEW f \in UsedEntries' PROVE VisibleFiles'[dName'[f]] = g[dName'[f]]
        <3>1. g[dName[f]] = VisibleFiles[dName[f]]
            BY <2>1, <2>5, <2>6, <2>7
        <3>2. VisibleFiles'[dName[f]] = VisibleFiles[dName[f]]
            <4> DEFINE i == dInumber[f]
            <4>1. f \in UsedEntries /\ dInumber'[f] = i /\ dName'[f] = dName[f]
                BY <2>1
            <4>2. iSize'[i] = iSize[i] /\ iBlock'[i] = iBlock[i]
                BY <1>1
            <4> HIDE DEF i
            <4> QED
                BY <1>1, <4>1, <4>2, ContentsStay DEF i
        <3> QED
            BY <2>1, <3>1, <3>2
    <2>10. VisibleFiles' = g
        BY <2>8, <2>9, VisibleFilesIs
    <2> QED
        BY <1>3, <2>3, <2>4, <2>10 DEF Files!Unlink, Files!Return, Return, g
<1> QED
    BY <1>0, <1>2, <1>3, UnlinkCases

LEMMA InitRefines == Init => Files!Init
<1> SUFFICES ASSUME Init PROVE Files!Init
    OBVIOUS
<1>1. UsedEntries = {}
    BY DEF Init, UsedEntries, EmptyEntries
<1>2. VisibleFiles = << >>
    BY <1>1 DEF VisibleFiles
<1>3. VisibleHandles = [h \in Handles |-> [name |-> NoName, offset |-> 0]]
    BY DEF Init, VisibleHandles
<1> QED
    BY <1>2, <1>3 DEF Init, Files!Init, Files!Closed

LEMMA StepRefines ==
    ASSUME ~DiscardOpen, KnownInv, KnownInv', [Next]_vars
    PROVE  [Files!Next]_(Files!vars)
<1>0. Seen /\ Seen'
    BY KnownSeen, KnownSeenNext
<1>1. CASE Open
    <2>1. PICK name \in Paths, mode \in Modes :
            /\ "TRUNC" \in mode => ~IsOpen(find_in_dir(name))
            /\ tfs_open(name, mode)
        BY <1>1 DEF Open, MayDiscard
    <2>2. Files!Open(name, mode)
        BY <1>0, <2>1, OpenRefines
    <2> QED
        BY <2>2 DEF Files!Next, Files!Modes, Modes, Paths
<1>2. CASE Unlink
    <2>1. PICK name \in Paths : ~IsOpen(find_in_dir(name)) /\ tfs_unlink(name)
        BY <1>2 DEF Unlink, MayDiscard
    <2>2. Files!Unlink(name)
        BY <1>0, <2>1, UnlinkRefines
    <2> QED
        BY <2>2 DEF Files!Next, Paths
<1>3. CASE Close
    BY <1>0, <1>3, CloseRefines DEF Close, Files!Next
<1>4. CASE Write
    BY <1>0, <1>4, WriteRefines DEF Write, Files!Next, Files!Payloads, Payloads
<1>5. CASE Read
    BY <1>0, <1>5, ReadRefines DEF Read, Files!Next
<1>6. CASE UNCHANGED vars
    <2>1. VisibleFiles' = VisibleFiles /\ OpenEntriesStay
        BY <1>6, FilesUntouched DEF vars, inodeVars, blockVars, dirVars
    <2>2. VisibleHandles' = VisibleHandles
        BY <1>0, <1>6, <2>1, HandlesSame DEF vars, handleVars
    <2> QED
        BY <1>6, <2>1, <2>2 DEF Files!vars, vars
<1> QED
    BY <1>1, <1>2, <1>3, <1>4, <1>5, <1>6 DEF Next, Dead

\* Callers that neither delete nor truncate an open file see named files and
\* handles only: every tfs_* call does and answers what FileStore says of it,
\* with tables of every size and however their indices are reused.
THEOREM FilesAreStored ==
    ASSUME ~DiscardOpen
    PROVE  Spec => ImplementsFileStore
<1>1. KnownInv /\ KnownInv' /\ [Next]_vars => [Files!Next]_(Files!vars)
    BY StepRefines
<1>2. TypeOK /\ DirConsistent /\ LiveBlocksExclusive /\ HandlesOffRoot /\ OwnedInv => KnownInv
    BY DEF KnownInv
<1> QED
    BY <1>1, <1>2, InitRefines, TypeCorrect, DirectoryConsistent, BlocksNotShared,
       OwnedInvariant, PTL DEF Spec, ImplementsFileStore, Files!Spec

=============================================================================
