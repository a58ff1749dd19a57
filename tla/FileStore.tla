------------------------------ MODULE FileStore ------------------------------
(***************************************************************************)
(* What fs/operations.h promises of the file system: files that have a     *)
(* name and a contents of at most MaxSize bytes, and handles that stand    *)
(* for a place in a file.  There are no inodes, blocks or entries here, so *)
(* running out of them is a choice: a file may fail to be created and an   *)
(* empty file may fail to get its first byte.                              *)
(***************************************************************************)
EXTENDS Integers, Sequences, Functions

CONSTANTS Names, LongNames, NoName, Handles, Bytes, MaxSize, MaxLength

VARIABLES
    files,      \* the contents of every file that exists
    opened,     \* the file (NoName if none) and the offset of every handle
    returned    \* the result of the last call

vars == <<files, opened, returned>>

Closed == [name |-> NoName, offset |-> 0]
IsFree(h) == opened[h] = Closed
InUse == {opened[h].name : h \in Handles} \ {NoName}
Exists(name) == name \in DOMAIN files

Return(n) == returned' = [value |-> n, bytes |-> <<>>]

Init ==
    /\ files = << >>
    /\ opened = [h \in Handles |-> Closed]
    /\ returned = [value |-> 0, bytes |-> <<>>]

\* A handle on the file if there is one left; what was done to the file stays.
Obtain(name, offset) ==
    \/ \E h \in Handles :
          /\ Return(h) /\ IsFree(h)
          /\ opened' = [opened EXCEPT ![h] = [name |-> name, offset |-> offset]]
    \/ Return(-1) /\ (\A h \in Handles : ~IsFree(h)) /\ UNCHANGED opened

Fail == Return(-1) /\ UNCHANGED <<files, opened>>

Open(name, mode) ==
    \/ /\ Exists(name)
       /\ "TRUNC" \notin mode
       /\ Obtain(name, IF "APPEND" \in mode THEN Len(files[name]) ELSE 0)
       /\ UNCHANGED files
    \/ /\ Exists(name)
       /\ "TRUNC" \in mode /\ name \notin InUse
       /\ Obtain(name, 0)
       /\ files' = [files EXCEPT ![name] = <<>>]
    \/ /\ ~Exists(name)
       /\ "CREAT" \in mode /\ name \in Names
       /\ Obtain(name, 0)
       /\ files' = [n \in DOMAIN files \cup {name} |-> IF n = name THEN <<>> ELSE files[n]]
    \/ ~Exists(name) /\ Fail

Close(h) ==
    IF IsFree(h)
    THEN Fail
    ELSE Return(0) /\ opened' = [opened EXCEPT ![h] = Closed] /\ UNCHANGED files

Smaller(a, b) == IF a < b THEN a ELSE b

\* s with the first n bytes of buffer written at the offset.
Overwrite(s, offset, buffer, n) ==
    [k \in 1 .. (IF offset + n > Len(s) THEN offset + n ELSE Len(s)) |->
        IF k \in offset + 1 .. offset + n THEN buffer[k - offset] ELSE s[k]]

\* At most what fits; a non-empty file never fails to take it.
Write(h, buffer) ==
    LET name == opened[h].name
        offset == opened[h].offset
        n == Smaller(Len(buffer), MaxSize - offset)
    IN  \/ IsFree(h) /\ Fail
        \/ ~IsFree(h) /\ files[name] = <<>> /\ n > 0 /\ Fail
        \/ /\ ~IsFree(h)
           /\ Return(n)
           /\ opened' = [opened EXCEPT ![h].offset = offset + n]
           /\ files' = [files EXCEPT ![name] = Overwrite(@, offset, buffer, n)]

\* The bytes from the offset on, up to the end of the file.
Read(h, len) ==
    LET name == opened[h].name
        offset == opened[h].offset
        n == Smaller(len, Len(files[name]) - offset)
    IN  \/ IsFree(h) /\ Fail
        \/ /\ ~IsFree(h)
           /\ returned' = [value |-> n, bytes |-> SubSeq(files[name], offset + 1, offset + n)]
           /\ opened' = [opened EXCEPT ![h].offset = offset + n]
           /\ UNCHANGED files

Unlink(name) ==
    \/ ~Exists(name) /\ Fail
    \/ /\ Exists(name) /\ name \notin InUse
       /\ Return(0)
       /\ UNCHANGED opened
       /\ files' = Restrict(files, DOMAIN files \ {name})

Modes == SUBSET {"CREAT", "TRUNC", "APPEND"}
Payloads == UNION {[1 .. n -> {b}] : n \in 0 .. MaxLength, b \in Bytes}

Next ==
    \/ \E name \in Names \cup LongNames :
          Unlink(name) \/ \E mode \in Modes : Open(name, mode)
    \/ \E h \in Handles :
          \/ Close(h)
          \/ \E buffer \in Payloads : Write(h, buffer)
          \/ \E len \in 0 .. MaxLength : Read(h, len)

Spec == Init /\ [][Next]_vars

=============================================================================
