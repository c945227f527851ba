------------------------------- MODULE FlatFS -------------------------------
(***************************************************************************)
(* What a caller of homework03/userfs.c sees, with no block, list, slot    *)
(* search or reference count: names stand for files, a file is a string of *)
(* bytes, a descriptor is a position in a file.  A file keeps its bytes as *)
(* long as a name or a descriptor leads to it, whatever happens to others. *)
(*                                                                         *)
(* In one point it is not what userfs.h promises: descriptors behind a cut *)
(* should proceed from the new end (userfs.h:150-151), but ufs_resize      *)
(* leaves their positions where they are, and so does Resize here.         *)
(***************************************************************************)
EXTENDS Integers, Sequences

CONSTANTS Names, Files, Fds, NULL, Bytes, MaxWrite, MaxSize

VARIABLES directory,    \* name -> the file it stands for, or NULL
          bytes,        \* file -> its bytes
          fds           \* descriptor -> its file, position and rights, or NULL

vars == <<directory, bytes, fds>>

Rights == {"read", "write"}
Data   == UNION {[1 .. n -> Bytes] : n \in 0 .. MaxWrite}

InUse(d, ds) == {d[n] : n \in Names} \cup {ds[fd].file : fd \in {x \in Fds : ds[x] # NULL}}

\* Bytes that nothing leads to any more are gone.
KeepReachable == bytes' = [f \in Files |-> IF f \in InUse(directory', fds')
                                           THEN bytes[f] ELSE << >>]

Init == /\ directory = [n \in Names |-> NULL]
        /\ bytes = [f \in Files |-> << >>]
        /\ fds = [fd \in Fds |-> NULL]

\* The file of that name, or a new one.
Open(n, fd, f) ==
    /\ fds[fd] = NULL
    /\ \/ f = directory[n] /\ UNCHANGED directory
       \/ /\ directory[n] = NULL
          /\ f \notin InUse(directory, fds)
          /\ directory' = [directory EXCEPT ![n] = f]
    /\ \E rights \in SUBSET Rights :
          fds' = [fds EXCEPT ![fd] = [file |-> f, pos |-> 0, rights |-> rights]]
    /\ UNCHANGED bytes

Close(fd) ==
    /\ fds[fd] # NULL
    /\ fds' = [fds EXCEPT ![fd] = NULL]
    /\ UNCHANGED directory
    /\ KeepReachable

Delete(n) ==
    /\ directory[n] # NULL
    /\ directory' = [directory EXCEPT ![n] = NULL]
    /\ UNCHANGED fds
    /\ KeepReachable

\* The data replaces what is at the position; a position behind the end of the
\* file (another descriptor has cut it) writes at the end.
Write(fd, data) ==
    LET b  == bytes[fds[fd].file]
        at == IF fds[fd].pos < Len(b) THEN fds[fd].pos ELSE Len(b)
    IN /\ "write" \in fds[fd].rights
       /\ bytes' = [bytes EXCEPT ![fds[fd].file] =
                       SubSeq(b, 1, at) \o data \o SubSeq(b, at + Len(data) + 1, Len(b))]
       /\ Len(bytes'[fds[fd].file]) <= MaxSize
       /\ fds' = [fds EXCEPT ![fd].pos = @ + Len(data)]
       /\ UNCHANGED directory

\* A read takes as many bytes as were asked for and are there.
Read(fd, size) ==
    LET left == Len(bytes[fds[fd].file]) - fds[fd].pos
    IN /\ "read" \in fds[fd].rights
       /\ left > 0
       /\ fds' = [fds EXCEPT ![fd].pos = @ + IF size < left THEN size ELSE left]
       /\ UNCHANGED <<directory, bytes>>

\* A file is cut; growing it adds no byte.  Positions stay where they are, those
\* behind the new end too: userfs.h:150-151 has these proceed from that end.
Resize(fd, size) ==
    /\ "write" \in fds[fd].rights
    /\ size < Len(bytes[fds[fd].file])
    /\ bytes' = [bytes EXCEPT ![fds[fd].file] = SubSeq(@, 1, size)]
    /\ UNCHANGED <<directory, fds>>

Destroy ==
    /\ directory' = [n \in Names |-> NULL]
    /\ fds' = [fd \in Fds |-> NULL]
    /\ bytes' = [f \in Files |-> << >>]

Use(fd) == /\ fds[fd] # NULL
           /\ \/ \E data \in Data : Write(fd, data)
              \/ \E size \in 0 .. MaxSize : Read(fd, size) \/ Resize(fd, size)

Next == \/ \E n \in Names : Delete(n) \/ \E fd \in Fds, f \in Files : Open(n, fd, f)
        \/ \E fd \in Fds : Close(fd) \/ Use(fd)
        \/ Destroy

Spec == Init /\ [][Next]_vars
=============================================================================
