------------------------------- MODULE UserFS -------------------------------
(***************************************************************************)
(* The in-memory file system of homework03/userfs.c.  One thread calls it, *)
(* so a call is one action.  A file is the address of a struct file:       *)
(* ufs_open mallocs one, and free makes the address available again.  The  *)
(* fields of the struct filedesc in slot fd of the array file_descriptors  *)
(* are file_descriptors[fd] (its file), offset[fd], can_read, can_write.   *)
(*                                                                         *)
(* The array comes from malloc, so a slot that was never written is NULL   *)
(* or WILD, a pointer to nowhere.  When a call has undefined behaviour or  *)
(* does not return, status says at which place, and the model stops: it    *)
(* claims nothing about what comes after.                                  *)
(***************************************************************************)
EXTENDS Blocks, FiniteSets

CONSTANTS
    Names,              \* file names
    Files,              \* addresses malloc can return for a struct file
    FlagSets,           \* the sets of open_flags that callers pass to ufs_open
    NULL, WILD,
    INITIAL_CAPACITY,   \* get_fd: 10 there
    MAX_FILE_SIZE,      \* userfs.c: 100 MB there
    MaxFds,             \* bound: slots the array may grow to
    MaxOpen,            \* bound: descriptors open at a time
    MaxWrite,           \* bound: bytes written by one call
    MaxOffset           \* bound: offsets of descriptors

Flags == {"CREATE", "READ_ONLY", "WRITE_ONLY", "READ_WRITE"}

ASSUME UserFSAssumption ==
    /\ INITIAL_CAPACITY \in Nat \ {0}
    /\ MAX_FILE_SIZE \in Nat /\ MaxFds \in Nat /\ MaxOpen \in Nat /\ MaxWrite \in Nat /\ MaxOffset \in Nat
    /\ IsFiniteSet(Files)
    /\ NULL \notin Names \cup Files /\ WILD \notin Files /\ NULL # WILD
    /\ FlagSets \subseteq SUBSET Flags

\* NULL is not a descriptor either, as FlatFS has them.
ASSUME NullAssumption == NULL \notin [file : Files, pos : Nat, rights : SUBSET {"read", "write"}]

Fds  == 0 .. MaxFds - 1
Data == UNION {[1 .. n -> Bytes] : n \in 0 .. MaxWrite}

VARIABLES
    file_list,                  \* the files that have a name, in the order of the list
    name,                       \* file -> its name, NULL when it is not allocated
    refs, in_list,              \* file -> its fields
    block_list, bytes_left,     \* file -> its fields
    file_descriptors,           \* slot -> file of its descriptor, NULL or WILD
    offset, can_read, can_write,   \* slot -> field of its descriptor
    file_descriptor_count, file_descriptor_capacity,
    ufs_error_code,
    status                      \* "up", "destroyed", or where things went wrong

listVars  == <<file_list, name, refs, in_list>>
dataVars  == <<block_list, bytes_left>>
descVars  == <<file_descriptors, offset, can_read, can_write>>
arrayVars == <<file_descriptor_count, file_descriptor_capacity>>
vars      == <<listVars, dataVars, descVars, arrayVars, ufs_error_code, status>>

ErrorCodes == {"NO_ERR", "NO_FILE", "NO_MEM", "NO_PERMISSION"}
Statuses   == {"up", "destroyed",
               "slot -1",        \* ufs_open writes before the array
               "wild slot",      \* is_valid_fd follows an uninitialised pointer
               "no block",       \* ufs_write looks for the end of no list
               "freed block",    \* ufs_resize walks over blocks it has freed
               "endless",        \* ufs_resize does not return
               "double free"}    \* ufs_destroy frees or reads a file it has freed

-----------------------------------------------------------------------------
Live    == {f \in Files : name[f] # NULL}
OpenFds == {fd \in Fds : file_descriptors[fd] \in Files}
OpenOn(f) == {fd \in Fds : file_descriptors[fd] = f}

\* The first file of the list with that name.
search_file(n) ==
    LET hits == {i \in DOMAIN file_list : name[file_list[i]] = n}
    IN IF hits = {} THEN NULL ELSE file_list[CHOOSE i \in hits : \A j \in hits : i <= j]

\* What get_fd makes of the capacity, and the slot it returns.
Grown ==
    IF file_descriptor_capacity = 0 THEN INITIAL_CAPACITY
    ELSE IF file_descriptor_count = file_descriptor_capacity THEN 2 * file_descriptor_capacity
    ELSE file_descriptor_capacity

BadFreeSlots == {fd \in Fds \ {0} : fd < file_descriptor_capacity /\ file_descriptors[fd] = NULL}
FreeSlots == {fd \in Fds : fd < file_descriptor_capacity /\ file_descriptors[fd] = NULL}
BadGetFd == IF FreeSlots = {} THEN 0 ELSE file_descriptor_count
get_fd ==
    IF file_descriptor_capacity = 0 THEN 0
    ELSE IF file_descriptor_count = file_descriptor_capacity THEN file_descriptor_count
    ELSE IF FreeSlots = {} THEN -1
    ELSE CHOOSE fd \in FreeSlots : \A other \in FreeSlots : fd <= other

\* The rights a descriptor gets from the flags of ufs_open.
Readable(flags) == flags = {} \/ flags \cap {"CREATE", "READ_ONLY", "READ_WRITE"} # {}
Writable(flags) == flags = {} \/ flags \cap {"CREATE", "WRITE_ONLY", "READ_WRITE"} # {}

\* A call that goes wrong at a place, and one that only reports an error.
Wrong(where) == /\ status' = where
                /\ UNCHANGED <<listVars, dataVars, descVars, arrayVars, ufs_error_code>>
Fail(code) == /\ ufs_error_code' = code
              /\ UNCHANGED <<listVars, dataVars, descVars, arrayVars, status>>

Init ==
    /\ file_list = << >>
    /\ name = [f \in Files |-> NULL]
    /\ refs = [f \in Files |-> 0]
    /\ in_list = [f \in Files |-> FALSE]
    /\ block_list = [f \in Files |-> << >>]
    /\ bytes_left = [f \in Files |-> 0]
    /\ file_descriptors = [fd \in Fds |-> NULL]
    /\ offset = [fd \in Fds |-> 0]
    /\ can_read = [fd \in Fds |-> FALSE]
    /\ can_write = [fd \in Fds |-> FALSE]
    /\ file_descriptor_count = 0
    /\ file_descriptor_capacity = 0
    /\ ufs_error_code = "NO_ERR"
    /\ status = "up"

-----------------------------------------------------------------------------
(* ufs_open                                                                *)

\* get_fd and the new descriptor.  New slots of the array keep what malloc
\* left in them; when the array is full of such WILD slots get_fd finds none.
NewDescriptor(f, flags) ==
    /\ Grown <= MaxFds /\ file_descriptor_count < MaxOpen
    /\ \E g \in [Fds -> {NULL, WILD}] :
          LET slots == [fd \in Fds |-> IF fd \in file_descriptor_capacity .. Grown - 1
                                       THEN g[fd] ELSE file_descriptors[fd]]
          IN /\ \A fd \in Fds \ (file_descriptor_capacity .. Grown - 1) : g[fd] = NULL
             /\ file_descriptors' = [slots EXCEPT ![get_fd] = f]
    /\ offset' = [offset EXCEPT ![get_fd] = 0]
    /\ can_read' = [can_read EXCEPT ![get_fd] = Readable(flags)]
    /\ can_write' = [can_write EXCEPT ![get_fd] = Writable(flags)]
    /\ file_descriptor_capacity' = Grown
    /\ file_descriptor_count' = file_descriptor_count + 1

OpenExisting(n, flags) ==
    LET f == search_file(n)
    IN /\ f # NULL
       /\ get_fd # -1
       /\ refs' = [refs EXCEPT ![f] = @ + 1]
       /\ NewDescriptor(f, flags)
       /\ UNCHANGED <<file_list, name, in_list, dataVars, ufs_error_code, status>>

Create(n, flags, f) ==
    /\ search_file(n) = NULL
    /\ "CREATE" \in flags
    /\ name[f] = NULL
    /\ get_fd # -1
    /\ file_list' = Append(file_list, f)
    /\ name' = [name EXCEPT ![f] = n]
    /\ refs' = [refs EXCEPT ![f] = 1]
    /\ in_list' = [in_list EXCEPT ![f] = TRUE]
    /\ block_list' = [block_list EXCEPT ![f] = << >>]
    /\ bytes_left' = [bytes_left EXCEPT ![f] = MAX_FILE_SIZE]
    /\ NewDescriptor(f, flags)
    /\ UNCHANGED <<ufs_error_code, status>>

OpenNoFile(n, flags) ==
    /\ search_file(n) = NULL
    /\ "CREATE" \notin flags
    /\ Fail("NO_FILE")

OpenNoSlot(n, flags) ==
    /\ search_file(n) # NULL \/ "CREATE" \in flags
    /\ get_fd = -1
    /\ Wrong("slot -1")

-----------------------------------------------------------------------------
(* ufs_write, ufs_read and ufs_resize                                      *)

\* Room for that many more bytes.
BadRoom(f, n) == n <= MAX_FILE_SIZE
Room(f, n) == n <= bytes_left[f]

Write(fd, data) ==
    LET f      == file_descriptors[fd]
        blocks == Written(block_list[f], offset[fd], data)
    IN /\ can_write[fd]
       /\ Room(f, Len(data))
       /\ blocks # << >>
       /\ offset[fd] + Len(data) <= MaxOffset
       /\ block_list' = [block_list EXCEPT ![f] = blocks]
       /\ bytes_left' = [bytes_left EXCEPT ![f] = @ - Len(data)]
       /\ offset' = [offset EXCEPT ![fd] = @ + Len(data)]
       /\ UNCHANGED <<listVars, file_descriptors, can_read, can_write, arrayVars,
                      ufs_error_code, status>>

\* Nothing is written into a file without blocks, and 215 follows NULL.
WriteNothing(fd) ==
    /\ can_write[fd]
    /\ block_list[file_descriptors[fd]] = << >>
    /\ Wrong("no block")

Read(fd, size) ==
    /\ can_read[fd]
    /\ offset' = [offset EXCEPT ![fd] =
                     @ + Len(Reading(block_list[file_descriptors[fd]], @, size))]
    /\ UNCHANGED <<listVars, dataVars, file_descriptors, can_read, can_write, arrayVars,
                   ufs_error_code, status>>

\* bytes_left is computed anew from the blocks that are left.
BadLeftOver(blocks) == MAX_FILE_SIZE
LeftOver(blocks) == MAX_FILE_SIZE - Size(blocks)

Resize(fd, new_size) ==
    LET f == file_descriptors[fd]
        r == Resized(block_list[f], new_size)
    IN /\ can_write[fd]
       /\ new_size <= MAX_FILE_SIZE
       /\ \/ /\ r.endless
             /\ Wrong("endless")
          \/ /\ ~r.endless
             /\ r.blocks = << >> /\ block_list[f] # << >>
             /\ Wrong("freed block")
          \/ /\ ~r.endless
             /\ r.blocks # << >> \/ block_list[f] = << >>
             /\ block_list' = [block_list EXCEPT ![f] = r.blocks]
             /\ bytes_left' = [bytes_left EXCEPT ![f] = LeftOver(r.blocks)]
             /\ UNCHANGED <<listVars, descVars, arrayVars, ufs_error_code, status>>

NoPermission(fd) ==
    /\ ~can_read[fd] \/ ~can_write[fd]
    /\ Fail("NO_PERMISSION")

\* A resize beyond MAX_FILE_SIZE, or a write for which there is no Room.
NoMemory(fd) ==
    /\ can_write[fd]
    /\ Fail("NO_MEM")

-----------------------------------------------------------------------------
(* ufs_close, ufs_delete and ufs_destroy                                   *)

\* free_file_memory and free of the files in S; cleared fields stand for
\* memory that is gone.
Free(S) ==
    /\ name' = [f \in Files |-> IF f \in S THEN NULL ELSE name[f]]
    /\ block_list' = [f \in Files |-> IF f \in S THEN << >> ELSE block_list[f]]
    /\ bytes_left' = [f \in Files |-> IF f \in S THEN 0 ELSE bytes_left[f]]

\* Whether a close, or a delete, is the end of the file.
BadLastClose(f) == refs[f] = 1
LastClose(f) == refs[f] = 1 /\ ~in_list[f]
BadUnused(f) == FALSE
Unused(f) == refs[f] = 0

Close(fd) ==
    LET f == file_descriptors[fd]
    IN /\ refs' = [refs EXCEPT ![f] = @ - 1]
       /\ Free(IF LastClose(f) THEN {f} ELSE {})
       /\ file_descriptors' = [file_descriptors EXCEPT ![fd] = NULL]
       /\ offset' = [offset EXCEPT ![fd] = 0]
       /\ can_read' = [can_read EXCEPT ![fd] = FALSE]
       /\ can_write' = [can_write EXCEPT ![fd] = FALSE]
       /\ file_descriptor_count' = file_descriptor_count - 1
       /\ UNCHANGED <<file_list, in_list, file_descriptor_capacity, ufs_error_code, status>>

BadUnlinked(f) == Tail(file_list)
Unlinked(f) == RemoveAt(file_list, CHOOSE i \in DOMAIN file_list : file_list[i] = f)

Delete(n) ==
    LET f == search_file(n)
    IN /\ f # NULL
       /\ file_list' = Unlinked(f)
       /\ in_list' = [in_list EXCEPT ![f] = FALSE]
       /\ Free(IF Unused(f) THEN {f} ELSE {})
       /\ UNCHANGED <<refs, descVars, arrayVars, ufs_error_code, status>>

DeleteNoFile(n) ==
    /\ search_file(n) = NULL
    /\ Fail("NO_FILE")

\* ufs_destroy frees the files of the list, then, once for each descriptor, the
\* file of it that is not in the list.  Done once for each file it is the end of
\* everything.  But 362 frees the head of the list again, 352 reads the freed
\* file of a descriptor, and a deleted file with two descriptors is freed twice.
DestroyedWell ==
    /\ file_list = << >>
    /\ \A fd \in Fds : file_descriptors[fd] # WILD
    /\ \A fd1, fd2 \in OpenFds : file_descriptors[fd1] = file_descriptors[fd2] => fd1 = fd2

Destroy ==
    /\ DestroyedWell
    /\ Free({file_descriptors[fd] : fd \in OpenFds})
    /\ file_descriptors' = [fd \in Fds |-> NULL]
    /\ refs' = [f \in Files |-> 0]
    /\ status' = "destroyed"
    /\ UNCHANGED <<file_list, in_list, offset, can_read, can_write, arrayVars,
                   ufs_error_code>>

DestroyTwice ==
    /\ ~DestroyedWell
    /\ Wrong(IF \E fd \in Fds : file_descriptors[fd] = WILD THEN "wild slot" ELSE "double free")

-----------------------------------------------------------------------------
\* Any call on a number that is not an open descriptor.
BadNumber == Fail("NO_FILE")

WildNumber ==
    /\ \E fd \in Fds : file_descriptors[fd] = WILD
    /\ Wrong("wild slot")

\* The calls that name a file, and those on an open descriptor.
ByName(n) == \/ \E flags \in FlagSets :
                   \/ OpenExisting(n, flags) \/ OpenNoFile(n, flags) \/ OpenNoSlot(n, flags)
                   \/ \E f \in Files : Create(n, flags, f)
             \/ Delete(n)
             \/ DeleteNoFile(n)

ByFd(fd) == \/ \E data \in Data : Write(fd, data)
            \/ WriteNothing(fd)
            \/ \E size \in 0 .. MAX_FILE_SIZE : Read(fd, size) \/ Resize(fd, size)
            \/ NoPermission(fd)
            \/ NoMemory(fd)
            \/ Close(fd)

Next == /\ status = "up"
        /\ \/ \E n \in Names : ByName(n)
           \/ \E fd \in OpenFds : ByFd(fd)
           \/ BadNumber
           \/ WildNumber
           \/ Destroy
           \/ DestroyTwice

Spec == Init /\ [][Next]_vars

-----------------------------------------------------------------------------
(* Properties                                                              *)

\* Every variable has its type; bytes_left, a size_t, never wraps around.
TypeOK ==
    /\ file_list \in Seq(Files)
    /\ name \in [Files -> Names \cup {NULL}]
    /\ refs \in [Files -> 0 .. MaxFds]
    /\ in_list \in [Files -> BOOLEAN]
    /\ block_list \in [Files -> BlockList]
    /\ bytes_left \in [Files -> 0 .. MAX_FILE_SIZE]
    /\ file_descriptors \in [Fds -> Files \cup {NULL, WILD}]
    /\ offset \in [Fds -> 0 .. MaxOffset]
    /\ can_read \in [Fds -> BOOLEAN] /\ can_write \in [Fds -> BOOLEAN]
    /\ file_descriptor_count \in 0 .. file_descriptor_capacity
    /\ file_descriptor_capacity \in 0 .. MaxFds
    /\ ufs_error_code \in ErrorCodes
    /\ status \in Statuses

\* The reference count of a file is the number of its descriptors, through
\* every order of open, close and delete (ufs_open 146, ufs_close 287).
RefsExact == \A f \in Live : refs[f] = Cardinality(OpenOn(f))

\* userfs.h:128-132: a deleted file lives until its last descriptor is closed.
\* Nothing leads to freed memory, and no memory is left that nothing leads to.
LiveExactly == Live = ToSet(file_list) \cup {file_descriptors[fd] : fd \in OpenFds}

\* The list holds each file with in_list once, and no name twice, although
\* deleted files may have the names of new ones (ufs_delete 310-325).
ListSound ==
    /\ \A i, j \in DOMAIN file_list : name[file_list[i]] = name[file_list[j]] => i = j
    /\ \A f \in Files : in_list[f] <=> f \in ToSet(file_list)

\* The count is that of the open descriptors, so that a slot that was closed is
\* found again (ufs_destroy does not reset the count): only slots that malloc did
\* not clear make get_fd fail (480-513).
SlotsCounted ==
    /\ status # "destroyed" => file_descriptor_count = Cardinality(OpenFds)
    /\ status = "slot -1" => \E fd \in Fds : file_descriptors[fd] = WILD

\* Blocks are filled in order: behind one that has room there are only empty
\* ones.  What ufs_write and ufs_read do with an offset relies on it.
BlocksPacked ==
    \A f \in Live : \A i, j \in DOMAIN block_list[f] :
        i < j /\ block_list[f][j] # << >> => Len(block_list[f][i]) = BLOCK_SIZE

\* A file does not outgrow MAX_FILE_SIZE, in bytes nor in blocks, by any mixture
\* of writes over old data, appends and resizes (179, 220, 439).
SizeBounded ==
    \A f \in Live : /\ Size(block_list[f]) + bytes_left[f] <= MAX_FILE_SIZE
                    /\ (Len(block_list[f]) - 1) * BLOCK_SIZE < MAX_FILE_SIZE

\* A read returns the bytes from the descriptor's position on, as many as were
\* asked for and are there, also behind the end of a file that was cut (226-275).
ReadIsFlat ==
    \A fd \in OpenFds, size \in 0 .. MAX_FILE_SIZE :
        LET b == Flat(block_list[file_descriptors[fd]])
        IN Reading(block_list[file_descriptors[fd]], offset[fd], size)
           = SubSeq(b, offset[fd] + 1, Least(Len(b), offset[fd] + size))

\* ufs_resize returns unless it is to grow a file, or to keep its size, to a
\* size that is not a multiple of BLOCK_SIZE; then it never does (392-414).
ResizeReturnsUnlessOdd ==
    \A f \in Live, n \in 0 .. MAX_FILE_SIZE :
        Resized(block_list[f], n).endless
            <=> n % BLOCK_SIZE # 0 /\ n >= Size(block_list[f])

\* userfs.h:147-151: a resize to a size in the limits succeeds.
ResizeReturns == status # "endless"

\* userfs.h:150-151: "Opened file descriptors behind the new file size should
\* proceed from the new file end."  When a descriptor left behind the end of its
\* file moves on, it is inside the file again.
ProceedsFromEnd ==
    [][\A fd \in OpenFds :
          LET f == file_descriptors[fd]
          IN offset[fd] > Size(block_list[f]) /\ offset'[fd] > offset[fd]
             => offset'[fd] <= Size(block_list'[f])]_vars

-----------------------------------------------------------------------------
(* Names, strings of bytes and positions: the file system implements FlatFS. *)

Position(fd) == [file |-> file_descriptors[fd], pos |-> offset[fd],
                 rights |-> {r \in {"read", "write"} : \/ r = "read" /\ can_read[fd]
                                                       \/ r = "write" /\ can_write[fd]}]

Flattened == INSTANCE FlatFS
             WITH MaxSize <- MAX_FILE_SIZE,
                  directory <- [n \in Names |-> search_file(n)],
                  bytes <- [f \in Files |-> Flat(block_list[f])],
                  fds <- [fd \in Fds |-> IF fd \in OpenFds THEN Position(fd) ELSE NULL]

\* What is written is what is read, a file keeps its bytes until no name and no
\* descriptor leads to it, and no call touches another file or position.  Nor does
\* a cut: the positions behind it stay, against userfs.h (ProceedsFromEnd).
IsFlatFS == Flattened!Spec
=============================================================================
