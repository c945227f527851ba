----------------------------- MODULE UserFSProofs -----------------------------
(***************************************************************************)
(* What holds of UserFS for any number of names, files and slots and any   *)
(* size of blocks and files: the reference counts, the life of files, the  *)
(* list and the slots (FsInv), then the blocks, their limits and what is   *)
(* read (DataInv), then the types, and last that UserFS implements FlatFS. *)
(***************************************************************************)
EXTENDS UserFS, BlocksProofs, FiniteSetTheorems

USE UserFSAssumption DEF Fds

\* The types of what the arguments below are about.
FsTypes ==
    /\ file_list \in Seq(Files)
    /\ name \in [Files -> Names \cup {NULL}]
    /\ refs \in [Files -> Int]
    /\ in_list \in [Files -> BOOLEAN]
    /\ file_descriptors \in [Fds -> Files \cup {NULL, WILD}]
    /\ file_descriptor_count \in Int
    /\ file_descriptor_capacity \in 0 .. MaxFds

\* The list holds the files with in_list, under names of their own.
ListInv ==
    /\ \A i, j \in DOMAIN file_list : name[file_list[i]] = name[file_list[j]] => i = j
    /\ \A f \in Files : in_list[f] <=> \E i \in DOMAIN file_list : file_list[i] = f

\* A file counts its descriptors, and lives while it has a name or one of them.
RefInv ==
    \A f \in Files : /\ refs[f] = Cardinality(OpenOn(f))
                     /\ name[f] # NULL <=> in_list[f] \/ OpenOn(f) # {}

\* Slots behind the end of the array are not in use.
SlotInv == \A fd \in Fds : fd >= file_descriptor_capacity => file_descriptors[fd] = NULL

FsInv == FsTypes /\ ListInv /\ RefInv /\ SlotInv

-----------------------------------------------------------------------------
(* Facts about the operators                                               *)

\* The open slots are finitely many, those of a file among them.
LEMMA OpenFinite ==
    /\ IsFiniteSet(OpenFds)
    /\ \A f \in Files : IsFiniteSet(OpenOn(f))
<1>1. IsFiniteSet(Fds)
  BY FS_Interval
<1>2. OpenFds \in SUBSET Fds /\ \A f \in Files : OpenOn(f) \in SUBSET Fds
  BY DEF OpenFds, OpenOn
<1> QED  BY <1>1, <1>2, FS_Subset

\* search_file finds the listed file of a name, if there is one (450-458).
LEMMA SearchFinds ==
    ASSUME FsInv, NEW n \in Names
    PROVE  \/ /\ search_file(n) = NULL
              /\ \A i \in DOMAIN file_list : name[file_list[i]] # n
           \/ /\ search_file(n) \in Files
              /\ name[search_file(n)] = n
              /\ in_list[search_file(n)]
<1> DEFINE hits == {i \in DOMAIN file_list : name[file_list[i]] = n}
<1>1. CASE hits = {}
  BY <1>1 DEF search_file
<1>2. ASSUME NEW i \in hits PROVE search_file(n) \in Files /\ name[search_file(n)] = n
                                  /\ in_list[search_file(n)]
  <2>1. hits = {i}
    BY DEF FsInv, ListInv
  <2>2. i \in Nat
    BY DEF FsInv, FsTypes
  <2>3. (CHOOSE k \in hits : \A j \in hits : k <= j) = i
    BY <2>1, <2>2
  <2>4. search_file(n) = file_list[i]
    BY <2>1, <2>3 DEF search_file
  <2> QED  BY <2>4 DEF FsInv, FsTypes, ListInv
<1> QED  BY <1>1, <1>2

\* get_fd returns a slot that is not in use, in the array it leaves (480-513).
LEMMA GetFdFree ==
    ASSUME FsInv, get_fd # -1, Grown <= MaxFds
    PROVE  /\ get_fd \in Fds /\ get_fd < Grown
           /\ file_descriptors[get_fd] = NULL
           /\ Grown \in Nat
<1>1. CASE file_descriptor_capacity = 0
  BY <1>1 DEF get_fd, Grown, FsInv, FsTypes, SlotInv
<1>2. CASE file_descriptor_capacity # 0 /\ file_descriptor_count = file_descriptor_capacity
  BY <1>2 DEF get_fd, Grown, FsInv, FsTypes, SlotInv
<1>3. CASE file_descriptor_capacity # 0 /\ file_descriptor_count # file_descriptor_capacity
  <2>1. FreeSlots # {} /\ FreeSlots \in SUBSET Nat
    BY <1>3 DEF get_fd, FreeSlots
  <2>2. get_fd \in FreeSlots
    BY <1>3, <2>1, LeastElement DEF get_fd
  <2> QED  BY <1>3, <2>2 DEF FreeSlots, Grown, FsInv, FsTypes
<1> QED  BY <1>1, <1>2, <1>3

\* What ufs_open adds to the slots: one that was free, for its file.
LEMMA NewDescriptorAdds ==
    ASSUME FsInv, NEW f \in Files, NEW flags, get_fd # -1, NewDescriptor(f, flags)
    PROVE  /\ file_descriptors' \in [Fds -> Files \cup {NULL, WILD}]
           /\ file_descriptor_capacity' \in 0 .. MaxFds
           /\ file_descriptor_count' = file_descriptor_count + 1
           /\ SlotInv'
           /\ get_fd \notin OpenFds
           /\ OpenFds' = OpenFds \cup {get_fd}
           /\ OpenOn(f)' = OpenOn(f) \cup {get_fd}
           /\ \A g \in Files \ {f} : OpenOn(g)' = OpenOn(g)
<1>1. Grown <= MaxFds
  BY DEF NewDescriptor
<1>2. get_fd \in Fds /\ get_fd < Grown /\ file_descriptors[get_fd] = NULL /\ Grown \in Nat
  BY <1>1, GetFdFree
<1> DEFINE new == file_descriptor_capacity .. Grown - 1
<1>3. PICK g \in [Fds -> {NULL, WILD}] :
         file_descriptors' = [[fd \in Fds |-> IF fd \in new THEN g[fd] ELSE file_descriptors[fd]]
                              EXCEPT ![get_fd] = f]
  BY DEF NewDescriptor
<1>4. /\ file_descriptors' \in [Fds -> Files \cup {NULL, WILD}]
      /\ file_descriptors'[get_fd] = f
      /\ \A fd \in Fds \ {get_fd} :
            file_descriptors'[fd] = IF fd \in new THEN g[fd] ELSE file_descriptors[fd]
  BY <1>2, <1>3 DEF FsInv, FsTypes
<1>5. \A fd \in new \cap Fds : file_descriptors[fd] = NULL /\ g[fd] \in {NULL, WILD}
  BY DEF FsInv, FsTypes, SlotInv
<1>6. \A h \in Files : \A fd \in Fds \ {get_fd} :
         file_descriptors'[fd] = h <=> file_descriptors[fd] = h
  BY <1>4, <1>5
<1>7. file_descriptor_capacity' = Grown /\ file_descriptor_count' = file_descriptor_count + 1
  BY DEF NewDescriptor
<1>8. SlotInv'
  <2> SUFFICES ASSUME NEW fd \in Fds, fd >= Grown PROVE file_descriptors'[fd] = NULL
    BY <1>7 DEF SlotInv
  <2>1. fd # get_fd /\ fd \notin new
    BY <1>2 DEF FsInv, FsTypes
  <2>2. Grown >= file_descriptor_capacity
    BY DEF Grown, FsInv, FsTypes
  <2>3. file_descriptors[fd] = NULL
    BY <2>2, <1>2 DEF FsInv, FsTypes, SlotInv
  <2> QED  BY <1>4, <2>1, <2>3
<1>9. OpenOn(f)' = OpenOn(f) \cup {get_fd}
  BY <1>2, <1>4, <1>6 DEF OpenOn
<1>10. \A h \in Files \ {f} : OpenOn(h)' = OpenOn(h)
  BY <1>2, <1>4, <1>6 DEF OpenOn
<1>11. get_fd \notin OpenFds /\ OpenFds' = OpenFds \cup {get_fd}
  BY <1>2, <1>4, <1>6 DEF OpenFds
<1> QED  BY <1>1, <1>2, <1>4, <1>7, <1>8, <1>9, <1>10, <1>11

\* Taking a file off the list leaves the others in their order (310-323).
LEMMA UnlinkedRest ==
    ASSUME FsInv, NEW f \in Files, in_list[f]
    PROVE  /\ Unlinked(f) \in Seq(Files)
           /\ \E i \in DOMAIN file_list :
                 /\ file_list[i] = f
                 /\ DOMAIN Unlinked(f) = 1 .. Len(file_list) - 1
                 /\ \A k \in 1 .. Len(file_list) - 1 :
                       Unlinked(f)[k] = IF k < i THEN file_list[k] ELSE file_list[k + 1]
<1> DEFINE i == CHOOSE i \in DOMAIN file_list : file_list[i] = f
<1>1. i \in DOMAIN file_list /\ file_list[i] = f
  BY DEF FsInv, ListInv
<1>2. file_list \in Seq(Files) /\ i \in 1 .. Len(file_list) /\ Len(file_list) \in Nat
  BY <1>1 DEF FsInv, FsTypes
<1> DEFINE a == SubSeq(file_list, 1, i - 1)
           b == SubSeq(file_list, i + 1, Len(file_list))
<1>3. Unlinked(f) = a \o b
  BY DEF Unlinked, RemoveAt
<1> HIDE DEF i
<1>4. a \in Seq(Files) /\ Len(a) = i - 1 /\ \A k \in 1 .. i - 1 : a[k] = file_list[k]
  BY <1>2
<1>5. b \in Seq(Files) /\ Len(b) = Len(file_list) - i
      /\ \A k \in 1 .. Len(file_list) - i : b[k] = file_list[i + k]
  BY <1>2
<1> HIDE DEF a, b
<1>6. a \o b \in Seq(Files) /\ Len(a \o b) = Len(a) + Len(b)
      /\ \A k \in 1 .. Len(a) + Len(b) : (a \o b)[k] = IF k <= Len(a) THEN a[k] ELSE b[k - Len(a)]
  <2>1. a \in Seq(Files) /\ b \in Seq(Files)
    BY <1>4, <1>5
  <2> QED  BY <2>1, ConcatProperties, Zenon
<1>7. Len(a) + Len(b) = Len(file_list) - 1
  BY <1>2, <1>4, <1>5
<1>8. ASSUME NEW k \in 1 .. Len(file_list) - 1
      PROVE  Unlinked(f)[k] = IF k < i THEN file_list[k] ELSE file_list[k + 1]
  <2>1. (a \o b)[k] = IF k <= i - 1 THEN a[k] ELSE b[k - (i - 1)]
    BY <1>4, <1>6, <1>7
  <2>2. CASE k < i
    <3>1. k \in 1 .. i - 1
      BY <1>2, <2>2
    <3> QED  BY <1>2, <1>3, <1>4, <2>1, <2>2, <3>1
  <2>3. CASE ~ (k < i)
    <3>1. /\ ~ (k <= i - 1) /\ k - (i - 1) \in 1 .. Len(file_list) - i
          /\ i + (k - (i - 1)) = k + 1
      BY <1>2, <2>3
    <3>2. Unlinked(f)[k] = b[k - (i - 1)]
      BY <1>3, <2>1, <3>1
    <3> QED  BY <1>5, <2>3, <3>1, <3>2
  <2> QED  BY <2>2, <2>3
<1>9. DOMAIN Unlinked(f) = 1 .. Len(file_list) - 1
  BY <1>3, <1>6, <1>7
<1> QED  BY <1>1, <1>3, <1>6, <1>8, <1>9

-----------------------------------------------------------------------------
(* Each call keeps the invariant                                           *)

\* The steps that leave files, list and slots alone: reads, writes, resizes,
\* calls that fail and those at which the model stops.
LEMMA SameFiles ==
    ASSUME FsInv, UNCHANGED <<listVars, file_descriptors, arrayVars>>
    PROVE  FsInv'
<1> USE DEF listVars, arrayVars, FsInv
<1>1. FsTypes' /\ ListInv' /\ SlotInv'
  BY DEF FsTypes, ListInv, SlotInv
<1>2. \A f \in Files : OpenOn(f)' = OpenOn(f)
  BY DEF OpenOn
<1>3. RefInv'
  BY <1>2 DEF RefInv
<1> QED  BY <1>1, <1>3

\* One more descriptor, and one more reference (ufs_open 146-157).
LEMMA OpenExistingKeeps ==
    ASSUME FsInv, NEW n \in Names, NEW flags, OpenExisting(n, flags)
    PROVE  FsInv'
<1>1. PICK f \in Files : f = search_file(n) /\ in_list[f]
  BY SearchFinds DEF OpenExisting
<1>2. /\ refs' = [refs EXCEPT ![f] = @ + 1]
      /\ NewDescriptor(f, flags) /\ get_fd # -1
      /\ UNCHANGED <<file_list, name, in_list>>
  BY <1>1 DEF OpenExisting
<1>3. /\ file_descriptors' \in [Fds -> Files \cup {NULL, WILD}]
      /\ file_descriptor_capacity' \in 0 .. MaxFds /\ SlotInv'
      /\ file_descriptor_count' = file_descriptor_count + 1
      /\ get_fd \notin OpenFds
      /\ OpenOn(f)' = OpenOn(f) \cup {get_fd}
      /\ \A g \in Files \ {f} : OpenOn(g)' = OpenOn(g)
  BY <1>1, <1>2, NewDescriptorAdds
<1>4. FsTypes'
  BY <1>1, <1>2, <1>3 DEF FsInv, FsTypes
<1>5. ListInv'
  BY <1>2 DEF FsInv, ListInv
<1>6. Cardinality(OpenOn(f)') = Cardinality(OpenOn(f)) + 1
  <2>1. get_fd \notin OpenOn(f)
    BY <1>1, <1>3 DEF OpenFds, OpenOn
  <2>2. IsFiniteSet(OpenOn(f))
    BY OpenFinite
  <2> QED  BY <1>3, <2>1, <2>2, FS_AddElement
<1>7. RefInv'
  BY <1>1, <1>2, <1>3, <1>6 DEF FsInv, FsTypes, RefInv
<1> QED  BY <1>3, <1>4, <1>5, <1>7 DEF FsInv

\* A new file at the end of the list, with its first descriptor (126-157).
LEMMA CreateKeeps ==
    ASSUME FsInv, NEW n \in Names, NEW flags, NEW f \in Files, Create(n, flags, f)
    PROVE  FsInv'
<1>1. /\ name[f] = NULL /\ get_fd # -1
      /\ file_list' = Append(file_list, f)
      /\ name' = [name EXCEPT ![f] = n]
      /\ refs' = [refs EXCEPT ![f] = 1]
      /\ in_list' = [in_list EXCEPT ![f] = TRUE]
      /\ NewDescriptor(f, flags)
  BY DEF Create
<1>2. \A i \in DOMAIN file_list : name[file_list[i]] # n
  BY SearchFinds DEF Create
<1>3. ~in_list[f] /\ OpenOn(f) = {} /\ \A i \in DOMAIN file_list : file_list[i] # f
  BY <1>1 DEF FsInv, FsTypes, ListInv, RefInv
<1>4. /\ file_descriptors' \in [Fds -> Files \cup {NULL, WILD}]
      /\ file_descriptor_capacity' \in 0 .. MaxFds /\ SlotInv'
      /\ file_descriptor_count' = file_descriptor_count + 1
      /\ OpenOn(f)' = {get_fd}
      /\ \A g \in Files \ {f} : OpenOn(g)' = OpenOn(g)
  BY <1>1, <1>3, NewDescriptorAdds
<1>5. FsTypes'
  BY <1>1, <1>4 DEF FsInv, FsTypes
<1>6. /\ file_list \in Seq(Files) /\ Len(file_list) \in Nat
      /\ DOMAIN file_list = 1 .. Len(file_list)
      /\ DOMAIN file_list' = 1 .. Len(file_list) + 1
      /\ file_list'[Len(file_list) + 1] = f
      /\ \A i \in DOMAIN file_list : file_list'[i] = file_list[i] /\ file_list[i] \in Files
  BY <1>1 DEF FsInv, FsTypes
<1>7. name'[f] = n /\ \A g \in Files \ {f} : name'[g] = name[g]
  BY <1>1 DEF FsInv, FsTypes
<1>8. in_list'[f] /\ \A g \in Files \ {f} : in_list'[g] = in_list[g]
  BY <1>1 DEF FsInv, FsTypes
<1>9. ListInv'
  <2>1. ASSUME NEW i \in DOMAIN file_list', NEW j \in DOMAIN file_list',
               name'[file_list'[i]] = name'[file_list'[j]]
        PROVE  i = j
    <3>1. CASE i \in DOMAIN file_list /\ j \in DOMAIN file_list
      BY <1>3, <1>6, <1>7, <2>1, <3>1 DEF FsInv, ListInv
    <3>2. CASE i \notin DOMAIN file_list /\ j \notin DOMAIN file_list
      BY <1>6, <3>2
    <3>3. CASE i \in DOMAIN file_list /\ j \notin DOMAIN file_list
      <4>1. file_list'[j] = f /\ name'[file_list'[i]] = name[file_list[i]]
        BY <1>3, <1>6, <1>7, <3>3
      <4> QED  BY <1>2, <1>7, <2>1, <3>3, <4>1
    <3>4. CASE i \notin DOMAIN file_list /\ j \in DOMAIN file_list
      <4>1. file_list'[i] = f /\ name'[file_list'[j]] = name[file_list[j]]
        BY <1>3, <1>6, <1>7, <3>4
      <4> QED  BY <1>2, <1>7, <2>1, <3>4, <4>1
    <3> QED  BY <3>1, <3>2, <3>3, <3>4
  <2>2. ASSUME NEW g \in Files PROVE in_list'[g] <=> \E i \in DOMAIN file_list' : file_list'[i] = g
    <3>1. CASE g = f
      BY <1>6, <1>8, <3>1
    <3>2. CASE g # f
      <4>1. (\E i \in DOMAIN file_list' : file_list'[i] = g)
               <=> \E i \in DOMAIN file_list : file_list[i] = g
        BY <1>6, <3>2
      <4> QED  BY <1>8, <3>2, <4>1 DEF FsInv, ListInv
    <3> QED  BY <3>1, <3>2
  <2> QED  BY <2>1, <2>2 DEF ListInv
<1>10. RefInv'
  <2>1. Cardinality({get_fd}) = 1
    BY FS_Singleton
  <2> QED  BY <1>1, <1>4, <1>7, <1>8, <2>1 DEF FsInv, FsTypes, RefInv
<1> QED  BY <1>4, <1>5, <1>9, <1>10 DEF FsInv

\* One descriptor less, and one reference; the last one of a deleted file
\* frees it (ufs_close 287-297).
LEMMA CloseKeeps ==
    ASSUME FsInv, NEW fd \in OpenFds, Close(fd)
    PROVE  FsInv'
<1>1. fd \in Fds /\ file_descriptors[fd] \in Files
  BY DEF OpenFds
<1> PICK f \in Files : f = file_descriptors[fd]
  BY <1>1
<1>2. /\ refs' = [refs EXCEPT ![f] = @ - 1]
      /\ name' = [g \in Files |-> IF g = f /\ LastClose(f) THEN NULL ELSE name[g]]
      /\ file_descriptors' = [file_descriptors EXCEPT ![fd] = NULL]
      /\ file_descriptor_count' = file_descriptor_count - 1
      /\ UNCHANGED <<file_list, in_list, file_descriptor_capacity>>
  BY DEF Close, Free
<1>3. FsTypes' /\ SlotInv'
  <2>1. refs' \in [Files -> Int]
    BY <1>2 DEF FsInv, FsTypes
  <2>2. name' \in [Files -> Names \cup {NULL}]
    BY <1>2 DEF FsInv, FsTypes
  <2>3. file_descriptors' \in [Fds -> Files \cup {NULL, WILD}] /\ SlotInv'
    BY <1>1, <1>2 DEF FsInv, FsTypes, SlotInv
  <2> QED  BY <1>2, <2>1, <2>2, <2>3 DEF FsInv, FsTypes
<1>4. fd \in OpenOn(f) /\ OpenOn(f)' = OpenOn(f) \ {fd}
  BY <1>1, <1>2 DEF OpenOn, FsInv, FsTypes
<1>5. \A g \in Files \ {f} : OpenOn(g)' = OpenOn(g)
  BY <1>1, <1>2 DEF OpenOn, FsInv, FsTypes
<1>6. IsFiniteSet(OpenOn(f)) /\ IsFiniteSet(OpenOn(f)')
  BY <1>1, <1>4, OpenFinite, FS_RemoveElement
<1>7. Cardinality(OpenOn(f)') = Cardinality(OpenOn(f)) - 1
  BY <1>4, <1>6, FS_RemoveElement
<1>8. refs'[f] = Cardinality(OpenOn(f)') /\ (refs[f] = 1 <=> OpenOn(f)' = {})
  <2>1. refs[f] = Cardinality(OpenOn(f)) /\ refs'[f] = refs[f] - 1 /\ refs[f] \in Int
    BY <1>1, <1>2 DEF FsInv, FsTypes, RefInv
  <2>2. OpenOn(f)' = {} <=> Cardinality(OpenOn(f)') = 0
    BY <1>6, FS_EmptySet
  <2> QED  BY <1>7, <2>1, <2>2
<1>9. name[f] # NULL
  BY <1>1, <1>4 DEF FsInv, RefInv
<1>10. RefInv'
  <2> SUFFICES ASSUME NEW g \in Files
               PROVE  /\ refs'[g] = Cardinality(OpenOn(g)')
                      /\ name'[g] # NULL <=> in_list'[g] \/ OpenOn(g)' # {}
    BY DEF RefInv
  <2>1. CASE g = f
    <3>1. name'[f] = IF refs[f] = 1 /\ ~in_list[f] THEN NULL ELSE name[f]
      BY <1>2 DEF LastClose
    <3> QED  BY <1>2, <1>8, <1>9, <2>1, <3>1
  <2>2. CASE g # f
    BY <1>2, <1>5, <2>2 DEF FsInv, FsTypes, RefInv
  <2> QED  BY <2>1, <2>2
<1>11. ListInv'
  <2>1. \A i \in DOMAIN file_list : file_list[i] \in Files /\ in_list[file_list[i]]
    BY DEF FsInv, FsTypes, ListInv
  <2>2. \A i \in DOMAIN file_list : name'[file_list[i]] = name[file_list[i]]
    BY <1>2, <2>1 DEF LastClose
  <2> QED  BY <1>2, <2>2 DEF FsInv, ListInv
<1> QED  BY <1>3, <1>10, <1>11 DEF FsInv

\* A name less; the file is freed when it is not open (ufs_delete 310-330).
LEMMA DeleteKeeps ==
    ASSUME FsInv, NEW n \in Names, Delete(n)
    PROVE  FsInv'
<1>1. PICK f \in Files : f = search_file(n) /\ in_list[f]
  BY SearchFinds DEF Delete
<1>2. /\ file_list' = Unlinked(f)
      /\ in_list' = [in_list EXCEPT ![f] = FALSE]
      /\ name' = [g \in Files |-> IF g = f /\ Unused(f) THEN NULL ELSE name[g]]
      /\ UNCHANGED <<refs, file_descriptors, file_descriptor_count, file_descriptor_capacity>>
  BY <1>1 DEF Delete, Free, descVars, arrayVars
<1>3. \A g \in Files : OpenOn(g)' = OpenOn(g)
  BY <1>2 DEF OpenOn
<1>4. file_list' \in Seq(Files)
  BY <1>1, <1>2, UnlinkedRest
<1>5. FsTypes' /\ SlotInv'
  <2>1. name' \in [Files -> Names \cup {NULL}] /\ in_list' \in [Files -> BOOLEAN]
    BY <1>2 DEF FsInv, FsTypes
  <2> QED  BY <1>2, <1>4, <2>1 DEF FsInv, FsTypes, SlotInv
<1>6. PICK i \in DOMAIN file_list :
         /\ file_list[i] = f
         /\ DOMAIN file_list' = 1 .. Len(file_list) - 1
         /\ \A k \in 1 .. Len(file_list) - 1 :
               file_list'[k] = IF k < i THEN file_list[k] ELSE file_list[k + 1]
  BY <1>1, <1>2, UnlinkedRest
<1>7. /\ Len(file_list) \in Nat /\ DOMAIN file_list = 1 .. Len(file_list)
      /\ \A k \in DOMAIN file_list : file_list[k] \in Files
      /\ \A k \in DOMAIN file_list : file_list[k] = f => k = i
  BY <1>6 DEF FsInv, FsTypes, ListInv
<1> DEFINE old(k) == IF k < i THEN k ELSE k + 1
<1>8. \A k \in DOMAIN file_list' : /\ old(k) \in DOMAIN file_list \ {i}
                                   /\ file_list'[k] = file_list[old(k)]
  BY <1>6, <1>7
<1>9. \A k \in DOMAIN file_list \ {i} : \E m \in DOMAIN file_list' : file_list'[m] = file_list[k]
  <2> SUFFICES ASSUME NEW k \in DOMAIN file_list \ {i}
               PROVE  \E m \in DOMAIN file_list' : file_list'[m] = file_list[k]
    OBVIOUS
  <2>1. CASE k < i
    BY <1>6, <1>7, <2>1
  <2>2. CASE ~ (k < i)
    <3>1. k - 1 \in 1 .. Len(file_list) - 1 /\ ~ (k - 1 < i) /\ (k - 1) + 1 = k
      BY <1>6, <1>7, <2>2
    <3> QED  BY <1>6, <3>1
  <2> QED  BY <2>1, <2>2
<1>10. \A k \in DOMAIN file_list \ {i} : name'[file_list[k]] = name[file_list[k]]
  BY <1>2, <1>7
<1>11. ListInv'
  <2>1. ASSUME NEW j \in DOMAIN file_list', NEW k \in DOMAIN file_list',
               name'[file_list'[j]] = name'[file_list'[k]]
        PROVE  j = k
    <3>1. old(j) = old(k)
      <4>1. name[file_list[old(j)]] = name[file_list[old(k)]]
        BY <1>8, <1>10, <2>1
      <4> HIDE DEF old
      <4> QED  BY <1>8, <4>1 DEF FsInv, ListInv
    <3>2. j \in Int /\ k \in Int /\ i \in Int
      BY <1>6, <1>7
    <3> QED  BY <3>1, <3>2
  <2> HIDE DEF old
  <2>2. ASSUME NEW g \in Files PROVE in_list'[g] <=> \E k \in DOMAIN file_list' : file_list'[k] = g
    <3>1. CASE g = f
      <4>1. ~in_list'[g]
        BY <1>2, <3>1 DEF FsInv, FsTypes
      <4>2. \A k \in DOMAIN file_list' : file_list'[k] # f
        BY <1>7, <1>8
      <4> QED  BY <3>1, <4>1, <4>2
    <3>2. CASE g # f
      <4>1. in_list'[g] <=> \E k \in DOMAIN file_list : file_list[k] = g
        BY <1>2, <3>2 DEF FsInv, FsTypes, ListInv
      <4>2. (\E k \in DOMAIN file_list : file_list[k] = g)
               <=> \E k \in DOMAIN file_list' : file_list'[k] = g
        BY <1>6, <1>8, <1>9, <3>2
      <4> QED  BY <4>1, <4>2
    <3> QED  BY <3>1, <3>2
  <2> QED  BY <2>1, <2>2 DEF ListInv
<1>12. RefInv'
  <2> SUFFICES ASSUME NEW g \in Files
               PROVE  /\ refs'[g] = Cardinality(OpenOn(g)')
                      /\ name'[g] # NULL <=> in_list'[g] \/ OpenOn(g)' # {}
    BY DEF RefInv
  <2>1. refs[g] = Cardinality(OpenOn(g)) /\ (name[g] # NULL <=> in_list[g] \/ OpenOn(g) # {})
    BY DEF FsInv, RefInv
  <2>2. CASE g = f
    <3>1. OpenOn(f) = {} <=> Unused(f)
      BY <2>1, <2>2, OpenFinite, FS_EmptySet DEF Unused
    <3>2. name'[f] = (IF Unused(f) THEN NULL ELSE name[f]) /\ ~in_list'[f]
      BY <1>2 DEF FsInv, FsTypes
    <3> QED  BY <1>1, <1>2, <1>3, <2>1, <2>2, <3>1, <3>2
  <2>3. CASE g # f
    <3>1. name'[g] = name[g] /\ in_list'[g] = in_list[g]
      BY <1>2, <2>3 DEF FsInv, FsTypes
    <3> QED  BY <1>2, <1>3, <2>1, <3>1
  <2> QED  BY <2>2, <2>3
<1> QED  BY <1>5, <1>11, <1>12 DEF FsInv

\* ufs_destroy, when it goes well, leaves nothing (334-364).
LEMMA DestroyKeeps ==
    ASSUME FsInv, Destroy
    PROVE  FsInv' /\ Live' = {}
<1>1. /\ file_list = << >>
      /\ name' = [f \in Files |-> IF f \in {file_descriptors[fd] : fd \in OpenFds}
                                  THEN NULL ELSE name[f]]
      /\ refs' = [f \in Files |-> 0]
      /\ file_descriptors' = [fd \in Fds |-> NULL]
      /\ UNCHANGED <<file_list, in_list, file_descriptor_count, file_descriptor_capacity>>
  BY DEF Destroy, DestroyedWell, Free, arrayVars
<1>2. \A f \in Files : ~in_list[f]
  BY <1>1 DEF FsInv, ListInv
<1>3. ASSUME NEW f \in Files, name[f] # NULL
      PROVE  f \in {file_descriptors[fd] : fd \in OpenFds}
  <2>1. OpenOn(f) # {}
    BY <1>2, <1>3 DEF FsInv, RefInv
  <2>2. PICK fd \in Fds : file_descriptors[fd] = f
    BY <2>1 DEF OpenOn
  <2>3. f # NULL
    BY <2>2 DEF FsInv, RefInv, OpenOn
  <2>4. fd \in OpenFds
    BY <2>2, <2>3 DEF OpenFds
  <2> QED  BY <2>2, <2>4
<1>4. \A f \in Files : name'[f] = NULL
  BY <1>1, <1>3
<1>5. \A f \in Files : OpenOn(f)' = {}
  BY <1>1 DEF OpenOn
<1>6. FsTypes' /\ ListInv' /\ SlotInv'
  <2>1. name' \in [Files -> Names \cup {NULL}]
    BY <1>1 DEF FsInv, FsTypes
  <2>2. FsTypes' /\ SlotInv'
    BY <1>1, <2>1 DEF FsInv, FsTypes, SlotInv
  <2>3. ListInv'
    BY <1>1 DEF FsInv, ListInv
  <2> QED  BY <2>2, <2>3
<1>7. RefInv'
  BY <1>1, <1>2, <1>4, <1>5, FS_EmptySet DEF RefInv
<1> QED  BY <1>4, <1>6, <1>7 DEF FsInv, Live

-----------------------------------------------------------------------------
(* The count of descriptors                                                *)

Inv == FsInv /\ SlotsCounted

\* A call that goes on keeps the count when it keeps the slots ...
LEMMA SameCount ==
    ASSUME Inv, status = "up", status' \notin {"destroyed", "slot -1"},
           UNCHANGED <<file_descriptors, file_descriptor_count>>
    PROVE  SlotsCounted'
<1>1. OpenFds' = OpenFds
  BY DEF OpenFds
<1> QED  BY <1>1 DEF Inv, SlotsCounted

\* ... and ufs_open raises it with the slot it takes (511).
LEMMA OneMore ==
    ASSUME Inv, status = "up", status' = "up", NEW f \in Files, NEW flags, get_fd # -1,
           NewDescriptor(f, flags)
    PROVE  SlotsCounted'
<1>1. /\ get_fd \notin OpenFds /\ OpenFds' = OpenFds \cup {get_fd}
      /\ file_descriptor_count' = file_descriptor_count + 1
  BY NewDescriptorAdds DEF Inv
<1>2. Cardinality(OpenFds') = Cardinality(OpenFds) + 1
  BY <1>1, OpenFinite, FS_AddElement
<1> QED  BY <1>1, <1>2 DEF Inv, SlotsCounted

\* ufs_close lowers it (297).
LEMMA OneLess ==
    ASSUME Inv, status = "up", NEW fd \in OpenFds, Close(fd)
    PROVE  SlotsCounted'
<1>1. /\ file_descriptors' = [file_descriptors EXCEPT ![fd] = NULL]
      /\ file_descriptor_count' = file_descriptor_count - 1
      /\ status' = status
  BY DEF Close
<1>2. OpenFds' = OpenFds \ {fd}
  BY <1>1 DEF OpenFds, Inv, FsInv, FsTypes
<1>3. Cardinality(OpenFds') = Cardinality(OpenFds) - 1
  BY <1>2, OpenFinite, FS_RemoveElement
<1> QED  BY <1>1, <1>3 DEF Inv, SlotsCounted

\* Had malloc cleared the array, a count below the capacity would mean that
\* some slot is free: get_fd fails only because of a WILD one (499-509).
LEMMA NoSlotMeansWild ==
    ASSUME Inv, status = "up", get_fd = -1
    PROVE  \E fd \in Fds : file_descriptors[fd] = WILD
<1> SUFFICES ASSUME \A fd \in Fds : file_descriptors[fd] # WILD PROVE FALSE
  OBVIOUS
<1> DEFINE cap == file_descriptor_capacity
<1>1. cap \in Nat /\ file_descriptor_count = Cardinality(OpenFds)
  BY DEF Inv, FsInv, FsTypes, SlotsCounted
<1>2. cap # 0 /\ file_descriptor_count # cap
  BY <1>1 DEF get_fd
<1>3. FreeSlots = {}
  <2> SUFFICES ASSUME FreeSlots # {} PROVE FALSE
    OBVIOUS
  <2>1. FreeSlots \in SUBSET Nat
    BY DEF FreeSlots
  <2>2. \E m \in FreeSlots : \A k \in FreeSlots : m <= k
    BY <2>1, LeastElement
  <2>3. get_fd \in FreeSlots
    BY <1>2, <2>2 DEF get_fd
  <2> QED  BY <2>1, <2>3
<1>4. OpenFds = {fd \in Fds : fd < cap}
  BY <1>1, <1>3 DEF OpenFds, FreeSlots, Inv, FsInv, FsTypes, SlotInv
<1>5. OpenFds = 0 .. cap - 1
  BY <1>4 DEF Inv, FsInv, FsTypes
<1> QED  BY <1>1, <1>2, <1>5, FS_Interval

-----------------------------------------------------------------------------
(* The theorems                                                            *)

LEMMA InitInv == Init => Inv
<1> SUFFICES ASSUME Init PROVE Inv
  OBVIOUS
<1>1. OpenFds = {} /\ \A f \in Files : OpenOn(f) = {}
  BY DEF Init, OpenFds, OpenOn
<1>2. FsTypes /\ ListInv /\ SlotInv
  BY DEF Init, FsTypes, ListInv, SlotInv
<1>3. RefInv
  BY <1>1, FS_EmptySet DEF Init, RefInv
<1>4. SlotsCounted
  BY <1>1, FS_EmptySet DEF Init, SlotsCounted
<1> QED  BY <1>2, <1>3, <1>4 DEF Inv, FsInv

\* The calls that name a file.
LEMMA ByNameKeeps ==
    ASSUME Inv, status = "up", NEW n \in Names, ByName(n) PROVE Inv'
<1>1. ASSUME NEW flags \in FlagSets, OpenExisting(n, flags) PROVE Inv'
  <2>1. PICK f \in Files : NewDescriptor(f, flags) /\ get_fd # -1 /\ status' = "up"
    BY <1>1, SearchFinds DEF OpenExisting, Inv
  <2> QED  BY <1>1, <2>1, OpenExistingKeeps, OneMore DEF Inv
<1>2. ASSUME NEW flags \in FlagSets, NEW f \in Files, Create(n, flags, f) PROVE Inv'
  <2>1. NewDescriptor(f, flags) /\ get_fd # -1 /\ status' = "up"
    BY <1>2 DEF Create
  <2> QED  BY <1>2, <2>1, CreateKeeps, OneMore DEF Inv
<1>3. ASSUME NEW flags \in FlagSets, OpenNoFile(n, flags) PROVE Inv'
  BY <1>3, SameFiles, SameCount
     DEF OpenNoFile, Fail, descVars, arrayVars, Inv
<1>4. ASSUME NEW flags \in FlagSets, OpenNoSlot(n, flags) PROVE Inv'
  <2>1. /\ UNCHANGED <<listVars, file_descriptors, arrayVars>> /\ status' = "slot -1"
        /\ get_fd = -1
    BY <1>4 DEF OpenNoSlot, Wrong, descVars
  <2>2. FsInv'
    BY <2>1, SameFiles DEF Inv
  <2>3. OpenFds' = OpenFds
    BY <2>1 DEF OpenFds
  <2>4. SlotsCounted'
    BY <2>1, <2>3, NoSlotMeansWild DEF SlotsCounted, Inv, arrayVars
  <2> QED  BY <2>1, <2>2, <2>4 DEF Inv
<1>5. ASSUME DeleteNoFile(n) PROVE Inv'
  BY <1>5, SameFiles, SameCount DEF DeleteNoFile, Fail, descVars, arrayVars, Inv
<1>6. ASSUME Delete(n) PROVE Inv'
  <2>1. UNCHANGED <<file_descriptors, file_descriptor_count, status>>
    BY <1>6 DEF Delete, descVars, arrayVars
  <2> QED  BY <1>6, <2>1, DeleteKeeps, SameCount DEF Inv
<1> QED  BY <1>1, <1>2, <1>3, <1>4, <1>5, <1>6 DEF ByName

\* The calls on a descriptor.
LEMMA ByFdKeeps ==
    ASSUME Inv, status = "up", NEW fd \in OpenFds, ByFd(fd) PROVE Inv'
<1>1. ASSUME UNCHANGED <<listVars, file_descriptors, arrayVars>>,
             status' \notin {"destroyed", "slot -1"}
      PROVE  Inv'
  BY <1>1, SameFiles, SameCount DEF Inv, arrayVars
<1>2. ASSUME NEW data \in Data, Write(fd, data) PROVE Inv'
  BY <1>1, <1>2 DEF Write
<1>3. ASSUME WriteNothing(fd) PROVE Inv'
  BY <1>1, <1>3 DEF WriteNothing, Wrong, descVars
<1>4. ASSUME NEW size \in 0 .. MAX_FILE_SIZE, Read(fd, size) PROVE Inv'
  BY <1>1, <1>4 DEF Read
<1>5. ASSUME NEW size \in 0 .. MAX_FILE_SIZE, Resize(fd, size) PROVE Inv'
  BY <1>1, <1>5 DEF Resize, Wrong, descVars
<1>6. ASSUME NoPermission(fd) \/ NoMemory(fd) PROVE Inv'
  BY <1>1, <1>6 DEF NoPermission, NoMemory, Fail, descVars
<1>7. ASSUME Close(fd) PROVE Inv'
  BY <1>7, CloseKeeps, OneLess DEF Inv
<1> QED  BY <1>2, <1>3, <1>4, <1>5, <1>6, <1>7 DEF ByFd

LEMMA StepInv == Inv /\ [Next]_vars => Inv'
<1> SUFFICES ASSUME Inv, [Next]_vars PROVE Inv'
  OBVIOUS
<1>1. CASE UNCHANGED vars
  <2>1. UNCHANGED <<listVars, file_descriptors, arrayVars>> /\ status' = status
    BY <1>1 DEF vars, descVars
  <2>2. OpenFds' = OpenFds /\ Live' = Live
    BY <2>1 DEF OpenFds, Live, listVars
  <2> QED  BY <2>1, <2>2, SameFiles DEF Inv, SlotsCounted, arrayVars
<1> SUFFICES ASSUME Next PROVE Inv'
  BY <1>1
<1>2. status = "up"
  BY DEF Next
<1>3. ASSUME NEW n \in Names, ByName(n) PROVE Inv'
  BY <1>2, <1>3, ByNameKeeps
<1>4. ASSUME NEW fd \in OpenFds, ByFd(fd) PROVE Inv'
  BY <1>2, <1>4, ByFdKeeps
<1>5. ASSUME BadNumber \/ WildNumber \/ DestroyTwice PROVE Inv'
  <2>1. /\ UNCHANGED <<listVars, file_descriptors, arrayVars>>
        /\ status' \in {"up", "wild slot", "double free"}
    BY <1>2, <1>5 DEF BadNumber, WildNumber, DestroyTwice, Fail, Wrong, descVars
  <2> QED  BY <1>2, <2>1, SameFiles, SameCount DEF Inv, arrayVars
<1>6. ASSUME Destroy PROVE Inv'
  BY <1>6, DestroyKeeps DEF Inv, SlotsCounted, Destroy
<1> QED  BY <1>3, <1>4, <1>5, <1>6 DEF Next

\* The invariant holds in every state of every execution.
THEOREM InvAlways == Spec => []Inv
<1> QED  BY InitInv, StepInv, PTL DEF Spec

\* The reference count of a file is the number of its descriptors (146, 287).
THEOREM RefsExactAlways == Spec => []RefsExact
<1>1. Inv => RefsExact
  BY DEF Inv, FsInv, RefInv, RefsExact, Live
<1> QED  BY <1>1, InvAlways, PTL

\* Files live exactly while a name or a descriptor leads to them: no use after
\* free and no leak, up to ufs_destroy (289-293, 326-330).
THEOREM LiveExactlyAlways == Spec => []LiveExactly
<1>1. Inv => LiveExactly
  <2>0. Inv => ToSet(file_list) \subseteq Files
    BY DEF ToSet, Inv, FsInv, FsTypes
  <2> SUFFICES ASSUME Inv, NEW f \in Files
               PROVE  f \in Live <=> f \in ToSet(file_list)
                                           \cup {file_descriptors[fd] : fd \in OpenFds}
    BY <2>0 DEF LiveExactly, Live, OpenFds
  <2>1. f \in Live <=> in_list[f] \/ OpenOn(f) # {}
    BY DEF Inv, FsInv, RefInv, Live
  <2>2. in_list[f] <=> f \in ToSet(file_list)
    BY DEF Inv, FsInv, ListInv, ToSet
  <2>3. OpenOn(f) # {} <=> f \in {file_descriptors[fd] : fd \in OpenFds}
    BY DEF OpenOn, OpenFds
  <2> QED  BY <2>1, <2>2, <2>3
<1> QED  BY <1>1, InvAlways, PTL

\* No two listed files have one name, and the list is what in_list says (302-325).
THEOREM ListSoundAlways == Spec => []ListSound
<1>1. Inv => ListSound
  BY DEF Inv, FsInv, ListInv, ListSound, ToSet
<1> QED  BY <1>1, InvAlways, PTL

\* The count is that of the open slots, and ufs_open finds a slot in an array
\* that malloc happened to clear (480-513).
THEOREM SlotsCountedAlways == Spec => []SlotsCounted
<1>1. Inv => SlotsCounted
  BY DEF Inv
<1> QED  BY <1>1, InvAlways, PTL

-----------------------------------------------------------------------------
(* The blocks of the files                                                 *)

USE BlocksAssumption

DataTypes ==
    /\ block_list \in [Files -> BlockList]
    /\ bytes_left \in [Files -> 0 .. MAX_FILE_SIZE]
    /\ offset \in [Fds -> 0 .. MaxOffset]
    /\ can_read \in [Fds -> BOOLEAN] /\ can_write \in [Fds -> BOOLEAN]

\* A file's blocks are filled in order, and there are no more bytes and blocks
\* than bytes_left and the limits allow.
FileOK(blocks, left) ==
    /\ Packed(blocks)
    /\ Size(blocks) + left <= MAX_FILE_SIZE /\ Size(blocks) <= MaxOffset
    /\ (Len(blocks) - 1) * BLOCK_SIZE < MAX_FILE_SIZE

DataInv ==
    /\ DataTypes
    /\ \A f \in Files : /\ FileOK(block_list[f], bytes_left[f])
                        /\ name[f] = NULL => block_list[f] = << >>

\* The bytes of a file.
LEMMA FlatType == \A blocks \in BlockList : Flat(blocks) \in Str /\ Size(blocks) \in Nat
BY RestType, RestWhole, StrType DEF Size

\* A file without blocks, whatever is left.
LEMMA EmptyFile ==
    /\ << >> \in BlockList /\ Flat(<< >>) = << >>
    /\ \A left \in 0 .. MAX_FILE_SIZE : FileOK(<< >>, left)
<1>1. << >> \in BlockList
  BY EmptySeq DEF BlockList
<1>2. Flat(<< >>) = << >> /\ Len(<< >>) = 0
  BY FlattenEmpty, StrType DEF Flat
<1>3. Packed(<< >>)
  BY <1>1, <1>2, BlocksType DEF Packed
<1>4. Size(<< >>) = 0 /\ (Len(<< >>) - 1) * BLOCK_SIZE < MAX_FILE_SIZE
  BY <1>2 DEF Size
<1> QED  BY <1>1, <1>2, <1>3, <1>4 DEF FileOK

\* How long a string is when a part of it is overwritten.
LEMMA OverwrittenLength ==
    ASSUME NEW a \in Str, NEW off \in Nat, NEW data \in Str
    PROVE  /\ Overwrite(a, StartIn(off, a), data) \in Str
           /\ Len(Overwrite(a, StartIn(off, a), data)) <= Len(a) + Len(data)
           /\ \/ Len(Overwrite(a, StartIn(off, a), data)) <= off + Len(data)
              \/ Len(Overwrite(a, StartIn(off, a), data)) = Len(a)
<1> DEFINE from == StartIn(off, a)
           x == Overwrite(a, from, data)
<1>1. Len(a) \in Nat /\ Len(data) \in Nat
  BY StrType
<1>2. from \in 0 .. Len(a) /\ from <= off
  BY <1>1 DEF StartIn, Least
<1> HIDE DEF from
<1>3. /\ x \in Str
      /\ from + Len(data) >= Len(a) => Len(x) = from + Len(data)
      /\ from + Len(data) < Len(a) => Len(x) = Len(a)
  BY <1>2, OverwriteIs
<1> HIDE DEF x
<1>4. Len(x) <= Len(a) + Len(data) /\ (Len(x) <= off + Len(data) \/ Len(x) = Len(a))
  BY <1>1, <1>2, <1>3
<1> QED  BY <1>3, <1>4 DEF x, from

\* No more blocks than the bytes in them need, when the last one is not empty.
LEMMA BlocksNeeded ==
    ASSUME NEW blocks \in BlockList, Packed(blocks), blocks # << >>, blocks[Len(blocks)] # << >>
    PROVE  (Len(blocks) - 1) * BLOCK_SIZE < Size(blocks)
<1> DEFINE n == Len(blocks)
<1>1. n \in Nat \ {0} /\ DOMAIN blocks = 1 .. n
  BY BlocksType, EmptySeq DEF BlockList
<1>2. blocks[n] \in Str /\ Len(blocks[n]) \in Nat \ {0}
  BY <1>1, BlocksType, StrType
<1>3. \A j \in 1 .. n - 1 : Len(blocks[j]) = BLOCK_SIZE
  BY <1>1 DEF Packed
<1>4. Size(blocks) = (n - 1) * BLOCK_SIZE + Len(blocks[n])
  BY <1>3, RestFull
<1> HIDE DEF n
<1>5. (n - 1) * BLOCK_SIZE \in Int
  BY <1>1
<1>6. (n - 1) * BLOCK_SIZE < Size(blocks)
  <2> DEFINE l == Len(blocks[n])
             full == (n - 1) * BLOCK_SIZE
  <2>1. l \in Nat \ {0} /\ full \in Int /\ Size(blocks) = full + l
    BY <1>2, <1>4, <1>5
  <2> HIDE DEF l, full
  <2>2. full < Size(blocks)
    BY <2>1
  <2> QED  BY <2>2 DEF full
<1> QED  BY <1>6 DEF n

\* ufs_write keeps a file in order and in its limits, when there is room (179-221).
LEMMA WrittenFile ==
    ASSUME NEW blocks \in BlockList, NEW left \in 0 .. MAX_FILE_SIZE, FileOK(blocks, left),
           NEW off \in Nat, NEW data \in Str, Len(data) <= left, off + Len(data) <= MaxOffset
    PROVE  /\ Written(blocks, off, data) \in BlockList
           /\ left - Len(data) \in 0 .. MAX_FILE_SIZE
           /\ FileOK(Written(blocks, off, data), left - Len(data))
<1> DEFINE w == Written(blocks, off, data)
           a == Flat(blocks)
           b == Flat(w)
<1>1. Packed(blocks) /\ Len(a) + left <= MAX_FILE_SIZE /\ Len(a) <= MaxOffset
      /\ (Len(blocks) - 1) * BLOCK_SIZE < MAX_FILE_SIZE
  BY DEF FileOK, Size
<1>2. /\ w \in BlockList /\ Packed(w) /\ b = Overwrite(a, StartIn(off, a), data)
      /\ Len(w) = Len(blocks) \/ w[Len(w)] # << >>
  BY <1>1, WrittenIs
<1>3. a \in Str /\ Len(a) \in Nat /\ Len(data) \in Nat
  BY FlatType, StrType
<1> HIDE DEF w, a
<1>4. b \in Str /\ Len(b) <= Len(a) + Len(data) /\ (Len(b) <= off + Len(data) \/ Len(b) = Len(a))
  BY <1>2, <1>3, OverwrittenLength
<1> HIDE DEF b
<1>5. Len(b) \in Nat
  BY <1>4, StrType
<1>6. Len(b) + (left - Len(data)) <= MAX_FILE_SIZE /\ Len(b) <= MaxOffset
      /\ left - Len(data) \in 0 .. MAX_FILE_SIZE
  BY <1>1, <1>3, <1>4, <1>5
<1>7. (Len(w) - 1) * BLOCK_SIZE < MAX_FILE_SIZE
  <2>1. CASE Len(w) = Len(blocks)
    BY <1>1, <2>1
  <2>2. CASE w = << >>
    BY <2>2, EmptyFile DEF FileOK
  <2>3. CASE w # << >> /\ w[Len(w)] # << >>
    <3>1. (Len(w) - 1) * BLOCK_SIZE < Len(b)
      BY <1>2, <2>3, BlocksNeeded DEF Size, b
    <3>2. Len(b) <= MAX_FILE_SIZE
      BY <1>5, <1>6
    <3>3. (Len(w) - 1) * BLOCK_SIZE \in Int
      BY <1>2, BlocksType
    <3> QED  BY <1>5, <3>1, <3>2, <3>3
  <2> QED  BY <1>2, <2>1, <2>2, <2>3
<1> QED  BY <1>2, <1>6, <1>7 DEF FileOK, Size, b, w

\* ... and so does ufs_resize, when it returns (429-441).
LEMMA ResizedFile ==
    ASSUME NEW blocks \in BlockList, NEW left, FileOK(blocks, left), left \in Nat,
           NEW size \in 0 .. MAX_FILE_SIZE, ~Resized(blocks, size).endless
    PROVE  /\ Resized(blocks, size).blocks \in BlockList
           /\ LeftOver(Resized(blocks, size).blocks) \in 0 .. MAX_FILE_SIZE
           /\ FileOK(Resized(blocks, size).blocks, LeftOver(Resized(blocks, size).blocks))
           /\ Flat(Resized(blocks, size).blocks) = SubSeq(Flat(blocks), 1, Least(size, Size(blocks)))
<1> DEFINE r == Resized(blocks, size).blocks
           a == Flat(blocks)
           k == Least(size, Size(blocks))
<1>1. Packed(blocks) /\ Size(blocks) <= MaxOffset /\ Size(blocks) + left <= MAX_FILE_SIZE
  BY DEF FileOK
<1>2. size \in Nat /\ a \in Str /\ Size(blocks) \in Nat /\ Len(a) = Size(blocks)
  BY FlatType DEF Size
<1>3. ~Odd(size, a)
  <2>1. Odd(size, a) => Resized(blocks, size) = Endless
    BY <1>1, <1>2, ResizedIs
  <2> QED  BY <2>1 DEF Endless
<1>4. /\ r \in BlockList /\ Packed(r) /\ Flat(r) = SubSeq(a, 1, k)
      /\ Len(r) * BLOCK_SIZE < size + BLOCK_SIZE
  BY <1>1, <1>2, <1>3, ResizedIs
<1> HIDE DEF r, a
<1>5. k \in 0 .. Len(a) /\ 1 \in Nat \ {0}
  BY <1>2 DEF Least
<1>6. Size(r) <= Size(blocks) /\ Size(r) \in Nat
  <2>1. 1 <= k => Len(SubSeq(a, 1, k)) = k - 1 + 1
    BY <1>2, <1>5, StrSub
  <2>2. 1 > k => Len(SubSeq(a, 1, k)) = 0
    BY <1>2, <1>5, StrSub
  <2>3. Size(r) = Len(SubSeq(a, 1, k))
    BY <1>4 DEF Size
  <2> HIDE DEF k
  <2> QED  BY <1>2, <1>5, <2>1, <2>2, <2>3
<1>7. (Len(r) - 1) * BLOCK_SIZE < MAX_FILE_SIZE
  <2>1. (Len(r) - 1) * BLOCK_SIZE = Len(r) * BLOCK_SIZE - BLOCK_SIZE /\ Len(r) * BLOCK_SIZE \in Int
    BY <1>4, BlocksType
  <2> QED  BY <1>2, <1>4, <2>1
<1>8. LeftOver(r) \in 0 .. MAX_FILE_SIZE /\ Size(r) + LeftOver(r) <= MAX_FILE_SIZE /\ Size(r) <= MaxOffset
  BY <1>1, <1>2, <1>6 DEF LeftOver
<1> QED  BY <1>4, <1>7, <1>8 DEF FileOK, r, a

\* What is read comes out of the file, so the position stays in the limits (226-275).
LEMMA ReadFile ==
    ASSUME NEW blocks \in BlockList, NEW left, FileOK(blocks, left),
           NEW off \in 0 .. MaxOffset, NEW size \in Nat
    PROVE  /\ Reading(blocks, off, size) = SubSeq(Flat(blocks), off + 1, Least(Size(blocks), off + size))
           /\ off < Size(blocks) =>
                 off + Len(Reading(blocks, off, size)) = Least(Size(blocks), off + size)
           /\ off >= Size(blocks) => Len(Reading(blocks, off, size)) = 0
           /\ off + Len(Reading(blocks, off, size)) \in 0 .. MaxOffset
<1> DEFINE a == Flat(blocks)
           k == Least(Size(blocks), off + size)
           x == SubSeq(a, off + 1, k)
<1>1. Packed(blocks) /\ Size(blocks) <= MaxOffset
  BY DEF FileOK
<1>2. off \in Nat /\ off + 1 \in Nat \ {0} /\ a \in Str /\ Size(blocks) \in Nat /\ Len(a) = Size(blocks)
  BY FlatType DEF Size
<1>3. Reading(blocks, off, size) = x
  BY <1>1, <1>2, ReadingIs
<1>4. k \in 0 .. Len(a) /\ (off < Size(blocks) => k >= off) /\ (off >= Size(blocks) => k < off + 1)
  BY <1>2 DEF Least
<1> HIDE DEF a, k
<1>5. /\ off + 1 <= k => Len(x) = k - (off + 1) + 1
      /\ off + 1 > k => Len(x) = 0
  BY <1>2, <1>4, StrSub
<1> HIDE DEF x
<1>6. /\ off < Size(blocks) => off + Len(x) = k
      /\ off >= Size(blocks) => Len(x) = 0
      /\ off + Len(x) \in 0 .. MaxOffset
  BY <1>1, <1>2, <1>4, <1>5
<1> QED  BY <1>3, <1>6 DEF x, a, k

\* The data of one call is a string.
LEMMA DataStr == \A data \in Data : data \in Str
<1> SUFFICES ASSUME NEW n \in 0 .. MaxWrite, NEW data \in [1 .. n -> Bytes] PROVE data \in Str
  BY DEF Data
<1> QED  BY SeqDef DEF Str

\* A file with a descriptor is alive.
LEMMA OpenLives ==
    ASSUME FsInv, NEW fd \in OpenFds
    PROVE  /\ fd \in Fds /\ file_descriptors[fd] \in Files
           /\ name[file_descriptors[fd]] # NULL
<1>1. fd \in Fds /\ file_descriptors[fd] \in Files
  BY DEF OpenFds
<1>2. fd \in OpenOn(file_descriptors[fd])
  BY <1>1 DEF OpenOn
<1> QED  BY <1>1, <1>2 DEF FsInv, RefInv

\* Calls that leave the blocks and the positions alone.
LEMMA SameData ==
    ASSUME DataInv, UNCHANGED <<name, dataVars, offset, can_read, can_write>>
    PROVE  DataInv'
BY DEF DataInv, DataTypes, dataVars

\* Freeing files leaves no block with them (460-471).
LEMMA FreeKeepsData ==
    ASSUME DataInv, NEW S, Free(S), offset' \in [Fds -> 0 .. MaxOffset],
           can_read' \in [Fds -> BOOLEAN], can_write' \in [Fds -> BOOLEAN]
    PROVE  DataInv'
<1>1. /\ block_list' \in [Files -> BlockList] /\ bytes_left' \in [Files -> 0 .. MAX_FILE_SIZE]
      /\ \A f \in S \cap Files : block_list'[f] = << >> /\ bytes_left'[f] = 0
      /\ \A f \in Files \ S : block_list'[f] = block_list[f] /\ bytes_left'[f] = bytes_left[f]
                              /\ name'[f] = name[f]
  <2>1. << >> \in BlockList /\ 0 \in 0 .. MAX_FILE_SIZE
    BY EmptyFile
  <2> QED  BY <2>1 DEF Free, DataInv, DataTypes
<1>2. ASSUME NEW f \in Files
      PROVE  FileOK(block_list'[f], bytes_left'[f]) /\ (name'[f] = NULL => block_list'[f] = << >>)
  <2>1. CASE f \in S
    <3>1. FileOK(<< >>, 0)
      BY EmptyFile
    <3> QED  BY <1>1, <2>1, <3>1
  <2>2. CASE f \notin S
    BY <1>1, <2>2 DEF DataInv
  <2> QED  BY <2>1, <2>2
<1> QED  BY <1>1, <1>2 DEF DataInv, DataTypes

\* A call that changes the blocks and the room of one living file.
LEMMA FileKeepsData ==
    ASSUME DataInv, NEW f \in Files, name'[f] # NULL, NEW blocks \in BlockList,
           NEW left \in 0 .. MAX_FILE_SIZE, FileOK(blocks, left),
           block_list' = [block_list EXCEPT ![f] = blocks],
           bytes_left' = [bytes_left EXCEPT ![f] = left],
           \A g \in Files \ {f} : name'[g] = name[g], offset' \in [Fds -> 0 .. MaxOffset],
           can_read' \in [Fds -> BOOLEAN], can_write' \in [Fds -> BOOLEAN]
    PROVE  DataInv'
<1>1. /\ block_list' \in [Files -> BlockList] /\ bytes_left' \in [Files -> 0 .. MAX_FILE_SIZE]
      /\ block_list'[f] = blocks /\ bytes_left'[f] = left
      /\ \A g \in Files \ {f} : block_list'[g] = block_list[g] /\ bytes_left'[g] = bytes_left[g]
  BY DEF DataInv, DataTypes
<1>2. ASSUME NEW g \in Files
      PROVE  FileOK(block_list'[g], bytes_left'[g]) /\ (name'[g] = NULL => block_list'[g] = << >>)
  <2>1. CASE g = f
    BY <1>1, <2>1
  <2>2. CASE g # f
    BY <1>1, <2>2 DEF DataInv
  <2> QED  BY <2>1, <2>2
<1> QED  BY <1>1, <1>2 DEF DataInv, DataTypes

LEMMA NewDescriptorTypes ==
    ASSUME FsInv, DataInv, get_fd # -1, NEW f, NEW flags, NewDescriptor(f, flags)
    PROVE  /\ offset' \in [Fds -> 0 .. MaxOffset]
           /\ can_read' \in [Fds -> BOOLEAN] /\ can_write' \in [Fds -> BOOLEAN]
<1>1. Readable(flags) \in BOOLEAN /\ Writable(flags) \in BOOLEAN
  BY DEF Readable, Writable
<1>2. 0 \in 0 .. MaxOffset
  OBVIOUS
<1> QED  BY <1>1, <1>2 DEF NewDescriptor, DataInv, DataTypes

LEMMA WriteKeepsData ==
    ASSUME FsInv, DataInv, NEW fd \in OpenFds, NEW data \in Data, Write(fd, data)
    PROVE  DataInv'
<1> DEFINE f == file_descriptors[fd]
           blocks == Written(block_list[f], offset[fd], data)
           left == bytes_left[f] - Len(data)
<1>1. fd \in Fds /\ f \in Files /\ name[f] # NULL
  BY OpenLives
<1>2. data \in Str /\ Len(data) \in Nat
  BY DataStr, StrType
<1>3. /\ Len(data) <= bytes_left[f] /\ offset[fd] + Len(data) <= MaxOffset
      /\ block_list' = [block_list EXCEPT ![f] = blocks]
      /\ bytes_left' = [bytes_left EXCEPT ![f] = left]
      /\ offset' = [offset EXCEPT ![fd] = offset[fd] + Len(data)]
      /\ UNCHANGED <<name, can_read, can_write>>
  BY <1>1 DEF Write, Room, listVars, DataInv, DataTypes
<1>4. block_list[f] \in BlockList /\ bytes_left[f] \in 0 .. MAX_FILE_SIZE /\ offset[fd] \in 0 .. MaxOffset
      /\ FileOK(block_list[f], bytes_left[f])
  BY <1>1 DEF DataInv, DataTypes
<1>5. offset' \in [Fds -> 0 .. MaxOffset] /\ can_read' \in [Fds -> BOOLEAN] /\ can_write' \in [Fds -> BOOLEAN]
  <2>1. offset[fd] + Len(data) \in 0 .. MaxOffset
    BY <1>2, <1>3, <1>4
  <2> QED  BY <1>1, <1>3, <2>1 DEF DataInv, DataTypes
<1>6. blocks \in BlockList /\ left \in 0 .. MAX_FILE_SIZE /\ FileOK(blocks, left)
  <2> DEFINE old == block_list[f]
             room == bytes_left[f]
             off == offset[fd]
  <2>1. old \in BlockList /\ room \in 0 .. MAX_FILE_SIZE /\ FileOK(old, room) /\ off \in Nat
        /\ Len(data) <= room /\ off + Len(data) <= MaxOffset
    BY <1>3, <1>4
  <2> HIDE DEF old, room, off
  <2>2. /\ Written(old, off, data) \in BlockList /\ room - Len(data) \in 0 .. MAX_FILE_SIZE
        /\ FileOK(Written(old, off, data), room - Len(data))
    BY <1>2, <2>1, WrittenFile
  <2> QED  BY <2>2 DEF old, room, off
<1> HIDE DEF f, blocks, left
<1> QED  BY <1>1, <1>3, <1>5, <1>6, FileKeepsData

LEMMA ReadKeepsData ==
    ASSUME FsInv, DataInv, NEW fd \in OpenFds, NEW size \in 0 .. MAX_FILE_SIZE, Read(fd, size)
    PROVE  DataInv'
<1> DEFINE blocks == block_list[file_descriptors[fd]]
           left == bytes_left[file_descriptors[fd]]
           off == offset[fd]
<1>1. fd \in Fds /\ file_descriptors[fd] \in Files
  BY OpenLives
<1>2. blocks \in BlockList /\ FileOK(blocks, left) /\ off \in 0 .. MaxOffset /\ size \in Nat
  BY <1>1 DEF DataInv, DataTypes
<1>3. /\ offset' = [offset EXCEPT ![fd] = off + Len(Reading(blocks, off, size))]
      /\ UNCHANGED <<name, dataVars, can_read, can_write>>
  BY <1>1 DEF Read, listVars, DataInv, DataTypes
<1> HIDE DEF blocks, left, off
<1>4. off + Len(Reading(blocks, off, size)) \in 0 .. MaxOffset
  BY <1>2, ReadFile
<1> QED  BY <1>1, <1>3, <1>4 DEF DataInv, DataTypes, dataVars

LEMMA LeftNat == \A left \in 0 .. MAX_FILE_SIZE : left \in Nat
OBVIOUS

\* What a resize that returns does to the file of the descriptor.
LEMMA ResizeDoes ==
    ASSUME FsInv, DataInv, NEW fd \in OpenFds, NEW size \in 0 .. MAX_FILE_SIZE, Resize(fd, size),
           status' # "endless", status' # "freed block"
    PROVE  \E blocks \in BlockList :
              /\ LeftOver(blocks) \in 0 .. MAX_FILE_SIZE
              /\ FileOK(blocks, LeftOver(blocks))
              /\ Flat(blocks) = SubSeq(Flat(block_list[file_descriptors[fd]]), 1,
                                       Least(size, Size(block_list[file_descriptors[fd]])))
              /\ block_list' = [block_list EXCEPT ![file_descriptors[fd]] = blocks]
              /\ bytes_left' = [bytes_left EXCEPT ![file_descriptors[fd]] = LeftOver(blocks)]
              /\ UNCHANGED <<listVars, descVars, arrayVars, ufs_error_code, status>>
<1> DEFINE f == file_descriptors[fd]
           old == block_list[f]
           r == Resized(old, size)
<1>1. f \in Files
  BY OpenLives
<1>2. /\ ~r.endless
      /\ block_list' = [block_list EXCEPT ![f] = r.blocks]
      /\ bytes_left' = [bytes_left EXCEPT ![f] = LeftOver(r.blocks)]
      /\ UNCHANGED <<listVars, descVars, arrayVars, ufs_error_code, status>>
  BY Zenon DEF Resize, Wrong
<1> HIDE DEF f
<1>3. old \in BlockList /\ bytes_left[f] \in Nat /\ FileOK(old, bytes_left[f])
  <2>1. bytes_left[f] \in 0 .. MAX_FILE_SIZE /\ block_list[f] \in BlockList
    BY <1>1 DEF DataInv, DataTypes
  <2>2. FileOK(block_list[f], bytes_left[f])
    BY <1>1 DEF DataInv
  <2>3. bytes_left[f] \in Nat
    BY <2>1, LeftNat, Zenon
  <2> QED  BY <2>1, <2>2, <2>3, Zenon
<1> HIDE DEF old
<1>4. /\ r.blocks \in BlockList
      /\ LeftOver(r.blocks) \in 0 .. MAX_FILE_SIZE
      /\ FileOK(r.blocks, LeftOver(r.blocks))
      /\ Flat(r.blocks) = SubSeq(Flat(old), 1, Least(size, Size(old)))
  BY <1>2, <1>3, ResizedFile
<1> HIDE DEF r
<1> QED  BY <1>2, <1>4 DEF f, old

LEMMA ResizeKeepsData ==
    ASSUME FsInv, DataInv, status = "up", NEW fd \in OpenFds, NEW size \in 0 .. MAX_FILE_SIZE, Resize(fd, size)
    PROVE  DataInv'
<1> DEFINE f == file_descriptors[fd]
<1>1. f \in Files /\ name[f] # NULL
  BY OpenLives
<1>2. CASE status' = "endless" \/ status' = "freed block"
  <2>1. UNCHANGED <<listVars, dataVars, descVars>>
    BY <1>2 DEF Resize, Wrong
  <2> QED  BY <2>1, SameData DEF listVars, descVars
<1>3. CASE status' # "endless" /\ status' # "freed block"
  <2>1. PICK blocks \in BlockList :
              /\ LeftOver(blocks) \in 0 .. MAX_FILE_SIZE
              /\ FileOK(blocks, LeftOver(blocks))
              /\ block_list' = [block_list EXCEPT ![f] = blocks]
              /\ bytes_left' = [bytes_left EXCEPT ![f] = LeftOver(blocks)]
              /\ UNCHANGED <<listVars, descVars>>
    BY <1>3, ResizeDoes
  <2>2. UNCHANGED <<name, offset, can_read, can_write>>
    BY <2>1 DEF listVars, descVars
  <2>3. /\ offset' \in [Fds -> 0 .. MaxOffset]
        /\ can_read' \in [Fds -> BOOLEAN] /\ can_write' \in [Fds -> BOOLEAN]
    BY <2>2 DEF DataInv, DataTypes
  <2> HIDE DEF f
  <2> QED  BY <1>1, <2>1, <2>2, <2>3, FileKeepsData
<1> QED  BY <1>2, <1>3

LEMMA CreateKeepsData ==
    ASSUME FsInv, DataInv, NEW n \in Names, NEW flags, NEW f \in Files, Create(n, flags, f)
    PROVE  DataInv'
<1>1. /\ name' = [name EXCEPT ![f] = n]
      /\ block_list' = [block_list EXCEPT ![f] = << >>]
      /\ bytes_left' = [bytes_left EXCEPT ![f] = MAX_FILE_SIZE]
      /\ get_fd # -1 /\ NewDescriptor(f, flags)
  BY DEF Create
<1>2. name'[f] # NULL /\ \A g \in Files \ {f} : name'[g] = name[g]
  BY <1>1 DEF FsInv, FsTypes
<1>3. << >> \in BlockList /\ MAX_FILE_SIZE \in 0 .. MAX_FILE_SIZE /\ FileOK(<< >>, MAX_FILE_SIZE)
  BY EmptyFile
<1> QED  BY <1>1, <1>2, <1>3, NewDescriptorTypes, FileKeepsData

LEMMA CloseKeepsData ==
    ASSUME FsInv, DataInv, NEW fd \in OpenFds, Close(fd)
    PROVE  DataInv'
<1>1. PICK S : Free(S)
  BY DEF Close
<1>2. /\ offset' = [offset EXCEPT ![fd] = 0]
      /\ can_read' = [can_read EXCEPT ![fd] = FALSE]
      /\ can_write' = [can_write EXCEPT ![fd] = FALSE]
  BY DEF Close
<1>3. /\ offset' \in [Fds -> 0 .. MaxOffset]
      /\ can_read' \in [Fds -> BOOLEAN] /\ can_write' \in [Fds -> BOOLEAN]
  <2>1. 0 \in 0 .. MaxOffset
    OBVIOUS
  <2> QED  BY <1>2, <2>1 DEF DataInv, DataTypes
<1> QED  BY <1>1, <1>3, FreeKeepsData

LEMMA InitData == Init => DataInv
<1> SUFFICES ASSUME Init PROVE DataInv
  OBVIOUS
<1>1. << >> \in BlockList /\ 0 \in 0 .. MAX_FILE_SIZE /\ FileOK(<< >>, 0) /\ 0 \in 0 .. MaxOffset
  BY EmptyFile
<1> QED  BY <1>1 DEF Init, DataInv, DataTypes

LEMMA StepData == Inv /\ DataInv /\ [Next]_vars => DataInv'
<1> SUFFICES ASSUME Inv, DataInv, [Next]_vars PROVE DataInv'
  OBVIOUS
<1>0. FsInv
  BY DEF Inv
<1>1. ASSUME UNCHANGED <<listVars, dataVars, descVars>> PROVE DataInv'
  BY <1>1, SameData DEF listVars, descVars
<1>2. CASE UNCHANGED vars
  BY <1>1, <1>2 DEF vars
<1> SUFFICES ASSUME Next PROVE DataInv'
  BY <1>2
<1>3. status = "up"
  BY DEF Next
<1>4. ASSUME NEW where, Wrong(where) PROVE DataInv'
  BY <1>1, <1>4 DEF Wrong
<1>5. ASSUME NEW code, Fail(code) PROVE DataInv'
  BY <1>1, <1>5 DEF Fail
<1>6. ASSUME NEW n \in Names, ByName(n) PROVE DataInv'
  <2>1. ASSUME NEW flags \in FlagSets, OpenExisting(n, flags) PROVE DataInv'
    <3>1. PICK f : NewDescriptor(f, flags) /\ get_fd # -1 /\ UNCHANGED <<name, dataVars>>
      BY <2>1 DEF OpenExisting
    <3>2. /\ offset' \in [Fds -> 0 .. MaxOffset]
          /\ can_read' \in [Fds -> BOOLEAN] /\ can_write' \in [Fds -> BOOLEAN]
      BY <1>0, <3>1, NewDescriptorTypes
    <3> QED  BY <3>1, <3>2 DEF DataInv, DataTypes, dataVars
  <2>2. ASSUME NEW flags \in FlagSets, OpenNoFile(n, flags) \/ OpenNoSlot(n, flags) PROVE DataInv'
    BY <1>4, <1>5, <2>2 DEF OpenNoFile, OpenNoSlot
  <2>3. ASSUME NEW flags \in FlagSets, NEW f \in Files, Create(n, flags, f) PROVE DataInv'
    BY <1>0, <2>3, CreateKeepsData
  <2>4. ASSUME Delete(n) PROVE DataInv'
    <3>1. PICK S : Free(S)
      BY <2>4 DEF Delete
    <3>2. UNCHANGED <<offset, can_read, can_write>>
      BY <2>4 DEF Delete, descVars
    <3> QED  BY <3>1, <3>2, FreeKeepsData DEF DataInv, DataTypes
  <2>5. ASSUME DeleteNoFile(n) PROVE DataInv'
    BY <1>5, <2>5 DEF DeleteNoFile
  <2> QED  BY <1>6, <2>1, <2>2, <2>3, <2>4, <2>5 DEF ByName
<1>7. ASSUME NEW fd \in OpenFds, ByFd(fd) PROVE DataInv'
  <2>1. ASSUME NEW data \in Data, Write(fd, data) PROVE DataInv'
    BY <1>0, <2>1, WriteKeepsData
  <2>2. ASSUME NEW size \in 0 .. MAX_FILE_SIZE, Read(fd, size) PROVE DataInv'
    BY <1>0, <2>2, ReadKeepsData
  <2>3. ASSUME NEW size \in 0 .. MAX_FILE_SIZE, Resize(fd, size) PROVE DataInv'
    BY <1>0, <1>3, <2>3, ResizeKeepsData
  <2>4. ASSUME WriteNothing(fd) \/ NoPermission(fd) \/ NoMemory(fd) PROVE DataInv'
    BY <1>4, <1>5, <2>4 DEF WriteNothing, NoPermission, NoMemory
  <2>5. ASSUME Close(fd) PROVE DataInv'
    BY <1>0, <2>5, CloseKeepsData
  <2> QED  BY <1>7, <2>1, <2>2, <2>3, <2>4, <2>5 DEF ByFd
<1>8. ASSUME Destroy PROVE DataInv'
  <2>1. PICK S : Free(S)
    BY <1>8 DEF Destroy
  <2>2. UNCHANGED <<offset, can_read, can_write>>
    BY <1>8 DEF Destroy
  <2> QED  BY <2>1, <2>2, FreeKeepsData DEF DataInv, DataTypes
<1>9. ASSUME BadNumber \/ WildNumber \/ DestroyTwice PROVE DataInv'
  BY <1>4, <1>5, <1>9 DEF BadNumber, WildNumber, DestroyTwice
<1> QED  BY <1>6, <1>7, <1>8, <1>9 DEF Next

\* The blocks of the files are in order and in their limits, always.
THEOREM DataInvAlways == Spec => []DataInv
<1> QED  BY InvAlways, InitData, StepData, PTL DEF Spec

\* Blocks are filled in order, behind one with room there are only empty ones:
\* what ufs_write and ufs_read do with an offset relies on it (171-275).
THEOREM BlocksPackedAlways == Spec => []BlocksPacked
<1>1. DataInv => BlocksPacked
  BY DEF DataInv, FileOK, Packed, BlocksPacked, Live
<1> QED  BY <1>1, DataInvAlways, PTL

\* No mixture of writes over old data, appends and resizes makes a file
\* outgrow MAX_FILE_SIZE (179, 220, 439).
THEOREM SizeBoundedAlways == Spec => []SizeBounded
<1>1. DataInv => SizeBounded
  BY DEF DataInv, FileOK, SizeBounded, Live
<1> QED  BY <1>1, DataInvAlways, PTL

\* A read returns the bytes from the descriptor's position on (226-275).
THEOREM ReadIsFlatAlways == Spec => []ReadIsFlat
<1>1. Inv /\ DataInv => ReadIsFlat
  <2> SUFFICES ASSUME Inv, DataInv, NEW fd \in OpenFds, NEW size \in 0 .. MAX_FILE_SIZE
               PROVE  LET b == Flat(block_list[file_descriptors[fd]])
                      IN Reading(block_list[file_descriptors[fd]], offset[fd], size)
                         = SubSeq(b, offset[fd] + 1, Least(Len(b), offset[fd] + size))
    BY DEF ReadIsFlat
  <2> DEFINE blocks == block_list[file_descriptors[fd]]
             left == bytes_left[file_descriptors[fd]]
             off == offset[fd]
  <2>1. fd \in Fds /\ file_descriptors[fd] \in Files
    BY OpenLives DEF Inv
  <2>2. blocks \in BlockList /\ FileOK(blocks, left) /\ off \in 0 .. MaxOffset /\ size \in Nat
    BY <2>1 DEF DataInv, DataTypes
  <2> HIDE DEF blocks, left, off
  <2>3. Reading(blocks, off, size) = SubSeq(Flat(blocks), off + 1, Least(Size(blocks), off + size))
    BY <2>2, ReadFile
  <2> QED  BY <2>3 DEF Size, blocks, off
<1> QED  BY <1>1, InvAlways, DataInvAlways, PTL

\* ufs_resize does not return when it is to grow a file, or to keep its size,
\* to a size that is not a multiple of BLOCK_SIZE, and only then (392-414).
THEOREM ResizeReturnsUnlessOddAlways == Spec => []ResizeReturnsUnlessOdd
<1>1. DataInv => ResizeReturnsUnlessOdd
  <2> SUFFICES ASSUME DataInv, NEW f \in Live, NEW n \in 0 .. MAX_FILE_SIZE
               PROVE  Resized(block_list[f], n).endless
                         <=> n % BLOCK_SIZE # 0 /\ n >= Size(block_list[f])
    BY DEF ResizeReturnsUnlessOdd
  <2> DEFINE blocks == block_list[f]
  <2>1. blocks \in BlockList /\ Packed(blocks) /\ n \in Nat
    BY DEF DataInv, DataTypes, FileOK, Live
  <2> HIDE DEF blocks
  <2>2. Odd(n, Flat(blocks)) => Resized(blocks, n) = Endless
    BY <2>1, ResizedIs
  <2>3. ~Odd(n, Flat(blocks)) => Resized(blocks, n).endless = FALSE
    BY <2>1, ResizedIs
  <2>4. Endless.endless = TRUE
    BY DEF Endless
  <2>5. Resized(blocks, n).endless <=> Odd(n, Flat(blocks))
    BY <2>2, <2>3, <2>4
  <2> QED  BY <2>5 DEF Odd, Size, blocks
<1> QED  BY <1>1, DataInvAlways, PTL

-----------------------------------------------------------------------------
(* The types                                                               *)

CountInv ==
    /\ file_descriptor_count \in 0 .. file_descriptor_capacity
    /\ ufs_error_code \in ErrorCodes
    /\ status \in Statuses

\* ufs_open counts a descriptor more, in an array that has grown for it (480-511).
LEMMA NewDescriptorCounts ==
    ASSUME FsInv, CountInv, NEW f, NEW flags, NewDescriptor(f, flags)
    PROVE  file_descriptor_count' \in 0 .. file_descriptor_capacity'
<1> DEFINE cap == file_descriptor_capacity
           count == file_descriptor_count
<1>1. cap \in Nat /\ count \in 0 .. cap
  BY DEF FsInv, FsTypes, CountInv
<1>2. /\ file_descriptor_capacity' = IF cap = 0 THEN INITIAL_CAPACITY ELSE IF count = cap THEN 2 * cap ELSE cap
      /\ file_descriptor_count' = count + 1
  BY DEF NewDescriptor, Grown
<1> QED  BY <1>1, <1>2

\* ufs_close counts one less, which there was (297).
LEMMA CloseCounts ==
    ASSUME Inv, CountInv, status = "up", NEW fd \in OpenFds, Close(fd)
    PROVE  file_descriptor_count' \in 0 .. file_descriptor_capacity'
<1>1. file_descriptor_count = Cardinality(OpenFds) /\ file_descriptor_count # 0
  <2>1. file_descriptor_count = Cardinality(OpenFds) /\ IsFiniteSet(OpenFds) /\ OpenFds # {}
    BY OpenFinite DEF Inv, SlotsCounted
  <2> QED  BY <2>1, FS_EmptySet
<1>2. file_descriptor_count' = file_descriptor_count - 1
      /\ file_descriptor_capacity' = file_descriptor_capacity
  BY DEF Close
<1> QED  BY <1>1, <1>2 DEF CountInv, Inv, FsInv, FsTypes

LEMMA StepCount == Inv /\ CountInv /\ [Next]_vars => CountInv'
<1> SUFFICES ASSUME Inv, CountInv, [Next]_vars PROVE CountInv'
  OBVIOUS
<1>0. FsInv
  BY DEF Inv
<1>1. ASSUME UNCHANGED arrayVars, ufs_error_code' \in ErrorCodes, status' \in Statuses PROVE CountInv'
  BY <1>1 DEF CountInv, arrayVars
<1>2. CASE UNCHANGED vars
  BY <1>2 DEF vars, CountInv, arrayVars
<1> SUFFICES ASSUME Next PROVE CountInv'
  BY <1>2
<1>3. status = "up"
  BY DEF Next
<1>4. ASSUME NEW where \in Statuses, Wrong(where) PROVE CountInv'
  BY <1>1, <1>4 DEF Wrong, CountInv
<1>5. ASSUME NEW code \in ErrorCodes, Fail(code) PROVE CountInv'
  BY <1>1, <1>5 DEF Fail, CountInv
<1>6. "NO_FILE" \in ErrorCodes /\ "NO_MEM" \in ErrorCodes /\ "NO_PERMISSION" \in ErrorCodes
  BY DEF ErrorCodes
<1>7. /\ "slot -1" \in Statuses /\ "wild slot" \in Statuses /\ "no block" \in Statuses
      /\ "freed block" \in Statuses /\ "endless" \in Statuses /\ "double free" \in Statuses
      /\ "destroyed" \in Statuses
  BY DEF Statuses
<1>8. ASSUME UNCHANGED <<arrayVars, ufs_error_code, status>> PROVE CountInv'
  BY <1>8 DEF CountInv, arrayVars
<1>9. ASSUME NEW n \in Names, ByName(n) PROVE CountInv'
  <2>1. ASSUME NEW f, NEW flags, NewDescriptor(f, flags), UNCHANGED <<ufs_error_code, status>> PROVE CountInv'
    BY <1>0, <2>1, NewDescriptorCounts DEF CountInv
  <2>2. ASSUME NEW flags \in FlagSets, OpenExisting(n, flags) PROVE CountInv'
    BY <2>1, <2>2 DEF OpenExisting
  <2>3. ASSUME NEW flags \in FlagSets, NEW f \in Files, Create(n, flags, f) PROVE CountInv'
    BY <2>1, <2>3 DEF Create
  <2>4. ASSUME NEW flags \in FlagSets, OpenNoFile(n, flags) \/ OpenNoSlot(n, flags) PROVE CountInv'
    BY <1>4, <1>5, <1>6, <1>7, <2>4 DEF OpenNoFile, OpenNoSlot
  <2>5. ASSUME Delete(n) PROVE CountInv'
    BY <1>8, <2>5 DEF Delete
  <2>6. ASSUME DeleteNoFile(n) PROVE CountInv'
    BY <1>5, <1>6, <2>6 DEF DeleteNoFile
  <2> QED  BY <1>9, <2>2, <2>3, <2>4, <2>5, <2>6 DEF ByName
<1>10. ASSUME NEW fd \in OpenFds, ByFd(fd) PROVE CountInv'
  <2>1. ASSUME NEW data \in Data, Write(fd, data) PROVE CountInv'
    BY <1>8, <2>1 DEF Write
  <2>2. ASSUME NEW size \in 0 .. MAX_FILE_SIZE, Read(fd, size) PROVE CountInv'
    BY <1>8, <2>2 DEF Read
  <2>3. ASSUME NEW size \in 0 .. MAX_FILE_SIZE, Resize(fd, size) PROVE CountInv'
    BY <1>4, <1>7, <1>8, <2>3 DEF Resize
  <2>4. ASSUME WriteNothing(fd) \/ NoPermission(fd) \/ NoMemory(fd) PROVE CountInv'
    BY <1>4, <1>5, <1>6, <1>7, <2>4 DEF WriteNothing, NoPermission, NoMemory
  <2>5. ASSUME Close(fd) PROVE CountInv'
    <3>1. UNCHANGED <<ufs_error_code, status>>
      BY <2>5 DEF Close
    <3> QED  BY <1>3, <2>5, <3>1, CloseCounts DEF CountInv
  <2> QED  BY <1>10, <2>1, <2>2, <2>3, <2>4, <2>5 DEF ByFd
<1>11. ASSUME Destroy PROVE CountInv'
  <2>1. UNCHANGED <<arrayVars, ufs_error_code>> /\ status' = "destroyed"
    BY <1>11 DEF Destroy
  <2> QED  BY <1>1, <1>7, <2>1 DEF CountInv
<1>12. ASSUME BadNumber \/ WildNumber \/ DestroyTwice PROVE CountInv'
  BY <1>4, <1>5, <1>6, <1>7, <1>12 DEF BadNumber, WildNumber, DestroyTwice
<1> QED  BY <1>9, <1>10, <1>11, <1>12 DEF Next

\* A file has no more references than there are slots.
LEMMA RefsBounded == FsInv => refs \in [Files -> 0 .. MaxFds]
<1> SUFFICES ASSUME FsInv, NEW f \in Files PROVE refs[f] \in 0 .. MaxFds
  BY DEF FsInv, FsTypes
<1>1. IsFiniteSet(Fds) /\ Cardinality(Fds) = MaxFds
  BY FS_Interval
<1>2. OpenOn(f) \in SUBSET Fds
  BY DEF OpenOn
<1>3. Cardinality(OpenOn(f)) <= Cardinality(Fds) /\ IsFiniteSet(OpenOn(f))
  BY <1>1, <1>2, FS_Subset
<1>4. Cardinality(OpenOn(f)) \in Nat
  BY <1>3, FS_CardinalityType
<1> QED  BY <1>1, <1>3, <1>4 DEF FsInv, RefInv

\* Every variable keeps its type: no counter of the file system wraps around,
\* bytes_left, a size_t, least of all (179, 220, 439).
THEOREM TypeOKAlways == Spec => []TypeOK
<1>1. Init => CountInv
  BY DEF Init, CountInv, ErrorCodes, Statuses
<1>2. Inv /\ DataInv /\ CountInv => TypeOK
  BY RefsBounded DEF Inv, FsInv, FsTypes, DataInv, DataTypes, CountInv, TypeOK
<1> QED  BY <1>1, <1>2, StepCount, InvAlways, DataInvAlways, PTL DEF Spec

-----------------------------------------------------------------------------
(* The file system implements FlatFS                                       *)

\* What stands for the variables of FlatFS.
Dir     == [n \in Names |-> search_file(n)]
Strings == [f \in Files |-> Flat(block_list[f])]
Table   == [fd \in Fds |-> IF fd \in OpenFds THEN Position(fd) ELSE NULL]

\* What they are in the states of the file system: a name stands for its listed
\* file, a slot for its descriptor, and files are in use while they live.
DirSpec ==
    \A n \in Names : /\ Dir[n] = search_file(n) /\ Dir[n] \in Files \cup {NULL}
                     /\ \A f \in Files : Dir[n] = f <=> name[f] = n /\ in_list[f]
TableSpec ==
    \A fd \in Fds : /\ fd \in OpenFds => Table[fd] = Position(fd) /\ Table[fd] # NULL
                    /\ fd \notin OpenFds => Table[fd] = NULL
UseSpec == \A f \in Files : f \in Flattened!InUse(Dir, Table) <=> name[f] # NULL

LEMMA DirIs == FsInv => DirSpec
<1> SUFFICES ASSUME FsInv, NEW n \in Names
             PROVE  /\ search_file(n) \in Files \cup {NULL}
                    /\ \A f \in Files : search_file(n) = f <=> name[f] = n /\ in_list[f]
  BY DEF DirSpec, Dir
<1>1. CASE search_file(n) = NULL /\ \A i \in DOMAIN file_list : name[file_list[i]] # n
  BY <1>1 DEF FsInv, ListInv
<1>2. CASE search_file(n) \in Files /\ name[search_file(n)] = n /\ in_list[search_file(n)]
  <2> DEFINE g == search_file(n)
  <2>1. g \in Files /\ name[g] = n /\ in_list[g]
    BY <1>2
  <2> HIDE DEF g
  <2>2. ASSUME NEW f \in Files, name[f] = n, in_list[f] PROVE f = g
    BY <2>1, <2>2 DEF FsInv, ListInv
  <2> QED  BY <2>1, <2>2 DEF g
<1> QED  BY <1>1, <1>2, SearchFinds

LEMMA PositionIs ==
    ASSUME FsInv, DataInv, NEW fd \in OpenFds
    PROVE  /\ Position(fd).file = file_descriptors[fd] /\ Position(fd).pos = offset[fd]
           /\ "read" \in Position(fd).rights <=> can_read[fd]
           /\ "write" \in Position(fd).rights <=> can_write[fd]
           /\ Position(fd) \in [file : Files, pos : Nat, rights : SUBSET {"read", "write"}]
<1>1. fd \in Fds /\ file_descriptors[fd] \in Files
  BY OpenLives
<1>2. offset[fd] \in Nat
  BY <1>1 DEF DataInv, DataTypes
<1> QED  BY <1>1, <1>2 DEF Position

LEMMA TableIs == FsInv /\ DataInv => TableSpec
<1> SUFFICES ASSUME FsInv, DataInv, NEW fd \in Fds
             PROVE  /\ fd \in OpenFds => Table[fd] = Position(fd) /\ Table[fd] # NULL
                    /\ fd \notin OpenFds => Table[fd] = NULL
  BY DEF TableSpec
<1>1. fd \in OpenFds => Position(fd) # NULL
  BY PositionIs, NullAssumption
<1> QED  BY <1>1 DEF Table

LEMMA UseIs == FsInv /\ DataInv => UseSpec
<1> SUFFICES ASSUME FsInv, DataInv, NEW f \in Files
             PROVE  f \in Flattened!InUse(Dir, Table) <=> name[f] # NULL
  BY DEF UseSpec
<1>1. DirSpec /\ TableSpec
  BY DirIs, TableIs
<1>2. (\E n \in Names : Dir[n] = f) <=> in_list[f]
  <2>1. in_list[f] => name[f] \in Names
    BY DEF FsInv, FsTypes, RefInv
  <2> QED  BY <1>1, <2>1 DEF DirSpec
<1>3. (\E fd \in Fds : Table[fd] # NULL /\ Table[fd].file = f) <=> OpenOn(f) # {}
  <2>1. ASSUME NEW fd \in OpenOn(f) PROVE Table[fd] # NULL /\ Table[fd].file = f
    <3>1. fd \in Fds /\ fd \in OpenFds /\ file_descriptors[fd] = f
      BY DEF OpenOn, OpenFds
    <3> QED  BY <1>1, <3>1, PositionIs DEF TableSpec
  <2>2. ASSUME NEW fd \in Fds, Table[fd] # NULL, Table[fd].file = f PROVE fd \in OpenOn(f)
    <3>1. fd \in OpenFds
      BY <1>1, <2>2 DEF TableSpec
    <3>2. file_descriptors[fd] = f
      BY <1>1, <2>2, <3>1, PositionIs DEF TableSpec
    <3> QED  BY <3>2 DEF OpenOn
  <2>3. OpenOn(f) \subseteq Fds
    BY DEF OpenOn
  <2> QED  BY <2>1, <2>2, <2>3
<1>4. f \in Flattened!InUse(Dir, Table)
         <=> (\E n \in Names : Dir[n] = f) \/ (\E fd \in Fds : Table[fd] # NULL /\ Table[fd].file = f)
  BY DEF Flattened!InUse
<1>5. name[f] # NULL <=> in_list[f] \/ OpenOn(f) # {}
  BY DEF FsInv, RefInv
<1> QED  BY <1>2, <1>3, <1>4, <1>5

LEMMA SpecsNext == FsInv' /\ DataInv' => DirSpec' /\ TableSpec' /\ UseSpec'
BY DirIs, TableIs, UseIs, PTL

\* What a step leaves alone stays alone in FlatFS, ...
LEMMA SameDir == UNCHANGED <<file_list, name>> => Dir' = Dir
BY DEF Dir, search_file
LEMMA SameStrings == UNCHANGED block_list => Strings' = Strings
BY DEF Strings
LEMMA SameTable == UNCHANGED descVars => Table' = Table
BY DEF Table, descVars, OpenFds, Position

\* ... and so does a step that changes one slot, or one file.
LEMMA OneSlot ==
    ASSUME NEW fd \in Fds, OpenFds' \ {fd} = OpenFds \ {fd},
           \A other \in OpenFds \ {fd} :
               /\ file_descriptors'[other] = file_descriptors[other] /\ offset'[other] = offset[other]
               /\ can_read'[other] = can_read[other] /\ can_write'[other] = can_write[other]
    PROVE  Table' = [Table EXCEPT ![fd] = IF fd \in OpenFds' THEN Position(fd)' ELSE NULL]
<1> DEFINE v == IF fd \in OpenFds' THEN Position(fd)' ELSE NULL
<1>1. Table = [x \in Fds |-> Table[x]] /\ Table' = [x \in Fds |-> Table'[x]]
  BY DEF Table
<1>2. Table'[fd] = v
  BY DEF Table
<1>3. ASSUME NEW x \in Fds, x # fd PROVE Table'[x] = Table[x]
  <2>1. CASE x \in OpenFds
    <3>1. x \in OpenFds' /\ Position(x)' = Position(x)
      BY <1>3, <2>1 DEF Position
    <3> QED  BY <2>1, <3>1 DEF Table
  <2>2. CASE x \notin OpenFds
    <3>1. x \notin OpenFds'
      BY <1>3, <2>2
    <3> QED  BY <2>2, <3>1 DEF Table
  <2> QED  BY <2>1, <2>2
<1> HIDE DEF v
<1>4. Table' = [Table EXCEPT ![fd] = v]
  BY <1>1, <1>2, <1>3
<1> QED  BY <1>4 DEF v

LEMMA OneFile ==
    ASSUME NEW f \in Files, NEW blocks, DataInv, block_list' = [block_list EXCEPT ![f] = blocks]
    PROVE  Strings' = [Strings EXCEPT ![f] = Flat(blocks)]
BY DEF Strings, DataInv, DataTypes

FlatStep == [Flattened!Next]_(Flattened!vars)

LEMMA FlatStutters == UNCHANGED <<Dir, Strings, Table>> => FlatStep
BY DEF FlatStep, Flattened!vars, Dir, Strings, Table

LEMMA FlatActs ==
    /\ \A n \in Names, fd \in Fds, f \in Files : Flattened!Open(n, fd, f) => FlatStep
    /\ \A n \in Names : Flattened!Delete(n) => FlatStep
    /\ \A fd \in Fds : Flattened!Close(fd) \/ Flattened!Use(fd) => FlatStep
    /\ Flattened!Destroy => FlatStep
BY DEF FlatStep, Flattened!Next

\* A new descriptor: at the start of its file, in a slot that was free (142-157).
LEMMA FlatDescriptor ==
    ASSUME FsInv, DataInv, FsInv', DataInv', NEW f \in Files, NEW flags, get_fd # -1, NewDescriptor(f, flags)
    PROVE  /\ get_fd \in Fds /\ Table[get_fd] = NULL
           /\ \E rights \in SUBSET {"read", "write"} :
                 Table' = [Table EXCEPT ![get_fd] = [file |-> f, pos |-> 0, rights |-> rights]]
<1>0. PICK g \in Fds : g = get_fd /\ file_descriptors[g] = NULL
  BY GetFdFree DEF NewDescriptor
<1>2. /\ g \notin OpenFds /\ OpenFds' = OpenFds \cup {g} /\ OpenOn(f)' = OpenOn(f) \cup {g}
      /\ \A h \in Files \ {f} : OpenOn(h)' = OpenOn(h)
  BY <1>0, NewDescriptorAdds
<1>3. /\ offset' = [offset EXCEPT ![g] = 0]
      /\ \E b : can_read' = [can_read EXCEPT ![g] = b]
      /\ \E b : can_write' = [can_write EXCEPT ![g] = b]
  BY <1>0 DEF NewDescriptor
<1>4. ASSUME NEW other \in OpenFds \ {g}
      PROVE  /\ file_descriptors'[other] = file_descriptors[other] /\ offset'[other] = offset[other]
             /\ can_read'[other] = can_read[other] /\ can_write'[other] = can_write[other]
  <2>1. other \in Fds /\ file_descriptors[other] \in Files
    BY OpenLives
  <2>2. PICK h \in Files : h = file_descriptors[other] /\ other \in OpenOn(h)
    BY <2>1 DEF OpenOn
  <2>3. other \in OpenOn(h)'
    BY <1>2, <2>2
  <2>4. file_descriptors'[other] = file_descriptors[other]
    BY <2>2, <2>3 DEF OpenOn
  <2> QED  BY <1>3, <2>1, <2>4 DEF DataInv, DataTypes
<1>5. Table' = [Table EXCEPT ![g] = Position(g)']
  <2>1. OpenFds' \ {g} = OpenFds \ {g} /\ g \in OpenFds'
    BY <1>2
  <2> QED  BY <1>4, <2>1, OneSlot
<1>6. file_descriptors'[g] = f /\ offset'[g] = 0
  <2>1. g \in OpenOn(f)'
    BY <1>2
  <2>2. offset \in [Fds -> 0 .. MaxOffset]
    BY DEF DataInv, DataTypes
  <2> QED  BY <1>3, <2>1, <2>2 DEF OpenOn
<1>7. \E rights \in SUBSET {"read", "write"} : Position(g)' = [file |-> f, pos |-> 0, rights |-> rights]
  BY <1>6 DEF Position
<1>8. Table[g] = NULL
  BY <1>2 DEF Table
<1> QED  BY <1>0, <1>5, <1>7, <1>8

LEMMA FlatOpenExisting ==
    ASSUME FsInv, DataInv, FsInv', DataInv', NEW n \in Names, NEW flags, OpenExisting(n, flags)
    PROVE  FlatStep
<1>1. PICK f \in Files : f = search_file(n)
  BY SearchFinds DEF OpenExisting
<1>2. NewDescriptor(f, flags) /\ get_fd # -1 /\ UNCHANGED <<file_list, name, dataVars>>
  BY <1>1 DEF OpenExisting
<1>3. PICK fd \in Fds : /\ Table[fd] = NULL
                        /\ \E rights \in SUBSET {"read", "write"} :
                              Table' = [Table EXCEPT ![fd] = [file |-> f, pos |-> 0, rights |-> rights]]
  BY <1>2, FlatDescriptor
<1>4. f = Dir[n] /\ Dir' = Dir /\ Strings' = Strings
  BY <1>1, <1>2, SameDir, SameStrings DEF Dir, dataVars
<1>5. Flattened!Open(n, fd, f)
  BY <1>3, <1>4 DEF Flattened!Open, Flattened!Rights, Dir, Strings, Table
<1> QED  BY <1>5, FlatActs

\* A new file is one that nothing led to, and it is empty (126-157).
LEMMA FlatCreate ==
    ASSUME FsInv, DataInv, FsInv', DataInv', NEW n \in Names, NEW flags, NEW f \in Files, Create(n, flags, f)
    PROVE  FlatStep
<1>1. /\ search_file(n) = NULL /\ name[f] = NULL
      /\ NewDescriptor(f, flags) /\ get_fd # -1
      /\ name' = [name EXCEPT ![f] = n]
      /\ in_list' = [in_list EXCEPT ![f] = TRUE]
      /\ block_list' = [block_list EXCEPT ![f] = << >>]
  BY DEF Create
<1>2. DirSpec /\ TableSpec /\ UseSpec /\ DirSpec'
  BY DirIs, TableIs, UseIs, SpecsNext
<1>3. PICK fd \in Fds : /\ Table[fd] = NULL
                        /\ \E rights \in SUBSET {"read", "write"} :
                              Table' = [Table EXCEPT ![fd] = [file |-> f, pos |-> 0, rights |-> rights]]
  BY <1>1, FlatDescriptor
<1>4. Strings' = Strings
  <2>1. block_list' = block_list
    BY <1>1 DEF DataInv, DataTypes
  <2> QED  BY <2>1, SameStrings
<1>5. Dir[n] = NULL /\ f \notin Flattened!InUse(Dir, Table)
  BY <1>1, <1>2 DEF DirSpec, UseSpec
<1>6. Dir' = [Dir EXCEPT ![n] = f]
  <2>1. Dir = [m \in Names |-> Dir[m]] /\ Dir' = [m \in Names |-> Dir'[m]]
    BY DEF Dir
  <2>2. /\ name'[f] = n /\ in_list'[f] /\ \A g \in Files \ {f} : name'[g] = name[g] /\ in_list'[g] = in_list[g]
    BY <1>1 DEF FsInv, FsTypes
  <2>3. Dir'[n] = f
    BY <1>2, <2>2 DEF DirSpec
  <2>4. ASSUME NEW m \in Names, m # n PROVE Dir'[m] = Dir[m]
    <3>1. Dir'[m] # f
      BY <1>2, <2>2, <2>4 DEF DirSpec
    <3>2. \A g \in Files \ {f} : Dir'[m] = g <=> Dir[m] = g
      BY <1>2, <2>2 DEF DirSpec
    <3>3. Dir[m] # f
      BY <1>1, <1>2 DEF DirSpec, FsInv, FsTypes
    <3> QED  BY <1>2, <3>1, <3>2, <3>3 DEF DirSpec
  <2> QED  BY <2>1, <2>3, <2>4
<1>7. Flattened!Open(n, fd, f)
  BY <1>3, <1>4, <1>5, <1>6 DEF Flattened!Open, Flattened!Rights, Dir, Strings, Table
<1> QED  BY <1>7, FlatActs

\* Freeing files that nothing leads to any more (289-293, 326-330).
LEMMA FlatFree ==
    ASSUME FsInv, DataInv, FsInv', DataInv', NEW S, Free(S)
    PROVE  Strings' = [f \in Files |-> IF f \in Flattened!InUse(Dir', Table') THEN Strings[f] ELSE << >>]
<1>1. UseSpec'
  BY SpecsNext
<1>2. ASSUME NEW f \in Files
      PROVE  Strings'[f] = IF f \in Flattened!InUse(Dir', Table') THEN Strings[f] ELSE << >>
  <2>1. f \in Flattened!InUse(Dir', Table') <=> name'[f] # NULL
    BY <1>1 DEF UseSpec
  <2>2. CASE name'[f] = NULL
    <3>1. block_list'[f] = << >>
      BY <2>2 DEF DataInv
    <3>2. Strings'[f] = << >>
      BY <3>1, EmptyFile DEF Strings
    <3> QED  BY <2>1, <2>2, <3>2
  <2>3. CASE name'[f] # NULL
    <3>1. block_list'[f] = block_list[f]
      BY <2>3 DEF Free
    <3> QED  BY <2>1, <2>3, <3>1 DEF Strings
  <2> QED  BY <2>2, <2>3
<1> QED  BY <1>2 DEF Strings

LEMMA FlatClose ==
    ASSUME FsInv, DataInv, FsInv', DataInv', NEW fd \in OpenFds, Close(fd)
    PROVE  FlatStep
<1>1. fd \in Fds /\ file_descriptors[fd] \in Files
  BY OpenLives
<1>2. PICK S : Free(S)
  BY DEF Close
<1>3. /\ file_descriptors' = [file_descriptors EXCEPT ![fd] = NULL]
      /\ offset' = [offset EXCEPT ![fd] = 0]
      /\ can_read' = [can_read EXCEPT ![fd] = FALSE]
      /\ can_write' = [can_write EXCEPT ![fd] = FALSE]
      /\ UNCHANGED <<file_list, in_list>>
  BY DEF Close
<1>4. DirSpec /\ DirSpec' /\ TableSpec
  BY DirIs, TableIs, SpecsNext
<1>5. Dir' = Dir
  <2>1. \A f \in Files : in_list[f] => name'[f] # NULL
    BY <1>3 DEF FsInv, RefInv
  <2>2. \A f \in Files : in_list[f] => name'[f] = name[f]
    BY <1>2, <2>1 DEF Free
  <2>3. \A n \in Names : Dir'[n] = Dir[n]
    BY <1>3, <1>4, <2>2 DEF DirSpec
  <2> QED  BY <2>3 DEF Dir
<1>6. Table' = [Table EXCEPT ![fd] = NULL]
  <2>1. OpenFds' = OpenFds \ {fd}
    BY <1>1, <1>3 DEF OpenFds, FsInv, FsTypes
  <2>2. ASSUME NEW other \in OpenFds \ {fd}
        PROVE  /\ file_descriptors'[other] = file_descriptors[other] /\ offset'[other] = offset[other]
               /\ can_read'[other] = can_read[other] /\ can_write'[other] = can_write[other]
    <3>1. other \in Fds
      BY DEF OpenFds
    <3> QED  BY <1>3, <3>1 DEF FsInv, FsTypes, DataInv, DataTypes
  <2>3. OpenFds' \ {fd} = OpenFds \ {fd} /\ fd \notin OpenFds'
    BY <2>1
  <2> QED  BY <1>1, <2>2, <2>3, OneSlot
<1>7. Table[fd] # NULL
  BY <1>1, <1>4 DEF TableSpec
<1>8. Flattened!Close(fd)
  <2>1. Strings' = [f \in Files |-> IF f \in Flattened!InUse(Dir', Table') THEN Strings[f] ELSE << >>]
    BY <1>2, FlatFree
  <2> QED  BY <1>5, <1>6, <1>7, <2>1 DEF Flattened!Close, Flattened!KeepReachable, Dir, Strings, Table
<1> QED  BY <1>1, <1>8, FlatActs

\* Deleting a name: no descriptor notices, a file without one is freed (300-332).
LEMMA FlatDelete ==
    ASSUME FsInv, DataInv, FsInv', DataInv', NEW n \in Names, Delete(n)
    PROVE  FlatStep
<1>1. PICK f \in Files : f = search_file(n)
  BY SearchFinds DEF Delete
<1>2. /\ in_list' = [in_list EXCEPT ![f] = FALSE]
      /\ \E S \in SUBSET {f} : Free(S)
      /\ UNCHANGED descVars
  BY <1>1 DEF Delete
<1>3. PICK S \in SUBSET {f} : Free(S)
  BY <1>2
<1>4. DirSpec /\ DirSpec'
  BY DirIs, SpecsNext
<1>5. Dir[n] = f /\ name[f] = n /\ in_list[f] /\ f # NULL
  BY <1>1, <1>4 DEF DirSpec
<1>6. /\ ~in_list'[f]
      /\ \A g \in Files \ {f} : name'[g] = name[g] /\ in_list'[g] = in_list[g]
  BY <1>2, <1>3 DEF Free, FsInv, FsTypes
<1>7. Dir' = [Dir EXCEPT ![n] = NULL]
  <2>1. Dir = [m \in Names |-> Dir[m]] /\ Dir' = [m \in Names |-> Dir'[m]]
    BY DEF Dir
  <2>2. Dir'[n] = NULL
    <3>1. \A g \in Files \ {f} : ~(name'[g] = n /\ in_list'[g])
      BY <1>4, <1>5, <1>6 DEF DirSpec
    <3> QED  BY <1>4, <1>6, <3>1 DEF DirSpec
  <2>3. ASSUME NEW m \in Names, m # n PROVE Dir'[m] = Dir[m]
    <3>1. Dir'[m] # f /\ Dir[m] # f
      BY <1>4, <1>5, <1>6, <2>3 DEF DirSpec
    <3>2. \A g \in Files \ {f} : Dir'[m] = g <=> Dir[m] = g
      BY <1>4, <1>6 DEF DirSpec
    <3> QED  BY <1>4, <3>1, <3>2 DEF DirSpec
  <2> QED  BY <2>1, <2>2, <2>3
<1>8. Table' = Table
  BY <1>2, SameTable
<1>9. Strings' = [g \in Files |-> IF g \in Flattened!InUse(Dir', Table') THEN Strings[g] ELSE << >>]
  BY <1>3, FlatFree
<1>10. Flattened!Delete(n)
  BY <1>5, <1>7, <1>8, <1>9 DEF Flattened!Delete, Flattened!KeepReachable, Dir, Strings, Table
<1> QED  BY <1>10, FlatActs

\* A descriptor that moves.
LEMMA FlatMoves ==
    ASSUME FsInv, DataInv, NEW fd \in OpenFds, NEW k, offset' = [offset EXCEPT ![fd] = offset[fd] + k],
           UNCHANGED <<file_descriptors, can_read, can_write>>
    PROVE  Table' = [Table EXCEPT ![fd].pos = @ + k]
<1>1. fd \in Fds
  BY OpenLives
<1>2. OpenFds' = OpenFds
  BY DEF OpenFds
<1>3. ASSUME NEW other \in OpenFds \ {fd}
      PROVE  /\ file_descriptors'[other] = file_descriptors[other] /\ offset'[other] = offset[other]
             /\ can_read'[other] = can_read[other] /\ can_write'[other] = can_write[other]
  BY <1>3 DEF OpenFds, DataInv, DataTypes
<1>4. Table' = [Table EXCEPT ![fd] = Position(fd)']
  BY <1>1, <1>2, <1>3, OneSlot
<1>5. Position(fd)' = [Position(fd) EXCEPT !.pos = @ + k]
  <2>1. offset'[fd] = offset[fd] + k
    BY <1>1 DEF DataInv, DataTypes
  <2>2. Position(fd) = [file |-> Position(fd).file, pos |-> Position(fd).pos, rights |-> Position(fd).rights]
    BY DEF Position
  <2>3. Position(fd)' = [file |-> Position(fd)'.file, pos |-> Position(fd)'.pos, rights |-> Position(fd)'.rights]
    BY DEF Position
  <2>4. Position(fd)'.file = Position(fd).file /\ Position(fd)'.pos = Position(fd).pos + k
    BY <2>1 DEF Position
  <2>5. Position(fd)'.rights = Position(fd).rights
    BY DEF Position
  <2> HIDE DEF Position
  <2> QED  BY <2>2, <2>3, <2>4, <2>5
<1>6. Table[fd] = Position(fd)
  BY <1>1 DEF Table
<1> QED  BY <1>4, <1>5, <1>6

\* ufs_write puts the data at the position, or at the end of a file that was
\* cut, and the file stays in its limit (169-224).
LEMMA FlatWrite ==
    ASSUME FsInv, DataInv, FsInv', DataInv', NEW fd \in OpenFds, NEW data \in Data, Write(fd, data)
    PROVE  FlatStep
<1>1. PICK f \in Files : fd \in Fds /\ f = file_descriptors[fd]
  BY OpenLives
<1> DEFINE old == block_list[f]
           off == offset[fd]
           b   == Strings[f]
           at  == IF off < Len(b) THEN off ELSE Len(b)
           new == SubSeq(b, 1, at) \o data \o SubSeq(b, at + Len(data) + 1, Len(b))
<1>2. /\ can_write[fd]
      /\ block_list' = [block_list EXCEPT ![f] = Written(old, off, data)]
      /\ offset' = [offset EXCEPT ![fd] = off + Len(data)]
      /\ UNCHANGED <<listVars, file_descriptors, can_read, can_write>>
  BY <1>1 DEF Write, DataInv, DataTypes
<1>3. old \in BlockList /\ Packed(old) /\ off \in Nat /\ data \in Str /\ b = Flat(old)
  <2>1. old \in BlockList /\ off \in 0 .. MaxOffset /\ FileOK(old, bytes_left[f])
    BY <1>1 DEF DataInv, DataTypes
  <2> QED  BY <2>1, DataStr DEF FileOK, Strings
<1>4. Flat(Written(old, off, data)) = new
  <2>1. Flat(Written(old, off, data)) = Overwrite(Flat(old), StartIn(off, Flat(old)), data)
    BY <1>3, WrittenIs
  <2> QED  BY <1>3, <2>1 DEF Overwrite, StartIn, Least
<1>5. Strings' = [Strings EXCEPT ![f] = new]
  BY <1>2, <1>4, OneFile
<1>6. Len(Strings'[f]) <= MAX_FILE_SIZE
  <2>1. FileOK(block_list[f], bytes_left[f])' /\ bytes_left'[f] \in 0 .. MAX_FILE_SIZE
    BY DEF DataInv, DataTypes
  <2>2. Strings'[f] = Flat(block_list'[f])
    BY DEF Strings
  <2>3. block_list'[f] \in BlockList
    BY DEF DataInv, DataTypes
  <2>4. Size(block_list'[f]) \in Nat
    BY <2>3, FlatType
  <2> QED  BY <2>1, <2>2, <2>4 DEF FileOK, Size
<1>7. Table' = [Table EXCEPT ![fd].pos = @ + Len(data)]
  BY <1>2, FlatMoves
<1>8. Dir' = Dir
  BY <1>2, SameDir DEF listVars
<1>9. Table[fd] = Position(fd) /\ Table[fd] # NULL
  BY <1>1, TableIs DEF TableSpec
<1>10. "write" \in Table[fd].rights /\ Table[fd].file = f /\ Table[fd].pos = off
  BY <1>1, <1>2, <1>9, PositionIs
<1> HIDE DEF old, off
<1>11. Flattened!Write(fd, data)
  <2> DEFINE c  == Strings[Table[fd].file]
             to == IF Table[fd].pos < Len(c) THEN Table[fd].pos ELSE Len(c)
  <2>1. SubSeq(c, 1, to) \o data \o SubSeq(c, to + Len(data) + 1, Len(c)) = new
    BY <1>10
  <2> HIDE DEF new
  <2>2. /\ Strings' = [Strings EXCEPT ![Table[fd].file] =
                         SubSeq(c, 1, to) \o data \o SubSeq(c, to + Len(data) + 1, Len(c))]
        /\ Len(Strings'[Table[fd].file]) <= MAX_FILE_SIZE
    BY <1>5, <1>6, <1>10, <2>1
  <2> QED  BY <1>7, <1>8, <1>10, <2>2 DEF Flattened!Write, Dir, Strings, Table
<1>12. Flattened!Use(fd)
  BY <1>9, <1>11 DEF Flattened!Use, Flattened!Data, Data, Table
<1> QED  BY <1>1, <1>12, FlatActs

\* ufs_read moves the position over what it returns; behind the end of the file
\* it does nothing (232-279).
LEMMA FlatRead ==
    ASSUME FsInv, DataInv, FsInv', DataInv', NEW fd \in OpenFds, NEW size \in 0 .. MAX_FILE_SIZE, Read(fd, size)
    PROVE  FlatStep
<1>1. PICK f \in Files : fd \in Fds /\ f = file_descriptors[fd]
  BY OpenLives
<1> DEFINE old  == block_list[f]
           off  == offset[fd]
           k    == Len(Reading(old, off, size))
           left == Len(Strings[f]) - off
<1>2. /\ can_read[fd]
      /\ offset' = [offset EXCEPT ![fd] = off + k]
      /\ UNCHANGED <<listVars, dataVars, file_descriptors, can_read, can_write>>
  BY <1>1 DEF Read, DataInv, DataTypes
<1>3. old \in BlockList /\ FileOK(old, bytes_left[f]) /\ off \in 0 .. MaxOffset /\ size \in Nat
  BY <1>1 DEF DataInv, DataTypes
<1>4. Dir' = Dir /\ Strings' = Strings
  BY <1>2, SameDir, SameStrings DEF listVars, dataVars
<1>5. Table' = [Table EXCEPT ![fd].pos = @ + k]
  BY <1>2, FlatMoves
<1>6. Table[fd] = Position(fd) /\ Table[fd] # NULL
  BY <1>1, TableIs DEF TableSpec
<1>7. "read" \in Table[fd].rights /\ Table[fd].file = f /\ Table[fd].pos = off
  BY <1>1, <1>2, <1>6, PositionIs
<1>8. Size(old) = Len(Strings[f])
  BY DEF Strings, Size
<1>9. /\ off < Size(old) => off + k = Least(Size(old), off + size)
      /\ off >= Size(old) => k = 0
  <2> DEFINE room == bytes_left[f]
  <2>1. FileOK(old, room)
    BY <1>3
  <2> HIDE DEF old, off, room
  <2> QED  BY <1>3, <2>1, ReadFile
<1>10. Size(old) \in Nat
  BY <1>3, FlatType
<1>11. CASE off < Size(old)
  <2>1. Reading(old, off, size) \in Seq(Bytes)
    <3>1. Reading(old, off, size) = SubSeq(Flat(old), off + 1, Least(Size(old), off + size))
      BY <1>3, ReadFile
    <3>2. Flat(old) \in Str /\ Size(old) = Len(Flat(old))
      BY <1>3, FlatType DEF Size
    <3>3. off + 1 \in Nat \ {0} /\ Least(Size(old), off + size) \in 0 .. Len(Flat(old))
      BY <1>3, <1>10, <3>2 DEF Least
    <3> QED  BY <3>1, <3>2, <3>3, StrSub DEF Str
  <2>2. k \in Nat
    BY <2>1
  <2> HIDE DEF old, off, k
  <2>3. k = (IF size < left THEN size ELSE left) /\ left > 0
    BY <1>3, <1>8, <1>9, <1>10, <1>11, <2>2 DEF Least
  <2>4. Flattened!Read(fd, size)
    <3> DEFINE l == Len(Strings[Table[fd].file]) - Table[fd].pos
    <3>1. l = left
      BY <1>7 DEF off
    <3> HIDE DEF left
    <3>2. l > 0 /\ Table' = [Table EXCEPT ![fd].pos = @ + IF size < l THEN size ELSE l]
      BY <1>5, <2>3, <3>1
    <3> QED  BY <1>4, <1>7, <3>2 DEF Flattened!Read, Dir, Strings, Table
  <2>5. Flattened!Use(fd)
    BY <1>6, <2>4 DEF Flattened!Use, Table
  <2> QED  BY <1>1, <2>5, FlatActs
<1>12. CASE off >= Size(old)
  <2>1. offset' = offset
    BY <1>1, <1>2, <1>3, <1>9, <1>12 DEF DataInv, DataTypes
  <2>2. Table' = Table
    BY <1>2, <2>1, SameTable DEF descVars
  <2> QED  BY <1>4, <2>2, FlatStutters
<1> QED  BY <1>3, <1>10, <1>11, <1>12

\* ufs_resize cuts a file, and adds no byte to it (381-441).
LEMMA FlatResize ==
    ASSUME FsInv, DataInv, FsInv', DataInv', status = "up",
           NEW fd \in OpenFds, NEW size \in 0 .. MAX_FILE_SIZE, Resize(fd, size)
    PROVE  FlatStep
<1>1. PICK f \in Files : fd \in Fds /\ f = file_descriptors[fd]
  BY OpenLives
<1> DEFINE b == Strings[f]
<1>2. can_write[fd]
  BY DEF Resize
<1>3. CASE status' = "endless" \/ status' = "freed block"
  <2>1. CASE UNCHANGED <<listVars, dataVars, descVars>>
    BY <2>1, SameDir, SameStrings, SameTable, FlatStutters DEF listVars, dataVars
  <2>2. CASE status' = status
    BY <1>3, <2>2 DEF Resize
  <2> QED  BY <1>3, <2>1, <2>2 DEF Resize, Wrong
<1>4. CASE status' # "endless" /\ status' # "freed block"
  <2>1. PICK blocks \in BlockList :
              /\ Flat(blocks) = SubSeq(b, 1, Least(size, Len(b)))
              /\ block_list' = [block_list EXCEPT ![f] = blocks]
              /\ UNCHANGED <<listVars, descVars>>
    BY <1>1, <1>4, ResizeDoes DEF Strings, Size
  <2>2. Strings' = [Strings EXCEPT ![f] = SubSeq(b, 1, Least(size, Len(b)))]
    BY <2>1, OneFile
  <2>3. Dir' = Dir /\ Table' = Table
    BY <2>1, SameDir, SameTable DEF listVars
  <2>4. b \in Str /\ Len(b) \in Nat
    BY FlatType, StrType DEF Strings, DataInv, DataTypes
  <2>5. Table[fd] = Position(fd) /\ Table[fd] # NULL
    BY <1>1, TableIs DEF TableSpec
  <2>6. "write" \in Table[fd].rights /\ Table[fd].file = f
    BY <1>1, <1>2, <2>5, PositionIs
  <2>7. CASE size < Len(b)
    <3>1. Strings' = [Strings EXCEPT ![Table[fd].file] = SubSeq(@, 1, size)] /\ size < Len(Strings[Table[fd].file])
      <4>1. Least(size, Len(b)) = size
        BY <2>7 DEF Least
      <4> QED  BY <2>2, <2>6, <2>7, <4>1 DEF Strings
    <3>2. Flattened!Resize(fd, size)
      BY <2>3, <2>6, <3>1 DEF Flattened!Resize, Dir, Strings, Table
    <3>3. Flattened!Use(fd)
      BY <2>5, <3>2 DEF Flattened!Use, Table
    <3> QED  BY <1>1, <3>3, FlatActs
  <2>8. CASE ~(size < Len(b))
    <3>1. SubSeq(b, 1, Least(size, Len(b))) = b
      BY <2>4, <2>8, SubFull DEF Least
    <3>2. Strings' = Strings
      BY <2>2, <3>1 DEF Strings
    <3> QED  BY <2>3, <3>2, FlatStutters
  <2> QED  BY <2>7, <2>8
<1> QED  BY <1>3, <1>4

\* ufs_destroy, where it works, leaves nothing (334-364).
LEMMA FlatDestroy ==
    ASSUME FsInv, DataInv, FsInv', DataInv', Destroy
    PROVE  FlatStep
<1>1. /\ file_list = << >> /\ file_descriptors' = [fd \in Fds |-> NULL] /\ UNCHANGED in_list
  BY DEF Destroy, DestroyedWell
<1>2. \A f \in Files : ~in_list'[f]
  BY <1>1 DEF FsInv, ListInv
<1>3. OpenFds' = {} /\ \A f \in Files : OpenOn(f)' = {}
  BY <1>1, UserFSAssumption DEF OpenFds, OpenOn
<1>4. \A f \in Files : name'[f] = NULL
  BY <1>2, <1>3 DEF FsInv, RefInv
<1>5. Dir' = [n \in Names |-> NULL]
  <2>1. \A n \in Names : Dir'[n] = NULL
    BY <1>2, SpecsNext DEF DirSpec
  <2> QED  BY <2>1 DEF Dir
<1>6. Table' = [fd \in Fds |-> NULL]
  BY <1>3 DEF Table
<1>7. Strings' = [f \in Files |-> << >>]
  <2>1. \A f \in Files : block_list'[f] = << >>
    BY <1>4 DEF DataInv
  <2> QED  BY <2>1, EmptyFile DEF Strings
<1>8. Flattened!Destroy
  BY <1>5, <1>6, <1>7 DEF Flattened!Destroy, Dir, Strings, Table
<1> QED  BY <1>8, FlatActs

LEMMA InitFlat == Init => Flattened!Init
<1> SUFFICES ASSUME Init PROVE Flattened!Init
  OBVIOUS
<1>1. FsInv /\ DataInv
  BY InitInv, InitData DEF Inv
<1>2. file_list = << >> /\ file_descriptors = [fd \in Fds |-> NULL] /\ block_list = [f \in Files |-> << >>]
  BY DEF Init
<1>3. Dir = [n \in Names |-> NULL]
  <2>1. \A n \in Names : search_file(n) = NULL
    BY <1>2 DEF search_file
  <2> QED  BY <2>1 DEF Dir
<1>4. Table = [fd \in Fds |-> NULL]
  BY <1>2, UserFSAssumption DEF Table, OpenFds
<1>5. Strings = [f \in Files |-> << >>]
  BY <1>2, EmptyFile DEF Strings
<1> QED  BY <1>3, <1>4, <1>5 DEF Flattened!Init, Dir, Strings, Table

LEMMA StepFlat == Inv /\ DataInv /\ Inv' /\ DataInv' /\ [Next]_vars => FlatStep
<1> SUFFICES ASSUME Inv, DataInv, Inv', DataInv', [Next]_vars PROVE FlatStep
  OBVIOUS
<1>0. FsInv /\ FsInv'
  BY DEF Inv
<1>1. ASSUME UNCHANGED <<listVars, dataVars, descVars>> PROVE FlatStep
  BY <1>1, SameDir, SameStrings, SameTable, FlatStutters DEF listVars, dataVars
<1>2. CASE UNCHANGED vars
  BY <1>1, <1>2 DEF vars
<1> SUFFICES ASSUME Next PROVE FlatStep
  BY <1>2
<1>3. ASSUME NEW where, Wrong(where) PROVE FlatStep
  BY <1>1, <1>3 DEF Wrong
<1>4. ASSUME NEW code, Fail(code) PROVE FlatStep
  BY <1>1, <1>4 DEF Fail
<1>5. ASSUME NEW n \in Names, ByName(n) PROVE FlatStep
  <2>1. ASSUME NEW flags \in FlagSets, OpenExisting(n, flags) PROVE FlatStep
    BY <1>0, <2>1, FlatOpenExisting
  <2>2. ASSUME NEW flags \in FlagSets, OpenNoFile(n, flags) \/ OpenNoSlot(n, flags) PROVE FlatStep
    BY <1>3, <1>4, <2>2 DEF OpenNoFile, OpenNoSlot
  <2>3. ASSUME NEW flags \in FlagSets, NEW f \in Files, Create(n, flags, f) PROVE FlatStep
    BY <1>0, <2>3, FlatCreate
  <2>4. ASSUME Delete(n) PROVE FlatStep
    BY <1>0, <2>4, FlatDelete
  <2>5. ASSUME DeleteNoFile(n) PROVE FlatStep
    BY <1>4, <2>5 DEF DeleteNoFile
  <2> QED  BY <1>5, <2>1, <2>2, <2>3, <2>4, <2>5 DEF ByName
<1>6. ASSUME NEW fd \in OpenFds, ByFd(fd) PROVE FlatStep
  <2>1. ASSUME NEW data \in Data, Write(fd, data) PROVE FlatStep
    BY <1>0, <2>1, FlatWrite
  <2>2. ASSUME NEW size \in 0 .. MAX_FILE_SIZE, Read(fd, size) PROVE FlatStep
    BY <1>0, <2>2, FlatRead
  <2>3. ASSUME NEW size \in 0 .. MAX_FILE_SIZE, Resize(fd, size) PROVE FlatStep
    <3>1. status = "up"
      BY DEF Next
    <3> QED  BY <1>0, <2>3, <3>1, FlatResize
  <2>4. ASSUME WriteNothing(fd) \/ NoPermission(fd) \/ NoMemory(fd) PROVE FlatStep
    BY <1>3, <1>4, <2>4 DEF WriteNothing, NoPermission, NoMemory
  <2>5. ASSUME Close(fd) PROVE FlatStep
    BY <1>0, <2>5, FlatClose
  <2> QED  BY <1>6, <2>1, <2>2, <2>3, <2>4, <2>5 DEF ByFd
<1>7. ASSUME Destroy PROVE FlatStep
  BY <1>0, <1>7, FlatDestroy
<1>8. ASSUME BadNumber \/ WildNumber \/ DestroyTwice PROVE FlatStep
  BY <1>3, <1>4, <1>8 DEF BadNumber, WildNumber, DestroyTwice
<1> QED  BY <1>5, <1>6, <1>7, <1>8 DEF Next

\* The file system implements FlatFS: what is written is what is read, a file
\* keeps its bytes until neither a name nor a descriptor leads to it, and no
\* call touches another file, name or position (the whole of userfs.c).
THEOREM IsFlatFSHolds == Spec => IsFlatFS
<1>1. Init => Flattened!Init
  BY InitFlat
<1>2. Inv /\ DataInv /\ Inv' /\ DataInv' /\ [Next]_vars => [Flattened!Next]_(Flattened!vars)
  BY StepFlat DEF FlatStep
<1> QED  BY <1>1, <1>2, InvAlways, DataInvAlways, PTL DEF Spec, IsFlatFS, Flattened!Spec
=============================================================================
