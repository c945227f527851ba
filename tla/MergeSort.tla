------------------------------ MODULE MergeSort ------------------------------
(***************************************************************************)
(* The pure parts of homework01/solution.c: reading numbers, the recursion *)
(* of get_sorted_numbers, and times.  Indices are those of TLA+, from 1.   *)
(***************************************************************************)
EXTENDS Integers, Sequences, FiniteSets

CONSTANTS
    MAX_LENGTH,     \* numbers the first buffer of a read holds: 10000 there
    NSEC            \* nanoseconds of a second

ASSUME MergeSortAssumption == MAX_LENGTH \in Nat \ {0} /\ NSEC \in Nat \ {0}

-----------------------------------------------------------------------------
(* read_numbers_from_file: garbage is what malloc left in the buffers      *)

Fresh(n, garbage) == [i \in 1 .. n |-> garbage]

\* The full buffer is copied into one of twice its length.
Grow(buffer, garbage) == buffer \o Fresh(Len(buffer), garbage)

\* The buffer after each of the numbers of the file.
Buffers(file, garbage) ==
    LET after[i \in 0 .. Len(file)] ==
            IF i = 0 THEN Fresh(MAX_LENGTH, garbage)
            ELSE LET buffer == [after[i - 1] EXCEPT ![i] = file[i]]
                 IN IF i = Len(buffer) THEN Grow(buffer, garbage) ELSE buffer
    IN after

\* The length returned is one more than the numbers read.
ReadNumbers(file, garbage) == SubSeq(Buffers(file, garbage)[Len(file)], 1, Len(file) + 1)

-----------------------------------------------------------------------------
(* get_sorted_numbers                                                      *)

\* The calls of get_sorted_numbers for an array of that length, in the order
\* in which they come to their coro_yield: the part of the array each is about.
PostOrder[len \in Nat \ {0}] ==
    IF len <= 2 THEN << [at |-> 0, len |-> len] >>
    ELSE LET left  == len \div 2
             right == PostOrder[len - left]
         IN PostOrder[left] \o [i \in DOMAIN right |-> [right[i] EXCEPT !.at = @ + left]]
                            \o << [at |-> 0, len |-> len] >>

\* The positions of the loop of merge_sorted_arrays in its two arrays.
Positions(a, b) == (1 .. Len(a) + 1) \X (1 .. Len(b) + 1)

BadMerge(a, b) ==
    LET from[at \in Positions(a, b)] ==
            LET l == at[1]
                r == at[2]
            IN IF l > Len(a) THEN SubSeq(b, r, Len(b))
               ELSE IF r > Len(b) THEN SubSeq(a, l, Len(a))
               ELSE IF a[l] <= b[r] THEN << a[l] >> \o from[<<l + 1, r>>]
               ELSE SubSeq(b, r, Len(b)) \o SubSeq(a, l, Len(a))
    IN from[<<1, 1>>]
\* merge_sorted_arrays: the merge of a from l and b from r on.
Merge(a, b) ==
    LET from[at \in Positions(a, b)] ==
            LET l == at[1]
                r == at[2]
            IN IF l > Len(a) THEN SubSeq(b, r, Len(b))
               ELSE IF r > Len(b) THEN SubSeq(a, l, Len(a))
               ELSE IF a[l] <= b[r] THEN << a[l] >> \o from[<<l + 1, r>>]
               ELSE << b[r] >> \o from[<<l, r + 1>>]
    IN from[<<1, 1>>]

\* An array of one or two numbers.
SortedLeaf(part) ==
    IF Len(part) = 2 /\ part[1] > part[2] THEN << part[2], part[1] >> ELSE part

\* What a call adds to the arrays sorted so far: a leaf sorts its part of the
\* numbers, another call merges, and frees, the two arrays of its own calls.
IsLeaf(call) == call.len <= 2
SortedBy(call, numbers, sorted) ==
    IF IsLeaf(call)
    THEN Append(sorted, SortedLeaf(SubSeq(numbers, call.at + 1, call.at + call.len)))
    ELSE LET n == Len(sorted)
         IN Append(SubSeq(sorted, 1, n - 2), Merge(sorted[n - 1], sorted[n]))

\* What is asked of a sorted array.
Ascending(s) == \A i, j \in DOMAIN s : i <= j => s[i] <= s[j]
Count(s, v)  == Cardinality({i \in DOMAIN s : s[i] = v})

-----------------------------------------------------------------------------
(* struct timespec                                                         *)

TimeSpec  == [sec : Nat, nsec : 0 .. NSEC - 1]
Time(n)   == [sec |-> n \div NSEC, nsec |-> n % NSEC]

get_time_diff(from, to) ==
    IF to.nsec < from.nsec
    THEN [sec |-> to.sec - from.sec - 1, nsec |-> to.nsec - from.nsec + NSEC]
    ELSE [sec |-> to.sec - from.sec,     nsec |-> to.nsec - from.nsec]

\* What update_coro_work_time adds, with its carry.
AddTime(time, diff) ==
    LET nsec == time.nsec + diff.nsec
    IN [sec |-> time.sec + diff.sec + nsec \div NSEC, nsec |-> nsec % NSEC]
=============================================================================
