------------------------------- MODULE Blocks -------------------------------
(***************************************************************************)
(* The blocks of one file of homework03/userfs.c, and what ufs_write,      *)
(* ufs_read and ufs_resize do to them.  A block is the sequence of its     *)
(* occupied bytes, at most BLOCK_SIZE of them (what lies behind them in    *)
(* its memory is never read), and a file's block_list is the sequence of   *)
(* its blocks; last_block is its last element.                             *)
(*                                                                         *)
(* The three loops are recursive functions over the loop's variables: at   *)
(* is the position of the local variable block, one behind the last block  *)
(* when that is NULL.                                                      *)
(***************************************************************************)
EXTENDS Integers, SequencesExt

CONSTANTS Bytes,         \* the values of a byte
          BLOCK_SIZE     \* userfs.c: 512 there

ASSUME BlocksAssumption == BLOCK_SIZE \in Nat \ {0}

Block     == {b \in Seq(Bytes) : Len(b) <= BLOCK_SIZE}
BlockList == Seq(Block)

Least(a, b) == IF a < b THEN a ELSE b

\* The bytes of a file, and how many they are.
Flat(blocks) == FlattenSeq(blocks)
Size(blocks) == Len(Flat(blocks))

-----------------------------------------------------------------------------
(* ufs_write                                                               *)

\* Where in a block the copying starts: at the end of what is occupied when the
\* descriptor is behind it.
BadStart(offset, block) == IF offset > Len(block) THEN 0 ELSE offset
StartIn(offset, block) == Least(offset, Len(block))

\* The memory of block after new has been copied to from; occupied never shrinks.
BadOverwrite(block, from, new) == SubSeq(block, 1, from) \o new
Overwrite(block, from, new) ==
    SubSeq(block, 1, from) \o new \o SubSeq(block, from + Len(new) + 1, Len(block))

WriteState == [blocks : BlockList, at : Nat \ {0}, offset : Nat, data : Seq(Bytes)]

WriteLoop[s \in WriteState] ==
    IF s.data = << >> THEN s.blocks
    ELSE IF s.at > Len(s.blocks)
    THEN WriteLoop[[s EXCEPT !.blocks = Append(@, << >>), !.offset = 0]]
    ELSE LET block == s.blocks[s.at]
             from  == StartIn(s.offset, block)
             n     == Least(Len(s.data), BLOCK_SIZE - from)
         IN IF from = BLOCK_SIZE
            THEN WriteLoop[[s EXCEPT !.at = @ + 1, !.offset = @ - BLOCK_SIZE]]
            ELSE WriteLoop[[blocks |-> [s.blocks EXCEPT ![s.at] =
                                           Overwrite(@, from, SubSeq(s.data, 1, n))],
                            at     |-> s.at + 1,
                            offset |-> 0,
                            data   |-> SubSeq(s.data, n + 1, Len(s.data))]]

Written(blocks, offset, data) ==
    WriteLoop[[blocks |-> blocks, at |-> 1, offset |-> offset, data |-> data]]

-----------------------------------------------------------------------------
(* ufs_read                                                                *)

\* How much to take out of a block; negative when the descriptor is behind the
\* end of the file.
BadTake(block, from, size) == Len(block) - from
Take(block, from, size) == Least(Len(block) - from, size)

ReadState == [blocks : BlockList, at : Nat \ {0}, offset : Nat, size : Int, out : Seq(Bytes)]

ReadLoop[s \in ReadState] ==
    IF s.at > Len(s.blocks) \/ s.size = 0 THEN s.out
    ELSE LET block == s.blocks[s.at]
             from  == Least(s.offset, BLOCK_SIZE)
             n     == Take(block, from, s.size)
         IN IF from = BLOCK_SIZE
            THEN ReadLoop[[s EXCEPT !.at = @ + 1, !.offset = @ - BLOCK_SIZE]]
            ELSE IF n < 0 THEN s.out
            ELSE ReadLoop[[s EXCEPT !.at = @ + 1, !.offset = 0, !.size = @ - n,
                                    !.out = @ \o SubSeq(block, from + 1, from + n)]]

\* What ufs_read puts into buf.
Reading(blocks, offset, size) ==
    ReadLoop[[blocks |-> blocks, at |-> 1, offset |-> offset, size |-> size, out |-> << >>]]

-----------------------------------------------------------------------------
(* ufs_resize                                                              *)

\* The loop that walks over new_size bytes.  A new block takes BLOCK_SIZE off
\* new_size even when less is left: the size_t wraps around to almost 2^64
\* and the loop goes on creating blocks, its endless outcome here.
BadCuts(size, block) == size <= Len(block)
Cuts(size, block) == size < Len(block)

ResizeState == [blocks : BlockList, at : Nat \ {0}, size : Nat]

Endless == [endless |-> TRUE]

ResizeLoop[s \in ResizeState] ==
    IF s.size = 0 THEN [endless |-> FALSE, blocks |-> SubSeq(s.blocks, 1, s.at - 1)]
    ELSE IF s.at > Len(s.blocks)
    THEN IF s.size < BLOCK_SIZE THEN Endless
         ELSE ResizeLoop[[blocks |-> Append(s.blocks, << >>), at |-> s.at + 1,
                          size |-> s.size - BLOCK_SIZE]]
    ELSE IF s.size >= BLOCK_SIZE
    THEN ResizeLoop[[s EXCEPT !.at = @ + 1, !.size = @ - BLOCK_SIZE]]
    ELSE IF Cuts(s.size, s.blocks[s.at])
    THEN ResizeLoop[[blocks |-> [s.blocks EXCEPT ![s.at] = SubSeq(@, 1, s.size)],
                     at |-> s.at + 1, size |-> 0]]
    ELSE ResizeLoop[[s EXCEPT !.at = @ + 1]]

\* With the blocks behind the walk cut off.
Resized(blocks, new_size) == ResizeLoop[[blocks |-> blocks, at |-> 1, size |-> new_size]]
=============================================================================
