------------------------------- MODULE Layout -------------------------------
(***************************************************************************)
(* Where the file system has its inodes and their bits, as calculated by   *)
(* fs/minix3.c, fs/minix3_imap.c and fs/blkbit.h from the superblock:      *)
(*                                                                         *)
(*   boot block, superblock, inode bitmap, zone bitmap, inode table, data  *)
(***************************************************************************)
EXTENDS Naturals

CONSTANTS
    NumInodes,          \* s_ninodes of the superblock
    s_imap_blocks,      \* blocks of the inode bitmap
    s_zmap_blocks,      \* blocks of the zone bitmap
    BLOCK_SIZE,         \* bytes of a block
    BYTE,               \* bits of a byte
    INODES_PER_BLOCK

ASSUME LayoutAssumption ==
    /\ {NumInodes, s_imap_blocks, s_zmap_blocks} \subseteq Nat
    /\ {BLOCK_SIZE, BYTE, INODES_PER_BLOCK} \subseteq Nat \ {0}

MINIX3_IMAP_STARTING_BLK_NUM == 2
MINIX3_ROOT_INODE_NUM == 1

-----------------------------------------------------------------------------
(* The inode table                                                         *)

_itable_blk_num == 2 + s_imap_blocks + s_zmap_blocks

_ino2blk(n) ==
    [blk   |-> (n - MINIX3_ROOT_INODE_NUM) \div INODES_PER_BLOCK + _itable_blk_num,
     lioff |-> (n - MINIX3_ROOT_INODE_NUM) % INODES_PER_BLOCK]

(* What the program that made the file system put there: the inodes one    *)
(* after the other from 1 on, in the blocks after the bitmaps.             *)
InodeAt(place) ==
    IF place.blk >= 2 + s_imap_blocks + s_zmap_blocks
    THEN (place.blk - 2 - s_imap_blocks - s_zmap_blocks) * INODES_PER_BLOCK + place.lioff + 1
    ELSE 0

IsInodeNum(n) == n >= MINIX3_ROOT_INODE_NUM /\ n - MINIX3_ROOT_INODE_NUM < NumInodes

(* Faulty variant of minix3_readi: inodes are numbered from 0.             *)
minix3_readi_zero(n) == InodeAt(_ino2blk(n + 1))

(* The inode that minix3_readi() finds under number n.                     *)
minix3_readi(n) == InodeAt(_ino2blk(n))

-----------------------------------------------------------------------------
(* The inode bitmap: a set of the bits that are 1, [blk, byte, bit].       *)

BITS_PER_BLOCK == BYTE * BLOCK_SIZE

(* The number of blocks is calculated from bytes, not bits: too many, but  *)
(* none if there are fewer inodes than a block has bytes.                  *)
_num_blks == NumInodes \div BLOCK_SIZE

InBitmap(n) == n \div BITS_PER_BLOCK < _num_blks

(* Faulty variant of Bit: the number is not reduced to the block.          *)
Bit_whole(n) ==
    [blk  |-> MINIX3_IMAP_STARTING_BLK_NUM + n \div BITS_PER_BLOCK,
     byte |-> n \div BYTE, bit |-> n % BYTE]

(* _ino2blk() of minix3_imap.c, and the bit of the byte in blkbit.h.       *)
Bit(n) ==
    LET bit_num == n % BITS_PER_BLOCK
    IN  [blk  |-> MINIX3_IMAP_STARTING_BLK_NUM + n \div BITS_PER_BLOCK,
         byte |-> bit_num \div BYTE,
         bit  |-> bit_num % BYTE]

(* The bits of the numbers of S in a bitmap that was made elsewhere.       *)
BitsOf(S) ==
    {[blk |-> 2 + (n \div BYTE) \div BLOCK_SIZE, byte |-> (n \div BYTE) % BLOCK_SIZE,
      bit |-> n % BYTE] : n \in S}

(* What _is_inode_used() may say of n: where there is no bit, or no block  *)
(* can be read, it returns an uninitialized variable.                      *)
MayBeUsed(bits, n, readable) == readable /\ InBitmap(n) => Bit(n) \in bits
MayBeFree(bits, n, readable) == readable /\ InBitmap(n) => Bit(n) \notin bits

(* The numbers that minix3_imap_get_free() may return; 0 for none.  It     *)
(* looks at 0, and not at the last number.                                 *)
minix3_imap_get_free(bits, readable) ==
    LET candidates == 0..(NumInodes - 1)
    IN  {n \in candidates : /\ MayBeFree(bits, n, readable)
                            /\ \A m \in 0..(n - 1) : MayBeUsed(bits, m, readable)}
        \cup {n \in {0} : \A m \in candidates : MayBeUsed(bits, m, readable)}
=============================================================================
