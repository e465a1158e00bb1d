-------------------------------- MODULE Bmap --------------------------------
(***************************************************************************)
(* The arithmetic of minix3_bmap(), fs/minix3.c: which zone of an inode a  *)
(* logical block is reached from, through how many tables of block         *)
(* numbers, and at which index of each.                                    *)
(***************************************************************************)
EXTENDS Naturals, Sequences

CONSTANTS
    BLOCK_SIZE,         \* bytes of a block
    BLKADDRS_PER_BLOCK, \* block numbers of a block
    NUM_DIR_BLKS        \* MINIX3_NUM_DIR_BLKS

(* minix3_bmap() masks with BLKADDRS_PER_BLOCK - 1, which is a remainder   *)
(* because it is a power of two.                                           *)
ASSUME BmapAssumption ==
    /\ BLOCK_SIZE \in Nat \ {0}
    /\ NUM_DIR_BLKS \in Nat \ {0}
    /\ BLKADDRS_PER_BLOCK \in Nat \ {0} /\ \E k \in 1..16 : BLKADDRS_PER_BLOCK = 2^k

(* Faulty variant of _lblk2indlevel: the first block of level 2 is one     *)
(* late.                                                                   *)
_lblk2indlevel_late(lblk) ==
    CASE lblk < NUM_DIR_BLKS -> 0
      [] lblk - NUM_DIR_BLKS \in 0..BLKADDRS_PER_BLOCK -> 1
      [] OTHER -> 2

(* Level 3 is not implemented: its blocks are taken for blocks of level 2. *)
_lblk2indlevel(lblk) ==
    CASE lblk < NUM_DIR_BLKS -> 0
      [] lblk - NUM_DIR_BLKS \in 0..(BLKADDRS_PER_BLOCK - 1) -> 1
      [] OTHER -> 2

(* The index in i_zone.                                                    *)
_lblk2idx(lblk) ==
    (IF lblk > NUM_DIR_BLKS - 1 THEN NUM_DIR_BLKS - 1 ELSE lblk) + _lblk2indlevel(lblk)

_starting_lblk_num(level) ==
    CASE level = 0 -> 0
      [] level = 1 -> NUM_DIR_BLKS
      [] level = 2 -> NUM_DIR_BLKS + BLKADDRS_PER_BLOCK

(* The index in the table that is read when so many levels are left: one   *)
(* entry of the first of two tables is for a whole table of blocks.        *)
blkaddr_idx(lblk, level) ==
    LET rlblk_num == lblk - _starting_lblk_num(_lblk2indlevel(lblk))
    IN  (rlblk_num \div (IF level = 1 THEN 1 ELSE BLKADDRS_PER_BLOCK)) % BLKADDRS_PER_BLOCK
=============================================================================
