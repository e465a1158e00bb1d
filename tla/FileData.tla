------------------------------ MODULE FileData ------------------------------
(***************************************************************************)
(* The data of files: fs_read() and fs_write() of fs/fs.c, which move it   *)
(* block by block, and minix3_bmap() of fs/minix3.c, which finds the block *)
(* of an offset.                                                           *)
(*                                                                         *)
(* The calls stand on the store of blocks of BlockStore: a step takes a    *)
(* block out, copies from or to it, and puts it back, which stores it.  A  *)
(* byte of a block is a small number, and a block number takes one byte.   *)
(* One call runs at a time.  Of the pool of buffers only what the calls    *)
(* notice is here: they hold one buffer at a time, but every read of a     *)
(* hole drops one, and after TooMany of them there may be none to be had.  *)
(* That fs_write() locks the inode is in Fs.                               *)
(***************************************************************************)
EXTENDS Bmap, Integers, SequencesExt

CONSTANTS
    NumBlocks,      \* the blocks of the disk are 0..NumBlocks-1
    FirstContents,  \* their contents at the start
    Bad,            \* those whose reading may fail
    Files,          \* the inodes of the files, [i_size, i_zone]
    Fds,            \* the open descriptors
    Opened,         \* the files that they may refer to
    Counts,         \* the numbers of bytes that calls ask for
    Data,           \* the bytes that are written; a call takes the first
    Garbage,        \* what a buffer may hold into which nothing was read
    TooMany,        \* with so many buffers dropped the pool may fail
    MaxByte,        \* bound: the bytes are 0..MaxByte
    MaxOffset       \* bound: no fs_write() that would go beyond it

Blocks == 0..(NumBlocks - 1)
BOOT       == 0     \* the number of a hole, and of the boot block
SUPERBLOCK == 1     \* SUPERBLOCK_BLK_NUM

Byte     == 0..MaxByte
Contents == [0..(BLOCK_SIZE - 1) -> Byte]

ASSUME FileDataAssumption ==
    /\ {NumBlocks, MaxByte, TooMany} \subseteq Nat
    /\ FirstContents \in [Blocks -> Contents]
    /\ Bad \subseteq Blocks
    /\ Opened \subseteq [Fds -> DOMAIN Files]
    /\ Garbage \subseteq Contents
    /\ \A n \in Counts : n \in 0..Len(Data)
    /\ Data \in Seq(Byte)
    /\ \A f \in DOMAIN Files : Files[f].i_size \in 0..MaxOffset

-----------------------------------------------------------------------------
(* The file as mkfs made it, with no arithmetic on levels: the blocks of   *)
(* its zones one after the other.  A leaf is the number of a block and the *)
(* tables that lead to it, 0 for one that does not exist.                  *)
Leaves(z) ==
    [i \in 1..BLKADDRS_PER_BLOCK |->
        [blk |-> IF z = 0 THEN 0 ELSE FirstContents[z][i - 1], via |-> {z}]]

Flat(inode) ==
    LET direct == [i \in 1..NUM_DIR_BLKS |-> [blk |-> inode.i_zone[i - 1], via |-> {}]]
        double == inode.i_zone[NUM_DIR_BLKS + 1]
        branch(t) == [i \in 1..BLKADDRS_PER_BLOCK |->
                        LET leaf == Leaves(t.blk)[i]
                        IN  [leaf EXCEPT !.via = @ \cup t.via]]
    IN  direct \o Leaves(inode.i_zone[NUM_DIR_BLKS])
               \o FlattenSeq([i \in 1..BLKADDRS_PER_BLOCK |-> branch(Leaves(double)[i])])

Positions == 0..(MaxOffset - 1)
Place == [f \in DOMAIN Files |->
            LET flat == Flat(Files[f]) IN [p \in Positions |-> flat[p \div BLOCK_SIZE + 1]]]

(* What mkfs makes: tables and data are blocks of the disk other than the  *)
(* superblock, and no block of data is a table of any file or a block of   *)
(* data elsewhere.  The offsets end before the level that the code does    *)
(* not implement.                                                          *)
ASSUME DiskAssumption ==
    /\ BLKADDRS_PER_BLOCK <= BLOCK_SIZE
    /\ MaxOffset \in Nat
    /\ MaxOffset <= (NUM_DIR_BLKS + BLKADDRS_PER_BLOCK
                        + BLKADDRS_PER_BLOCK * BLKADDRS_PER_BLOCK) * BLOCK_SIZE
    /\ \A f \in DOMAIN Files :
        /\ \A z \in 0..(NUM_DIR_BLKS + 1) : Files[f].i_zone[z] \in Blocks
        /\ \A p \in Positions :
            LET leaf == Place[f][p]
            IN  /\ {leaf.blk} \cup leaf.via \subseteq Blocks \ {SUPERBLOCK}
                /\ leaf.blk # 0 => \A g \in DOMAIN Files, q \in Positions :
                    /\ leaf.blk \notin Place[g][q].via
                    /\ leaf.blk = Place[g][q].blk =>
                            f = g /\ p \div BLOCK_SIZE = q \div BLOCK_SIZE

VARIABLES
    store,      \* the contents of the blocks, as BlockStore has them
    fte,        \* the file table entry of every descriptor, [inode, offset]
    call,       \* the call in progress, or the result of the last one
    dropped,    \* the buffers that reads of holes have dropped, to TooMany
    damaged     \* a write went to a block whose number was not read well,
                \* or to memory that is no buffer

vars == <<store, fte, call, dropped, damaged>>

(* left: bleft; buf: what fs_read() has copied to the caller.              *)
Idle(ret) == [op |-> "none", ret |-> ret]

Inode  == Files[fte[call.fd].inode]
Offset == fte[call.fd].offset

-----------------------------------------------------------------------------
(* blkpool_getblk(), by the contract of BlockStore: what it may return for *)
(* block n.  Of the boot block, of a block beyond the end of the disk and  *)
(* of a bad one the copy may be other than the contents, and is not good;  *)
(* the superblock is never put back, so whoever asks for it waits forever. *)
(* So may whoever asks when the pool is exhausted, for which blocks are    *)
(* still found in a buffer is not kept here; or the head of the list is    *)
(* its dummy node, which is then taken for a buffer ("wild").              *)
Exhausted == dropped = TooMany

Unreliable(n) == n \in Bad \cup {BOOT} \/ n \notin Blocks

blkpool_getblk(n) ==
    IF n = SUPERBLOCK THEN {[res |-> "spin"]}
    ELSE (IF n \in Blocks
          THEN {[res |-> "ok", good |-> TRUE, data |-> store[n]]} ELSE {})
         \cup (IF Unreliable(n)
               THEN {[res |-> "ok", good |-> FALSE, data |-> g] : g \in Garbage} ELSE {})
         \cup (IF n \in Bad \/ n \notin Blocks THEN {[res |-> "fail"]} ELSE {})
         \cup (IF Exhausted THEN {[res |-> "spin"], [res |-> "wild"]} ELSE {})

(* From one table to the next.  sure: all of them were tables of the file  *)
(* and read well.  A table that does not exist is read from the boot block.*)
Address(n, sure) == [res |-> "ok", blk |-> n, sure |-> sure]

Follow(a, idx) ==
    IF a.res # "ok" THEN {a}
    ELSE {IF c.res = "ok"
          THEN Address(c.data[idx], a.sure /\ c.good /\ a.blk # BOOT)
          ELSE c : c \in blkpool_getblk(a.blk)}

(* Faulty variant of minix3_bmap: the last table is not read.              *)
minix3_bmap_early(l_num) ==
    LET level == _lblk2indlevel(l_num)
        at[l \in 0..level] ==
            IF l = level THEN {Address(Inode.i_zone[_lblk2idx(l_num)], TRUE)}
            ELSE UNION {Follow(a, blkaddr_idx(l_num, l + 1)) : a \in at[l + 1]}
    IN  at[IF level = 0 THEN 0 ELSE 1]

(* The outcomes for logical block l_num of the inode.                      *)
minix3_bmap(l_num) ==
    LET level == _lblk2indlevel(l_num)
        \* with so many levels left
        at[l \in 0..level] ==
            IF l = level THEN {Address(Inode.i_zone[_lblk2idx(l_num)], TRUE)}
            ELSE UNION {Follow(a, blkaddr_idx(l_num, l + 1)) : a \in at[l + 1]}
    IN  at[0]

lblk == Offset \div BLOCK_SIZE
loff == Offset % BLOCK_SIZE

-----------------------------------------------------------------------------
Begin(op, k, n) ==
    /\ call.op = "none"
    /\ call' = [op |-> op, fd |-> k, count |-> n, left |-> n, buf |-> << >>]
    /\ UNCHANGED <<store, fte, dropped, damaged>>

fs_read(k, n)  == Begin("read", k, n)
fs_write(k, n) == fte[k].offset + n <= MaxOffset /\ Begin("write", k, n)

Fail  == call' = Idle(-1) /\ UNCHANGED <<store, fte, dropped, damaged>>
Spin  == call' = [op |-> "spin"] /\ UNCHANGED <<store, fte, dropped, damaged>>
Break == call' = [op |-> "spin"] /\ damaged' = TRUE /\ UNCHANGED <<store, fte, dropped>>

Failed(outcome) ==
    \/ outcome.res = "fail" /\ Fail
    \/ outcome.res = "spin" /\ Spin
    \/ outcome.res = "wild" /\ Break

(* blkpool_get_any(), which only a hole asks for: the head of the free     *)
(* list is taken off and dropped, no buffer is returned, and the call fails*)
Drop ==
    /\ call' = Idle(-1)
    /\ dropped' = IF Exhausted THEN dropped ELSE dropped + 1
    /\ UNCHANGED <<store, fte, damaged>>

blkpool_get_any == Drop \/ (Exhausted /\ (Spin \/ Break))

(* Faulty variant of Transferred: a whole block is counted.                *)
Transferred_block(subcount, data) ==
    /\ call' = [call EXCEPT !.left = @ - BLOCK_SIZE, !.buf = @ \o data]
    /\ fte' = [fte EXCEPT ![call.fd].offset = @ + subcount]

(* A transfer of one block: the offset moves with every one of them.       *)
Transferred(subcount, data) ==
    /\ call' = [call EXCEPT !.left = @ - subcount, !.buf = @ \o data]
    /\ fte' = [fte EXCEPT ![call.fd].offset = @ + subcount]

Smaller(a, b) == IF a > b THEN b ELSE a

(* Faulty variant of EndOfFile: the position after the last byte is read.  *)
EndOfFile_late == Offset > Inode.i_size

EndOfFile == Offset >= Inode.i_size

(* The bytes left in the block that may be read.                           *)
readable ==
    IF Inode.i_size \div BLOCK_SIZE = lblk
    THEN (Inode.i_size % BLOCK_SIZE) - loff
    ELSE BLOCK_SIZE - loff

ReadBlock ==
    /\ call.op = "read"
    /\ call.left > 0 /\ ~EndOfFile
    /\ LET subcount == Smaller(call.left, readable)
       IN  \E a \in minix3_bmap(lblk) :
            \/ Failed(a)
            \/ a.res = "ok" /\ a.blk = BOOT /\ blkpool_get_any
            \/ /\ a.res = "ok" /\ a.blk # BOOT
               /\ \E c \in blkpool_getblk(a.blk) :
                    \/ Failed(c)
                    \/ /\ c.res = "ok"
                       /\ Transferred(subcount,
                                      [i \in 1..subcount |-> c.data[loff + i - 1]])
                       /\ UNCHANGED <<store, dropped, damaged>>

(* The block with the next subcount bytes of the caller copied into it.    *)
Patched(data, subcount) ==
    [b \in DOMAIN data |->
        IF b \in loff..(loff + subcount - 1)
        THEN Data[call.count - call.left + b - loff + 1] ELSE data[b]]

(* The end of the file is not looked at, nor is i_size ever changed.  A    *)
(* copy that is not good is not stored by blkpool_putblk(), but the caller *)
(* does not hear of it.                                                    *)
WriteBlock ==
    /\ call.op = "write"
    /\ call.left > 0
    /\ LET subcount == Smaller(call.left, BLOCK_SIZE - loff)
       IN  \E a \in minix3_bmap(lblk) :
            \/ Failed(a)
            \/ /\ a.res = "ok"
               /\ \E c \in blkpool_getblk(a.blk) :
                    \/ Failed(c)
                    \/ /\ c.res = "ok"
                       /\ store' = IF c.good
                                   THEN [store EXCEPT ![a.blk] = Patched(c.data, subcount)]
                                   ELSE store
                       /\ Transferred(subcount, << >>)
                       /\ damaged' = (damaged \/ ~a.sure)
                       /\ UNCHANGED dropped

Return ==
    /\ call.op \in {"read", "write"}
    /\ call.left = 0 \/ (call.op = "read" /\ EndOfFile)
    /\ call' = Idle(call.count - call.left)
    /\ UNCHANGED <<store, fte, dropped, damaged>>

-----------------------------------------------------------------------------
Init ==
    /\ store = FirstContents
    /\ \E o \in Opened : fte = [k \in Fds |-> [inode |-> o[k], offset |-> 0]]
    /\ call = Idle(0)
    /\ dropped = 0
    /\ damaged = FALSE

Step == ReadBlock \/ WriteBlock \/ Return

Next ==
    \/ \E k \in Fds, n \in Counts : fs_read(k, n) \/ fs_write(k, n)
    \/ Step

(* while (1); and what happens after a write to an unknown block, or into  *)
(* unknown memory, is not looked at.                                       *)
Halt == (call.op = "spin" \/ damaged) /\ UNCHANGED vars

Spec == Init /\ [][(~damaged /\ Next) \/ Halt]_vars

(* The processor runs a call that is in progress.                          *)
FairSpec == Spec /\ WF_vars(~damaged /\ Step)
-----------------------------------------------------------------------------
(* Properties                                                              *)

TypeOK ==
    /\ store \in [Blocks -> Contents]
    /\ fte \in [Fds -> [inode : DOMAIN Files, offset : 0..MaxOffset]]
    /\ dropped \in 0..TooMany
    /\ damaged \in BOOLEAN
    /\ \/ call.op = "none" /\ call.ret \in -1..MaxOffset
       \/ call.op = "spin"
       \/ /\ call.op \in {"read", "write"}
          /\ call.left \in 0..call.count
          /\ call.op = "read" => Len(call.buf) = call.count - call.left

With(f, Test(_)) == {p \in Positions : Test(Place[f][p])}

BadWay  == [f \in DOMAIN Files |->
               With(f, LAMBDA leaf : leaf.via \cap (Bad \cup {BOOT}) # {})]
Hole    == [f \in DOMAIN Files |-> With(f, LAMBDA leaf : leaf.blk = 0)]
BadData == [f \in DOMAIN Files |-> With(f, LAMBDA leaf : leaf.blk \in Bad)]

(* The files as ByteFile has them.                                         *)
Size == [f \in DOMAIN Files |-> Files[f].i_size]

content == [f \in DOMAIN Files |-> [p \in Positions |->
                LET n == Place[f][p].blk IN IF n = 0 THEN 0 ELSE store[n][p % BLOCK_SIZE]]]

file   == [k \in Fds |-> fte[k].inode]
offset == [k \in Fds |-> fte[k].offset]

Moved == IF call.op \in {"read", "write"}
         THEN [op |-> call.op, fd |-> call.fd, count |-> call.count,
               done |-> call.count - call.left, got |-> call.buf]
         ELSE call

(* Reads and writes move exactly the bytes of the file, at the offset, up  *)
(* to its end when they read; the two descriptors of a file see one array, *)
(* and files do not touch each other: whatever levels of tables, partial   *)
(* blocks and failed reads a call goes through (fs.c:132-273).  What holes *)
(* and bad blocks take from that is in ByteFile.                           *)
Bytes == INSTANCE ByteFile WITH Files <- DOMAIN Files, call <- Moved

ImplementsByteFile == Bytes!Spec

(* A write changes blocks of the file's own data, or the boot block, but   *)
(* no table of any file and nothing else of the file system.               *)
OnlyOwnData ==
    [][\A n \in Blocks :
         store'[n] # store[n] /\ ~damaged' =>
            n \in {Place[fte[call.fd].inode][p].blk : p \in Positions} \cup {BOOT}]_vars

(* fs.c:180, "boot block will be never requested throughout this           *)
(* interface".                                                             *)
BootBlockKept == [][store'[BOOT] = store[BOOT]]_vars

(* Every call returns (fs.c:143-210, :228-273), but one that waits in      *)
(* while (1): led by a table that could not be read well to the superblock *)
(* that nobody gives back (blkpool.c:93), or asking for a buffer after     *)
(* reads of holes have cost the pool so many (blkpool.c:69, :155).  Of     *)
(* what follows a write to anywhere nothing is said.                       *)
Stuck ==
    /\ call.op = "spin"
    /\ Exhausted \/ \E k \in Fds : fte[k].offset \in BadWay[fte[k].inode]

CallsReturn == call.op \in {"read", "write"} ~> call.op = "none" \/ Stuck \/ damaged
=============================================================================
