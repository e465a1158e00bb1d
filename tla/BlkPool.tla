------------------------------ MODULE BlkPool -------------------------------
(***************************************************************************)
(* The buffer cache, fs/blkpool.c, over the disk of fs/hdd.c.              *)
(*                                                                         *)
(* The pool is an array of buffers, searched by block number.  A buffer is *)
(* either locked, and then some caller holds it, or it is on the free list *)
(* (oldest first), where it keeps its contents until it is picked up for   *)
(* another block.  The program is one thread: a call is one step, and a    *)
(* call that meets while (1) never returns, which spinning records.        *)
(***************************************************************************)
EXTENDS List, FiniteSets

CONSTANTS
    POOL_SIZE,      \* number of buffers
    Blocks,         \* the block numbers that callers ask for
    Data,           \* contents of a block
    Zero,           \* the contents bzero() leaves
    BadBlocks,      \* blocks whose reads and writes may fail
    MaxHeld,        \* bound: how many buffers the callers hold at once
    ANY             \* what a caller of blkpool_get_any waits for

ASSUME PoolAssumption ==
    /\ POOL_SIZE \in Nat \ {0}
    /\ Blocks \subseteq Nat
    /\ Zero \in Data
    /\ BadBlocks \subseteq Blocks
    /\ MaxHeld \in Nat
    /\ NULL \notin Nat
    /\ ANY \notin Nat \cup {NULL}

Bufs  == 1..POOL_SIZE
Dummy == 0                      \* the dummy node of _free_list
Nodes == Bufs \cup {Dummy}

VARIABLES
    disk,       \* the image: contents of every block
    buf,        \* the array _ of bufblk_t, without free_node
    link,       \* the free_node of every buffer and the dummy node
    held,       \* <<b, n>>: a caller got buffer b when it asked for block n
    spinning    \* what a call that never returns waits for, NULL if none

vars == <<disk, buf, link, held, spinning>>

-----------------------------------------------------------------------------
(* fs/hdd.c                                                                *)

(* A read that fails may already have filled some of the buffer.           *)
ReadFails(n) == n \in BadBlocks

(* Faulty variants of AfterWrite: the arguments swapped; nothing written.  *)
AfterWrite_swapped(n, d) == {[disk EXCEPT ![d] = n]}
AfterWrite_skipped(n, d) == {disk}

(* What a write of d leaves on the disk: a failing one stored it or not.   *)
AfterWrite(n, d) ==
    {[disk EXCEPT ![n] = d]} \cup (IF n \in BadBlocks THEN {disk} ELSE {})

-----------------------------------------------------------------------------
(* The pool                                                                *)

(* list_init() and then _init() on every buffer in turn leave the buffers  *)
(* on the free list in the order of the array.                             *)
InitLink ==
    [b \in Nodes |-> [prev |-> IF b = Dummy THEN POOL_SIZE ELSE b - 1,
                      next |-> IF b = POOL_SIZE THEN Dummy ELSE b + 1]]

blkpool_init ==
    /\ buf = [b \in Bufs |->
                [num |-> 0, valid |-> FALSE, locked |-> FALSE, block |-> Zero]]
    /\ link = InitLink

(* The array is searched in order and the first match counts.              *)
IsMatch(b, n) ==
    /\ buf[b].num = n
    /\ \A c \in Bufs : c < b => buf[c].num # n

(* Faulty variant of NoMatch: a search that passes over buffers not valid. *)
NoMatch_valid(n) == \A b \in Bufs : buf[b].valid => buf[b].num # n

NoMatch(n) == \A b \in Bufs : buf[b].num # n

(* Faulty variant of OnFreeList: the test inverted.                        *)
OnFreeList_inverted(b) == buf[b].locked

OnFreeList(b) == ~buf[b].locked         \* _is_bufblk_on_free_list

(* Faulty variant of getblk_hit: the buffer is not locked.                 *)
getblk_hit_unlocked(n) ==
    \E b \in Bufs :
        /\ IsMatch(b, n)
        /\ ~buf[b].locked
        /\ link' = node_remove(link, b)
        /\ held' = held \cup {<<b, n>>}
        /\ UNCHANGED <<disk, buf, spinning>>

(* The block is in the pool and nobody holds it.  The contents are not     *)
(* read again, whether or not they are valid.                              *)
getblk_hit(n) ==
    \E b \in Bufs :
        /\ IsMatch(b, n)
        /\ ~buf[b].locked
        /\ link' = IF OnFreeList(b) THEN node_remove(link, b) ELSE link
        /\ buf' = [buf EXCEPT ![b].locked = TRUE]
        /\ held' = held \cup {<<b, n>>}
        /\ UNCHANGED <<disk, spinning>>

(* The free buffer that _get_free() takes off the list.                    *)
IsFree(b) == b = list_get_head_node(link, Dummy)

(* Faulty variant of getblk_miss: the block is not read.                   *)
getblk_miss_noread(n) ==
    \E b \in Bufs :
        /\ NoMatch(n)
        /\ IsFree(b)
        /\ link' = node_remove(link, b)
        /\ buf' = [buf EXCEPT ![b].num = n, ![b].valid = TRUE, ![b].locked = TRUE]
        /\ held' = held \cup {<<b, n>>}
        /\ UNCHANGED <<disk, spinning>>

(* The block is not in the pool: the oldest free buffer is given to it.    *)
getblk_miss(n) ==
    \E b \in Bufs :
        /\ NoMatch(n)
        /\ IsFree(b)
        /\ link' = node_remove(link, b)
        /\ buf' = [buf EXCEPT ![b] = [num |-> n, valid |-> TRUE,
                                      locked |-> TRUE, block |-> disk[n]]]
        /\ held' = held \cup {<<b, n>>}
        /\ UNCHANGED <<disk, spinning>>

(* Faulty variant of getblk_fails: without blkpool_putblk().               *)
getblk_fails_leaks(n) ==
    \E b \in Bufs :
        /\ NoMatch(n)
        /\ IsFree(b)
        /\ ReadFails(n)
        /\ link' = node_remove(link, b)
        /\ buf' = [buf EXCEPT ![b].num = n, ![b].valid = FALSE, ![b].locked = TRUE]
        /\ UNCHANGED <<disk, held, spinning>>

(* As above, but the read fails: blkpool_putblk() frees the buffer, which  *)
(* keeps the number of the block, and the caller gets NULL.                *)
getblk_fails(n) ==
    \E b \in Bufs, d \in Data :
        /\ NoMatch(n)
        /\ IsFree(b)
        /\ ReadFails(n)
        /\ link' = list_insert(node_remove(link, b), Dummy, b)
        /\ buf' = [buf EXCEPT ![b] = [num |-> n, valid |-> FALSE,
                                      locked |-> FALSE, block |-> d]]
        /\ UNCHANGED <<disk, held, spinning>>

(* The buffer of the block is locked, or a free one is needed and there is *)
(* none: while (1).                                                        *)
getblk_spins(n) ==
    /\ \/ \E b \in Bufs : IsMatch(b, n) /\ buf[b].locked
       \/ NoMatch(n) /\ list_is_empty(link, Dummy)
    /\ spinning' = n
    /\ UNCHANGED <<disk, buf, link, held>>

blkpool_getblk(n) ==
    /\ Cardinality(held) < MaxHeld
    /\ \/ getblk_hit(n)
       \/ getblk_miss(n)
       \/ getblk_fails(n)
       \/ getblk_spins(n)

(* Write through, unlock, and put at the end of the free list.  The result *)
(* of the write is ignored.                                                *)
blkpool_putblk(b, n) ==
    /\ <<b, n>> \in held
    /\ disk' \in IF buf[b].valid THEN AfterWrite(buf[b].num, buf[b].block)
                                 ELSE {disk}
    /\ buf' = [buf EXCEPT ![b].locked = FALSE]
    /\ link' = list_insert(link, Dummy, b)
    /\ held' = held \ {<<b, n>>}
    /\ UNCHANGED spinning

(* The test of _get_free() is inverted: the buffer it took off the list is *)
(* dropped, neither locked nor returned.  The caller gets NULL.            *)
blkpool_get_any ==
    /\ \/ /\ list_is_empty(link, Dummy)
          /\ spinning' = ANY
          /\ UNCHANGED link
       \/ \E b \in Bufs :
            /\ IsFree(b)
            /\ link' = node_remove(link, b)
            /\ UNCHANGED spinning
    /\ UNCHANGED <<disk, buf, held>>

(* A caller stores into the block of a buffer that it holds.               *)
StoreInto(b, n) ==
    /\ <<b, n>> \in held
    /\ \E d \in Data : buf' = [buf EXCEPT ![b].block = d]
    /\ UNCHANGED <<disk, link, held, spinning>>

-----------------------------------------------------------------------------
Init ==
    /\ disk \in [Blocks -> Data]
    /\ blkpool_init
    /\ held = {}
    /\ spinning = NULL

(* The calls the file system makes except those of fs_read() on a hole.    *)
Next ==
    /\ spinning = NULL
    /\ \/ \E n \in Blocks : blkpool_getblk(n)
       \/ \E h \in held : blkpool_putblk(h[1], h[2])
       \/ \E h \in held : StoreInto(h[1], h[2])

(* while (1) *)
Spin == spinning # NULL /\ UNCHANGED vars

(* Runs of SpecAny end where the head of the list is its dummy node, which *)
(* _get_free() would take for a buffer: MCBlkPool says when that may be.   *)
NextAny ==
    \/ Next
    \/ /\ spinning = NULL
       /\ Cardinality(held) < MaxHeld
       /\ blkpool_get_any

Spec    == Init /\ [][Next \/ Spin]_vars
SpecAny == Init /\ [][NextAny \/ Spin]_vars
-----------------------------------------------------------------------------
(* Properties                                                              *)

Buffers == [num : Nat, valid : BOOLEAN, locked : BOOLEAN, block : Data]

TypeOK ==
    /\ disk \in [Blocks -> Data]
    /\ buf \in [Bufs -> Buffers]
    /\ link \in Links(Nodes)
    /\ held \subseteq Bufs \X Blocks
    /\ spinning \in Blocks \cup {NULL, ANY}

FreeSeqs == UNION {[1..k -> Bufs] : k \in 0..POOL_SIZE}

(* blkpool.c:81, "buffer block on the free list <--> not locked": the free *)
(* list is a well-formed list without repetition, of exactly the buffers   *)
(* that are not locked.                                                    *)
IsFreeList(s) ==
    /\ IsList(link, Dummy, s)
    /\ Distinct(s)
    /\ \A b \in Bufs : (\E i \in 1..Len(s) : s[i] = b) <=> ~buf[b].locked

FreeIffUnlocked == \E s \in FreeSeqs : IsFreeList(s)

(* A buffer is in the hands of one caller, for the block that the caller   *)
(* asked for, and it is locked as long as the caller has it: neither       *)
(* replacement nor another call takes it away (blkpool.c:85-138).          *)
HandlesExclusive ==
    /\ \A h \in held : buf[h[1]].locked /\ buf[h[1]].num = h[2]
    /\ \A g, h \in held : g # h => g[1] # h[1] /\ g[2] # h[2]

(* No two buffers stand for one block (blkpool.c:90 takes the first that   *)
(* matches), but for the never used ones that blkpool_init() leaves with   *)
(* number 0, and those are never valid, thus never written to block 0.     *)
OneBufferPerBlock ==
    \A b, c \in Bufs :
        b # c /\ buf[b].num = buf[c].num => buf[b].num = 0 /\ ~buf[b].valid

(* A free buffer that is marked valid has the contents of the disk, so     *)
(* that a later hit need not read (blkpool.c:90-103), unless its block is  *)
(* one whose writes may fail.                                              *)
CacheCoherent ==
    \A b \in Bufs :
        buf[b].valid /\ ~buf[b].locked /\ buf[b].num \notin BadBlocks
            => buf[b].block = disk[buf[b].num]

(* A call waits (blkpool.c:69, 92: "sleep on event ... becomes free") only *)
(* if some caller's blkpool_putblk() could end the wait: the buffer of the *)
(* block is held, or all buffers are.                                      *)
WaitsOnlyForHolders ==
    spinning # NULL =>
        \/ \E h \in held : h[2] = spinning
        \/ \A b \in Bufs : \E h \in held : h[1] = b

(* The invariant that carries the others from step to step: also, a buffer *)
(* is locked only while some caller holds it, a held buffer is the one     *)
(* that a search for its block finds, a valid buffer stands for a block of *)
(* the disk, and one that is not valid for block 0 or for a bad block.     *)
LockedIsHeld == \A b \in Bufs : buf[b].locked => \E h \in held : h[1] = b
HeldIsMatch  == \A h \in held : IsMatch(h[1], h[2])
ValidNumber  == \A b \in Bufs : IF buf[b].valid THEN buf[b].num \in Blocks
                                  ELSE buf[b].num \in BadBlocks \cup {0}

Inv ==
    /\ TypeOK
    /\ FreeIffUnlocked
    /\ HandlesExclusive
    /\ OneBufferPerBlock
    /\ CacheCoherent
    /\ LockedIsHeld
    /\ HeldIsMatch
    /\ ValidNumber
    /\ WaitsOnlyForHolders

(* The buffer cache implements the store of blocks: what is checked out is *)
(* what the callers hold, the stored contents are those of the disk.  Not  *)
(* reliable are the blocks whose transfers may fail and block 0, which the *)
(* buffers of blkpool_init() pretend to have.                              *)
HeldBlocks == {h[2] : h \in held}
CopyOf(n) == LET b == CHOOSE b \in Bufs : <<b, n>> \in held
             IN  [good |-> buf[b].valid, data |-> buf[b].block]

Store == INSTANCE BlockStore WITH
            store <- disk,
            open <- [n \in HeldBlocks |-> CopyOf(n)],
            Unreliable <- Blocks \cap (BadBlocks \cup {0})

ImplementsBlockStore == Store!Spec
=============================================================================
