------------------------------- MODULE IPool --------------------------------
(***************************************************************************)
(* The table of inodes in memory, fs/ipool.c and include/fs/inode.h.       *)
(*                                                                         *)
(* An inode is referenced count times; it is on the free list, oldest      *)
(* first, while nobody references it, and keeps its contents there.  The   *)
(* operators below are the outcomes of ipool_geti() and the effect of      *)
(* ipool_puti(); the callers, in Fs, choose among the outcomes that are    *)
(* enabled.  The write-back in _release_inode() is left out: nothing ever  *)
(* sets dirty.                                                             *)
(***************************************************************************)
EXTENDS List, FiniteSets, Layout

CONSTANTS
    IPOOL_SIZE,     \* number of inodes in the pool (POOL_SIZE of ipool.c)
    InoNums,        \* the numbers of the inodes on the disk
    UINT_MOD,       \* an unsigned counts modulo this
    FaultyReads     \* whether reading an inode may fail

ASSUME IPoolAssumption ==
    /\ IPOOL_SIZE \in Nat \ {0}
    /\ InoNums \subseteq Nat \ {0}
    /\ UINT_MOD \in Nat \ {0, 1}
    /\ FaultyReads \in BOOLEAN
    /\ NULL \notin Nat

Inos  == 1..IPOOL_SIZE
Dummy == 0                      \* the dummy node of the free list
INodes == Inos \cup {Dummy}

VARIABLES
    inode,      \* the array of inode_t; dinode is the number of the inode on
                \* the disk that the copy was made from, 0 for none
    ilink       \* the free_node of every inode and the dummy node

ivars == <<inode, ilink>>

(* As in BlkPool: list_init() and then _init() on every inode in turn.     *)
InitIlink == [i \in INodes |-> [prev |-> IF i = Dummy THEN IPOOL_SIZE ELSE i - 1,
                                next |-> IF i = IPOOL_SIZE THEN Dummy ELSE i + 1]]

Plus(c)  == (c + 1) % UINT_MOD
Minus(c) == (c + UINT_MOD - 1) % UINT_MOD

IsIno(i, n) ==
    /\ inode[i].num = n
    /\ \A j \in Inos : j < i => inode[j].num # n

NoIno(n) == \A i \in Inos : inode[i].num # n

(* _get_free_inode(): the oldest free inode.                               *)
IsFreeIno(i) == i = list_get_head_node(ilink, Dummy)

(* Faulty variant of geti_hit: a free inode stays on the free list.        *)
geti_hit_listed(n, i) ==
    /\ IsIno(i, n)
    /\ ~inode[i].locked
    /\ inode' = [inode EXCEPT ![i].count = Plus(@)]
    /\ UNCHANGED ilink

(* ipool_geti(n) finds the inode in the pool and references it once more.  *)
(* It is not locked for the caller, and valid is not looked at.            *)
geti_hit(n, i) ==
    /\ IsIno(i, n)
    /\ ~inode[i].locked
    /\ ilink' = IF inode[i].count = 0 THEN node_remove(ilink, i) ELSE ilink
    /\ inode' = [inode EXCEPT ![i].count = Plus(@)]

(* ipool_geti(n) reads the inode into a free one, which it returns locked. *)
geti_miss(n, i) ==
    /\ NoIno(n)
    /\ IsFreeIno(i)
    /\ IsInodeNum(n)
    /\ ilink' = node_remove(ilink, i)
    /\ inode' = [inode EXCEPT ![i] = [num |-> n, count |-> Plus(@.count),
                                      locked |-> TRUE, valid |-> TRUE,
                                      dinode |-> minix3_readi(n)]]

(* minix3_readi() fails.  The inode has got the number already, and keeps  *)
(* the contents of the one that it held before; _release_inode() frees it. *)
geti_fails(n) ==
    /\ FaultyReads \/ ~IsInodeNum(n)
    /\ NoIno(n)
    /\ \E i \in Inos :
        /\ IsFreeIno(i)
        /\ LET removed == node_remove(ilink, i)
               count   == Minus(Plus(inode[i].count))
           IN  /\ ilink' = IF count = 0 THEN list_insert(removed, Dummy, i)
                                        ELSE removed
               /\ inode' = [inode EXCEPT ![i] = [@ EXCEPT !.num = n,
                                                          !.count = count,
                                                          !.locked = FALSE,
                                                          !.valid = FALSE]]

(* ipool_geti(n) returns NULL for want of a free inode.                    *)
geti_none(n) ==
    /\ NoIno(n)
    /\ list_is_empty(ilink, Dummy)
    /\ UNCHANGED ivars

(* ipool_geti(n) returns inode i; ipool_geti(n) returns NULL.              *)
ipool_geti(n, i) == geti_hit(n, i) \/ geti_miss(n, i)

geti_null(n) == geti_fails(n) \/ geti_none(n)

(* ipool_geti(n) meets while (1): the inode is locked.                     *)
geti_spins(n) ==
    /\ \E i \in Inos : IsIno(i, n) /\ inode[i].locked
    /\ UNCHANGED ivars

(* Faulty variant of ipool_puti: the inode stays locked.                   *)
ipool_puti_locked(i) ==
    LET count == Minus(inode[i].count)
    IN  /\ inode' = [inode EXCEPT ![i].count = count]
        /\ ilink' = IF count = 0 THEN list_insert(ilink, Dummy, i) ELSE ilink

(* ipool_puti(): _release_inode().  The inode is unlocked in any case.     *)
ipool_puti(i) ==
    LET count == Minus(inode[i].count)
    IN  /\ inode' = [inode EXCEPT ![i].count = count, ![i].locked = FALSE]
        /\ ilink' = IF count = 0 THEN list_insert(ilink, Dummy, i) ELSE ilink

inode_lock(i) ==
    /\ inode' = [inode EXCEPT ![i].locked = TRUE]
    /\ UNCHANGED ilink

inode_unlock(i) ==
    /\ inode' = [inode EXCEPT ![i].locked = FALSE]
    /\ UNCHANGED ilink
=============================================================================
