------------------------------ MODULE FsProofs ------------------------------
(***************************************************************************)
(* The invariants of the file system calls, for a pool, a file table and a *)
(* descriptor table of any size, any tree of directories, any paths and    *)
(* whatever reads fail.                                                    *)
(***************************************************************************)
EXTENDS Fs, ListProofs, FiniteSetTheorems, WellFoundedInduction, NaturalsInduction

-----------------------------------------------------------------------------
(* Arithmetic                                                              *)

(* Quotient and remainder, and that there is only one pair of them.        *)
LEMMA DivMod ==
    ASSUME NEW n \in Nat, NEW k \in Nat \ {0}
    PROVE  /\ n \div k \in Nat
           /\ n % k \in 0..(k - 1)
           /\ n = (n \div k) * k + (n % k)
OBVIOUS

LEMMA OneQuotient ==
    ASSUME NEW k \in Nat \ {0}, NEW p \in Nat, NEW q \in Nat,
           NEW r \in 0..(k - 1), NEW s \in 0..(k - 1),
           q * k + r = p * k + s
    PROVE  q = p /\ r = s
<1>1. ASSUME q < p PROVE FALSE
  <2>1. (p - q) * k >= k
    BY <1>1
  <2> QED BY <2>1
<1>2. ASSUME p < q PROVE FALSE
  <2>1. (q - p) * k >= k
    BY <1>2
  <2> QED BY <2>1
<1> QED BY <1>1, <1>2

(* Counting an unsigned up and down, short of its limits.                  *)
LEMMA PlusMinus ==
    /\ UINT_MOD \in Nat
    /\ \A c \in Nat : c + 1 < UINT_MOD => Plus(c) = c + 1
    /\ \A c \in 1..(UINT_MOD - 1) : Minus(c) = c - 1
    /\ \A c \in Nat : Plus(c) \in 0..(UINT_MOD - 1)
    /\ \A c \in Nat : Minus(c) \in 0..(UINT_MOD - 1)
<1>1. UINT_MOD \in Nat /\ UINT_MOD > 1
  BY IPoolAssumption
<1>2. ASSUME NEW c \in Nat, c + 1 < UINT_MOD
      PROVE  Plus(c) = c + 1
  BY <1>1, <1>2 DEF Plus
<1>3. ASSUME NEW c \in 1..(UINT_MOD - 1)
      PROVE  Minus(c) = c - 1
  <2> DEFINE m == c + UINT_MOD - 1
  <2>1. /\ m \in Nat /\ UINT_MOD \in Nat \ {0}
        /\ m = 1 * UINT_MOD + (c - 1) /\ c - 1 \in 0..(UINT_MOD - 1)
    BY <1>1
  <2> HIDE DEF m
  <2>2. /\ m \div UINT_MOD \in Nat /\ m % UINT_MOD \in 0..(UINT_MOD - 1)
        /\ m = (m \div UINT_MOD) * UINT_MOD + (m % UINT_MOD)
    BY <2>1, DivMod
  <2>3. m % UINT_MOD = c - 1
    BY <2>1, <2>2, OneQuotient
  <2> QED BY <2>3 DEF Minus, m
<1>4. \A c \in Nat : Plus(c) \in 0..(UINT_MOD - 1) /\ Minus(c) \in 0..(UINT_MOD - 1)
  BY <1>1 DEF Plus, Minus
<1> QED BY <1>1, <1>2, <1>3, <1>4

(* minix3_readi() finds the inode that has the number (minix3.c:225-239    *)
(* counts from 1 and so does the disk).                                    *)
LEMMA ReadsItsNumber ==
    ASSUME NEW n \in InoNums
    PROVE  minix3_readi(n) = n
<1> DEFINE m == n - 1
           q == m \div INODES_PER_BLOCK
           r == m % INODES_PER_BLOCK
<1>1. m \in Nat /\ n = m + 1 /\ INODES_PER_BLOCK \in Nat \ {0}
  BY IPoolAssumption, LayoutAssumption
<1> HIDE DEF m
<1>2. q \in Nat /\ r \in 0..(INODES_PER_BLOCK - 1) /\ m = q * INODES_PER_BLOCK + r
  BY <1>1, DivMod
<1>3. /\ _ino2blk(n).blk = q + (2 + s_imap_blocks + s_zmap_blocks)
      /\ _ino2blk(n).lioff = r
  BY DEF _ino2blk, _itable_blk_num, MINIX3_ROOT_INODE_NUM, m
<1> HIDE DEF q, r
<1>4. s_imap_blocks \in Nat /\ s_zmap_blocks \in Nat
  BY LayoutAssumption
<1>5. /\ _ino2blk(n).blk >= 2 + s_imap_blocks + s_zmap_blocks
      /\ _ino2blk(n).blk - 2 - s_imap_blocks - s_zmap_blocks = q
  BY <1>2, <1>3, <1>4
<1>6. minix3_readi(n) = q * INODES_PER_BLOCK + r + 1
  BY <1>3, <1>5 DEF minix3_readi, InodeAt
<1> QED BY <1>1, <1>2, <1>6
-----------------------------------------------------------------------------
(* The pool of inodes                                                      *)

InodeRec == [num : Nat, count : 0..(UINT_MOD - 1), locked : BOOLEAN,
             valid : BOOLEAN, dinode : InoNums \cup {0}]

FreeInos == {i \in Inos : inode[i].count = 0}

PoolType == inode \in [Inos -> InodeRec] /\ ilink \in Links(INodes)

(* ValidIsActual is inductive only if it speaks of the inodes on the free  *)
(* list too: they keep their contents and are found again.                 *)
AllActual == \A i \in Inos : inode[i].valid => inode[i].dinode = inode[i].num

PoolOK == PoolType /\ AllActual /\ ListOf(ilink, Dummy, FreeInos)

(* The counts after a step: inode i has d references more.                 *)
CountsPlus(i, d) ==
    \A j \in Inos : inode'[j].count = inode[j].count + (IF j = i THEN d ELSE 0)

SameCounts == \A j \in Inos : inode'[j].count = inode[j].count

LEMMA INodesFacts ==
    /\ IPOOL_SIZE \in Nat /\ IPOOL_SIZE >= 1
    /\ Dummy \in INodes /\ Inos = INodes \ {Dummy}
    /\ NULL \notin INodes /\ NULL \notin Inos /\ NULL \notin Nat
    /\ FreeInos \in SUBSET (INodes \ {Dummy})
    /\ Inos \subseteq Nat
    /\ icrd \in Inos
<1>1. IPOOL_SIZE \in Nat /\ IPOOL_SIZE >= 1 /\ NULL \notin Nat
  BY IPoolAssumption
<1>2. Inos \subseteq Nat /\ 0 \notin Inos /\ 1 \in Inos
  BY <1>1 DEF Inos
<1>3. Dummy \in INodes /\ Inos = INodes \ {Dummy}
  BY <1>2 DEF INodes, Dummy
<1>4. NULL \notin INodes /\ NULL \notin Inos
  <2>1. \A m \in Nat : NULL # m
    BY <1>1
  <2>2. NULL # 0 /\ NULL \notin Inos
    BY <1>2, <2>1
  <2> QED BY <2>2 DEF INodes, Dummy
<1> QED BY <1>1, <1>2, <1>3, <1>4 DEF FreeInos, icrd

LEMMA NumsFacts ==
    /\ InoNums \subseteq Nat \ {0}
    /\ ROOT \in InoNums
    /\ \A n \in InoNums : IsInodeNum(n)
    /\ \A d \in DOMAIN Tree : \A c \in DOMAIN Tree[d] : Tree[d][c] \in InoNums
<1>1. NumInodes \in Nat /\ InoNums = 1..NumInodes
  BY LayoutAssumption, FsAssumption
<1> QED BY <1>1, FsAssumption DEF IsInodeNum, MINIX3_ROOT_INODE_NUM

(* A step that changes one inode, and neither its count nor the list.      *)
LEMMA PoolSameCounts ==
    ASSUME PoolOK, PoolType', AllActual', SameCounts, ilink' = ilink
    PROVE  PoolOK'
<1>1. FreeInos' = FreeInos
  BY DEF SameCounts, FreeInos
<1> QED BY <1>1 DEF PoolOK

LEMMA LockPool ==
    ASSUME PoolOK, NEW i \in Inos, NEW b \in BOOLEAN,
           inode' = [inode EXCEPT ![i].locked = b], ilink' = ilink
    PROVE  /\ PoolOK' /\ SameCounts
           /\ \A j \in Inos : /\ inode'[j].num = inode[j].num
                              /\ inode'[j].locked = IF j = i THEN b ELSE inode[j].locked
<1> USE DEF PoolOK, PoolType
<1>1. \A j \in Inos : /\ inode'[j].count = inode[j].count
                      /\ inode'[j].num = inode[j].num
                      /\ inode'[j].valid = inode[j].valid
                      /\ inode'[j].dinode = inode[j].dinode
                      /\ inode'[j].locked = IF j = i THEN b ELSE inode[j].locked
  BY DEF InodeRec
<1>2. PoolType'
  BY DEF InodeRec
<1>3. AllActual' /\ SameCounts
  BY <1>1 DEF AllActual, SameCounts
<1> QED BY <1>1, <1>2, <1>3, PoolSameCounts

(* ipool_geti() returning inode i, ipool.c:90-136: it has one reference    *)
(* more, it has the number n, and no other inode changes.                  *)
LEMMA GetiPool ==
    ASSUME PoolOK, NEW n \in InoNums, NEW i \in Inos, ipool_geti(n, i),
           inode[i].count + 1 < UINT_MOD
    PROVE  /\ PoolOK' /\ CountsPlus(i, 1)
           /\ inode'[i].num = n
           /\ \A j \in Inos : j # i => inode'[j] = inode[j]
           /\ inode[i].count # 0 => inode[i].num = n /\ inode'[i].locked = FALSE
<1> USE DEF PoolOK, PoolType
<1>1. /\ i \in INodes /\ n \in Nat /\ Dummy \in INodes /\ NULL \notin INodes
      /\ FreeInos \in SUBSET (INodes \ {Dummy})
      /\ inode[i].count \in Nat /\ IsInodeNum(n)
  BY INodesFacts, NumsFacts, PlusMinus DEF InodeRec
<1>2. Plus(inode[i].count) = inode[i].count + 1
      /\ inode[i].count + 1 \in 0..(UINT_MOD - 1)
  BY <1>1, PlusMinus
<1>3. node_remove(ilink, i) \in Links(INodes)
  BY <1>1, RemoveType
<1>4. CASE geti_hit(n, i)
  <2>1. /\ inode[i].num = n /\ ~inode[i].locked
        /\ ilink' = IF inode[i].count = 0 THEN node_remove(ilink, i) ELSE ilink
        /\ inode' = [inode EXCEPT ![i].count = inode[i].count + 1]
    BY <1>2, <1>4 DEF geti_hit, IsIno
  <2>2. /\ inode' \in [Inos -> InodeRec]
        /\ \A j \in Inos : j # i => inode'[j] = inode[j]
        /\ inode'[i].count = inode[i].count + 1
        /\ inode'[i].num = n
        /\ inode'[i].locked = FALSE
        /\ inode'[i].valid = inode[i].valid /\ inode'[i].dinode = inode[i].dinode
    BY <1>2, <2>1 DEF InodeRec
  <2>3. PoolType'
    BY <1>3, <2>1, <2>2
  <2>4. AllActual'
    BY <2>1, <2>2 DEF AllActual
  <2>5. CountsPlus(i, 1)
    BY <1>1, <2>2 DEF CountsPlus, InodeRec
  <2>6. ListOf(ilink', Dummy, FreeInos')
    <3>1. CASE inode[i].count = 0
      <4>1. i \in FreeInos /\ FreeInos' = FreeInos \ {i}
        BY <2>2, <3>1 DEF FreeInos
      <4> QED BY <1>1, <2>1, <3>1, <4>1, TakeMember
    <3>2. CASE inode[i].count # 0
      <4>1. FreeInos' = FreeInos
        BY <1>1, <2>2, <3>2 DEF FreeInos
      <4> QED BY <2>1, <3>2, <4>1
    <3> QED BY <3>1, <3>2
  <2> QED BY <2>1, <2>2, <2>3, <2>4, <2>5, <2>6
<1>5. CASE geti_miss(n, i)
  <2>1. /\ i = list_get_head_node(ilink, Dummy)
        /\ ilink' = node_remove(ilink, i)
        /\ inode' = [inode EXCEPT ![i] = [num |-> n, count |-> inode[i].count + 1,
                                          locked |-> TRUE, valid |-> TRUE, dinode |-> n]]
    BY <1>2, <1>5, ReadsItsNumber DEF geti_miss, IsFreeIno
  <2>2. i \in FreeInos
    BY <1>1, <2>1, INodesFacts, HeadMember
  <2>3. inode[i].count = 0
    BY <2>2 DEF FreeInos
  <2>4. /\ inode' \in [Inos -> InodeRec]
        /\ \A j \in Inos : j # i => inode'[j] = inode[j]
        /\ inode'[i].count = inode[i].count + 1
        /\ inode'[i].num = n /\ inode'[i].dinode = n
    BY <1>1, <1>2, <2>1 DEF InodeRec
  <2>5. PoolType'
    BY <1>3, <2>1, <2>4
  <2>6. AllActual'
    BY <2>4 DEF AllActual
  <2>7. CountsPlus(i, 1)
    BY <1>1, <2>4 DEF CountsPlus, InodeRec
  <2>8. FreeInos' = FreeInos \ {i}
    BY <2>3, <2>4 DEF FreeInos
  <2>9. ListOf(ilink', Dummy, FreeInos')
    BY <1>1, <2>1, <2>2, <2>8, TakeMember
  <2> QED BY <2>3, <2>4, <2>5, <2>6, <2>7, <2>9
<1> QED BY <1>4, <1>5 DEF ipool_geti

(* ipool_geti() returning NULL: no count changes, and an inode that could  *)
(* not be read is on the free list again, now as the newest.               *)
LEMMA GetiNullPool ==
    ASSUME PoolOK, NEW n \in InoNums, geti_null(n)
    PROVE  /\ PoolOK' /\ SameCounts
           /\ \A j \in Inos : inode[j].count # 0 => inode'[j] = inode[j]
           /\ \A j \in Inos : inode'[j].locked => inode[j].locked
<1> USE DEF PoolOK, PoolType
<1>1. /\ n \in Nat /\ Dummy \in INodes /\ NULL \notin INodes
      /\ Inos = INodes \ {Dummy}
      /\ FreeInos \in SUBSET (INodes \ {Dummy})
  BY INodesFacts, NumsFacts
<1>2. CASE geti_fails(n)
  <2>1. PICK i \in Inos :
          /\ i = list_get_head_node(ilink, Dummy)
          /\ ilink' = IF Minus(Plus(inode[i].count)) = 0
                      THEN list_insert(node_remove(ilink, i), Dummy, i)
                      ELSE node_remove(ilink, i)
          /\ inode' = [inode EXCEPT ![i] = [@ EXCEPT !.num = n,
                                                !.count = Minus(Plus(inode[i].count)),
                                                !.locked = FALSE, !.valid = FALSE]]
    BY <1>2 DEF geti_fails, IsFreeIno
  <2>2. i \in FreeInos /\ inode[i].count = 0
    <3>1. i \in FreeInos
      BY <1>1, <2>1, HeadMember
    <3> QED BY <3>1 DEF FreeInos
  <2>3. Minus(Plus(inode[i].count)) = 0
    <3>1. 0 + 1 < UINT_MOD /\ 1 \in 1..(UINT_MOD - 1)
      BY IPoolAssumption
    <3> QED BY <2>2, <3>1, PlusMinus
  <2>4. /\ inode' \in [Inos -> InodeRec]
        /\ \A j \in Inos : j # i => inode'[j] = inode[j]
        /\ inode'[i].count = 0 /\ ~inode'[i].valid /\ ~inode'[i].locked
    <3>1. ASSUME NEW r \in InodeRec, NEW q,
                 q = [r EXCEPT !.num = n, !.count = 0, !.locked = FALSE,
                               !.valid = FALSE]
          PROVE  q \in InodeRec /\ q.count = 0 /\ q.valid = FALSE /\ q.locked = FALSE
      <4>1. n \in Nat /\ 0 \in 0..(UINT_MOD - 1)
        BY <1>1, IPoolAssumption
      <4> HIDE DEF PoolOK
      <4> QED BY <3>1, <4>1 DEF InodeRec
    <3>2. inode'[i] = [inode[i] EXCEPT !.num = n, !.count = 0, !.locked = FALSE,
                                       !.valid = FALSE]
      BY <2>1, <2>3
    <3>3. inode'[i] \in InodeRec /\ inode'[i].count = 0 /\ ~inode'[i].valid
          /\ ~inode'[i].locked
      BY <3>1, <3>2
    <3>4. \A j \in Inos : j # i => inode'[j] = inode[j]
      BY <2>1
    <3>5. inode' \in [Inos -> InodeRec]
      BY <2>1, <3>3
    <3> QED BY <3>3, <3>4, <3>5
  <2>5. FreeInos' = (FreeInos \ {i}) \cup {i} /\ SameCounts
    BY <2>2, <2>4 DEF FreeInos, SameCounts
  <2>6. /\ node_remove(ilink, i) \in Links(INodes)
        /\ ListOf(node_remove(ilink, i), Dummy, FreeInos \ {i})
    BY <1>1, <2>2, RemoveType, TakeMember
  <2>7. /\ ilink' \in Links(INodes)
        /\ ListOf(ilink', Dummy, (FreeInos \ {i}) \cup {i})
    BY <1>1, <2>1, <2>3, <2>6, InsertType, AddMember
  <2>8. AllActual'
    BY <2>4 DEF AllActual
  <2> QED BY <2>2, <2>4, <2>5, <2>7, <2>8
<1>3. CASE geti_none(n)
  <2>1. inode' = inode /\ ilink' = ilink
    BY <1>3 DEF geti_none, ivars
  <2> QED BY <2>1 DEF FreeInos, AllActual, SameCounts
<1> QED BY <1>2, <1>3 DEF geti_null

(* ipool_puti(), ipool.c:138-149: one reference less, and unlocked.        *)
LEMMA PutiPool ==
    ASSUME PoolOK, NEW i \in Inos, inode[i].count >= 1, ipool_puti(i)
    PROVE  /\ PoolOK' /\ CountsPlus(i, -1)
           /\ \A j \in Inos : /\ inode'[j].num = inode[j].num
                              /\ inode'[j].locked = IF j = i THEN FALSE ELSE inode[j].locked
<1> USE DEF PoolOK, PoolType
<1>1. /\ i \in INodes /\ Dummy \in INodes
      /\ FreeInos \in SUBSET (INodes \ {Dummy})
      /\ Inos = INodes \ {Dummy}
      /\ UINT_MOD \in Nat
      /\ inode[i].count \in 1..(UINT_MOD - 1)
  BY INodesFacts, PlusMinus DEF InodeRec
<1>2. /\ Minus(inode[i].count) = inode[i].count - 1
      /\ inode[i].count - 1 \in 0..(UINT_MOD - 1)
  BY <1>1, PlusMinus
<1>3. /\ inode' = [inode EXCEPT ![i].count = inode[i].count - 1, ![i].locked = FALSE]
      /\ ilink' = IF inode[i].count - 1 = 0 THEN list_insert(ilink, Dummy, i) ELSE ilink
  BY <1>2 DEF ipool_puti
<1>4. /\ inode' \in [Inos -> InodeRec]
      /\ \A j \in Inos : j # i => inode'[j] = inode[j]
      /\ inode'[i].count = inode[i].count - 1
      /\ inode'[i].num = inode[i].num
      /\ inode'[i].locked = FALSE
      /\ inode'[i].valid = inode[i].valid /\ inode'[i].dinode = inode[i].dinode
  BY <1>2, <1>3 DEF InodeRec
<1>5. PoolType'
  BY <1>1, <1>3, <1>4, InsertType
<1>6. AllActual'
  BY <1>4 DEF AllActual
<1>7. CountsPlus(i, -1)
  BY <1>1, <1>4 DEF CountsPlus, InodeRec
<1>8. ListOf(ilink', Dummy, FreeInos')
  <2>1. CASE inode[i].count = 1
    <3>1. i \notin FreeInos /\ FreeInos' = FreeInos \cup {i}
      BY <1>4, <2>1 DEF FreeInos
    <3> QED BY <1>1, <1>3, <2>1, <3>1, AddMember
  <2>2. CASE inode[i].count # 1
    <3>1. FreeInos' = FreeInos
      BY <1>1, <1>4, <2>2 DEF FreeInos
    <3> QED BY <1>1, <1>3, <2>2, <3>1
  <2> QED BY <2>1, <2>2
<1> QED BY <1>4, <1>5, <1>6, <1>7, <1>8

(* However often it is called, what it leaves has the right type.          *)
LEMMA PutiTypes ==
    ASSUME PoolType, AllActual, NEW i \in Inos, ipool_puti(i)
    PROVE  PoolType' /\ AllActual'
<1> USE DEF PoolType
<1>1. i \in INodes /\ Dummy \in INodes /\ inode[i].count \in Nat
  BY INodesFacts, PlusMinus DEF InodeRec
<1> DEFINE count == Minus(inode[i].count)
<1>2. count \in 0..(UINT_MOD - 1)
  BY <1>1, PlusMinus
<1>3. /\ inode' = [inode EXCEPT ![i].count = count, ![i].locked = FALSE]
      /\ ilink' = IF count = 0 THEN list_insert(ilink, Dummy, i) ELSE ilink
  BY DEF ipool_puti
<1> HIDE DEF count
<1>4. PoolType'
  <2>1. ilink' \in Links(INodes)
    BY <1>1, <1>3, InsertType
  <2> QED BY <1>2, <1>3, <2>1 DEF InodeRec
<1>5. AllActual'
  BY <1>3 DEF AllActual, InodeRec
<1> QED BY <1>4, <1>5

-----------------------------------------------------------------------------
(* The file table and the descriptors                                      *)

FteRec == [count : 0..(UINT_MOD - 1), inode : Inos \cup {NULL}]

FreeFtes == {t \in Ftes : fte[t].count = 0}
OpenSet(i) == {t \in Ftes : fte[t].count # 0 /\ fte[t].inode = i}
FdsOf(t) == {k \in Fds : fd[k] = t}

TablesOK ==
    /\ fte \in [Ftes -> FteRec]
    /\ flink \in Links(FNodes)
    /\ fd \in [Fds -> Ftes \cup {NULL}]
    /\ ListOf(flink, Dummy, FreeFtes)
    /\ \A t \in Ftes : fte[t].count # 0 => fte[t].inode \in Inos

LEMMA FNodesFacts ==
    /\ NUM_ENTRIES \in Nat /\ NUM_ENTRIES >= 1
    /\ FD_TABLE_NUM_ENTRIES \in Nat
    /\ Dummy \in FNodes /\ Ftes = FNodes \ {Dummy}
    /\ NULL \notin FNodes /\ NULL \notin Ftes
    /\ FreeFtes \in SUBSET (FNodes \ {Dummy})
    /\ Ftes \subseteq FNodes
    /\ IsFiniteSet(Ftes) /\ Cardinality(Ftes) = NUM_ENTRIES
    /\ IsFiniteSet(Fds) /\ Cardinality(Fds) = FD_TABLE_NUM_ENTRIES
<1>1. /\ NUM_ENTRIES \in Nat /\ NUM_ENTRIES >= 1
      /\ FD_TABLE_NUM_ENTRIES \in Nat /\ FD_TABLE_NUM_ENTRIES >= 1
  BY FileTableAssumption
<1>2. \A m \in Nat : NULL # m
  BY IPoolAssumption
<1>3. Ftes \subseteq Nat /\ 0 \notin Ftes
  BY <1>1 DEF Ftes
<1>4. Dummy \in FNodes /\ Ftes = FNodes \ {Dummy}
  BY <1>3 DEF FNodes, Dummy
<1>5. NULL # 0 /\ NULL \notin Ftes
  BY <1>2, <1>3
<1>6. NULL \notin FNodes
  BY <1>5 DEF FNodes, Dummy
<1>7. /\ IsFiniteSet(Ftes) /\ Cardinality(Ftes) = NUM_ENTRIES
      /\ IsFiniteSet(Fds) /\ Cardinality(Fds) = FD_TABLE_NUM_ENTRIES
  BY <1>1, FS_Interval DEF Ftes, Fds
<1> QED BY <1>1, <1>4, <1>5, <1>6, <1>7 DEF FreeFtes

LEMMA OpenBounds ==
    \A i : /\ OpenRefs(i) = Cardinality(OpenSet(i))
           /\ IsFiniteSet(OpenSet(i))
           /\ OpenRefs(i) \in 0..NUM_ENTRIES
<1> SUFFICES ASSUME NEW i
             PROVE  /\ OpenRefs(i) = Cardinality(OpenSet(i))
                    /\ IsFiniteSet(OpenSet(i))
                    /\ OpenRefs(i) \in 0..NUM_ENTRIES
  OBVIOUS
<1>1. OpenSet(i) \in SUBSET Ftes
  BY DEF OpenSet
<1>2. IsFiniteSet(OpenSet(i)) /\ Cardinality(OpenSet(i)) <= NUM_ENTRIES
  BY <1>1, FNodesFacts, FS_Subset
<1>3. Cardinality(OpenSet(i)) \in Nat
  BY <1>2, FS_CardinalityType
<1>4. OpenRefs(i) = Cardinality(OpenSet(i))
  BY DEF OpenRefs, OpenSet
<1> QED BY <1>2, <1>3, <1>4, FNodesFacts

LEMMA FdsBounds ==
    \A t : /\ IsFiniteSet(FdsOf(t))
           /\ Cardinality(FdsOf(t)) \in 0..FD_TABLE_NUM_ENTRIES
           /\ Cardinality(FdsOf(t)) = 0 <=> \A k \in Fds : fd[k] # t
<1> SUFFICES ASSUME NEW t
             PROVE  /\ IsFiniteSet(FdsOf(t))
                    /\ Cardinality(FdsOf(t)) \in 0..FD_TABLE_NUM_ENTRIES
                    /\ Cardinality(FdsOf(t)) = 0 <=> \A k \in Fds : fd[k] # t
  OBVIOUS
<1>1. FdsOf(t) \in SUBSET Fds
  BY DEF FdsOf
<1>2. IsFiniteSet(FdsOf(t)) /\ Cardinality(FdsOf(t)) <= FD_TABLE_NUM_ENTRIES
  BY <1>1, FNodesFacts, FS_Subset
<1>3. Cardinality(FdsOf(t)) \in Nat
  BY <1>2, FS_CardinalityType
<1>4. Cardinality(FdsOf(t)) = 0 <=> FdsOf(t) = {}
  BY <1>2, FS_EmptySet
<1> QED BY <1>2, <1>3, <1>4, FNodesFacts DEF FdsOf

(* file_table_alloc_entry(), file_table.c:45-63: inode i is open once more.*)
LEMMA AllocEntry ==
    ASSUME TablesOK, NEW t \in Ftes, NEW i \in Inos,
           file_table_alloc_entry(t, i), fd' = fd
    PROVE  /\ TablesOK'
           /\ fte[t].count = 0
           /\ \A u \in Ftes : fte'[u] = IF u = t THEN [count |-> 1, inode |-> i] ELSE fte[u]
           /\ \A j \in Inos : OpenRefs(j)' = OpenRefs(j) + (IF j = i THEN 1 ELSE 0)
<1> USE DEF TablesOK
<1>1. /\ t = list_get_head_node(flink, Dummy)
      /\ flink' = node_remove(flink, t)
      /\ fte' = [fte EXCEPT ![t] = [count |-> 1, inode |-> i]]
  BY DEF file_table_alloc_entry
<1>2. /\ t \in FNodes /\ Dummy \in FNodes /\ NULL \notin FNodes /\ NULL \notin Ftes
      /\ FreeFtes \in SUBSET (FNodes \ {Dummy})
  BY FNodesFacts
<1>3. t \in FreeFtes
  BY <1>1, <1>2, HeadMember
<1>4. 1 \in 0..(UINT_MOD - 1)
  BY IPoolAssumption
<1>5. /\ fte' \in [Ftes -> FteRec]
      /\ \A u \in Ftes : fte'[u] = IF u = t THEN [count |-> 1, inode |-> i] ELSE fte[u]
  BY <1>1, <1>4 DEF FteRec
<1>6. fte'[t].count = 1 /\ fte'[t].inode = i /\ fte[t].count = 0
  BY <1>3, <1>5 DEF FreeFtes
<1>7. flink' \in Links(FNodes)
  BY <1>1, <1>2, RemoveType
<1>8. FreeFtes' = FreeFtes \ {t}
  BY <1>5, <1>6 DEF FreeFtes
<1>9. ListOf(flink', Dummy, FreeFtes')
  BY <1>1, <1>2, <1>3, <1>8, TakeMember
<1>10. \A u \in Ftes : fte'[u].count # 0 => fte'[u].inode \in Inos
  BY <1>5, <1>6
<1>11. ASSUME NEW j \in Inos
       PROVE  OpenRefs(j)' = OpenRefs(j) + (IF j = i THEN 1 ELSE 0)
  <2>1. /\ OpenRefs(j) = Cardinality(OpenSet(j)) /\ IsFiniteSet(OpenSet(j))
        /\ OpenRefs(j) \in Nat
    BY OpenBounds, FNodesFacts
  <2>2. OpenRefs(j)' = Cardinality(OpenSet(j)')
    BY DEF OpenRefs, OpenSet
  <2>3. t \notin OpenSet(j)
    BY <1>6 DEF OpenSet
  <2>4. OpenSet(j)' = IF j = i THEN OpenSet(j) \cup {t} ELSE OpenSet(j)
    BY <1>5, <1>6 DEF OpenSet
  <2>5. CASE j = i
    <3>1. Cardinality(OpenSet(j) \cup {t}) = Cardinality(OpenSet(j)) + 1
      BY <2>1, <2>3, FS_AddElement
    <3> QED BY <2>1, <2>2, <2>4, <2>5, <3>1
  <2>6. CASE j # i
    BY <2>1, <2>2, <2>4, <2>6
  <2> QED BY <2>5, <2>6
<1> QED BY <1>5, <1>6, <1>7, <1>9, <1>10, <1>11

(* file_table_release_entry(), file_table.c:65-76: with the last reference *)
(* to the entry the inode is open once less.                               *)
LEMMA ReleaseEntry ==
    ASSUME TablesOK, NEW t \in Ftes, fte[t].count >= 1,
           file_table_release_entry(t), fd' \in [Fds -> Ftes \cup {NULL}]
    PROVE  LET i == fte[t].inode
               last == fte[t].count = 1
           IN  /\ TablesOK'
               /\ i \in Inos
               /\ IF last THEN ipool_puti(i) ELSE UNCHANGED ivars
               /\ \A u \in Ftes : /\ fte'[u].inode = fte[u].inode
                                  /\ fte'[u].count = fte[u].count - (IF u = t THEN 1 ELSE 0)
               /\ \A j \in Inos : OpenRefs(j)' =
                                    OpenRefs(j) - (IF j = i /\ last THEN 1 ELSE 0)
<1> USE DEF TablesOK
<1> DEFINE i == fte[t].inode
           last == fte[t].count = 1
<1>1. /\ t \in FNodes /\ Dummy \in FNodes
      /\ Ftes = FNodes \ {Dummy}
      /\ FreeFtes \in SUBSET (FNodes \ {Dummy})
  BY FNodesFacts
<1>2. UINT_MOD \in Nat /\ fte[t].count \in 1..(UINT_MOD - 1) /\ i \in Inos
  BY PlusMinus DEF FteRec
<1>3. /\ Minus(fte[t].count) = fte[t].count - 1
      /\ fte[t].count - 1 \in 0..(UINT_MOD - 1)
  BY <1>2, PlusMinus
<1>4. /\ fte' = [fte EXCEPT ![t].count = fte[t].count - 1]
      /\ IF last THEN ipool_puti(i) /\ flink' = list_insert(flink, Dummy, t)
                 ELSE UNCHANGED ivars /\ flink' = flink
  BY <1>2, <1>3 DEF file_table_release_entry
<1>5. /\ fte' \in [Ftes -> FteRec]
      /\ fte'[t].count = fte[t].count - 1 /\ fte'[t].inode = fte[t].inode
      /\ \A u \in Ftes : u # t => fte'[u] = fte[u]
  BY <1>3, <1>4 DEF FteRec
<1>6. \A u \in Ftes : /\ fte'[u].inode = fte[u].inode
                      /\ fte'[u].count = fte[u].count - (IF u = t THEN 1 ELSE 0)
  BY <1>5 DEF FteRec
<1>7. flink' \in Links(FNodes)
  BY <1>1, <1>4, InsertType
<1>8. ListOf(flink', Dummy, FreeFtes')
  <2>1. CASE last
    <3>1. t \notin FreeFtes /\ FreeFtes' = FreeFtes \cup {t}
      BY <1>5, <2>1 DEF FreeFtes
    <3> QED BY <1>1, <1>4, <2>1, <3>1, AddMember
  <2>2. CASE ~last
    <3>1. FreeFtes' = FreeFtes
      BY <1>2, <1>5, <2>2 DEF FreeFtes
    <3> QED BY <1>4, <2>2, <3>1
  <2> QED BY <2>1, <2>2
<1>9. \A u \in Ftes : fte'[u].count # 0 => fte'[u].inode \in Inos
  BY <1>2, <1>5
<1>10. ASSUME NEW j \in Inos
       PROVE  OpenRefs(j)' = OpenRefs(j) - (IF j = i /\ last THEN 1 ELSE 0)
  <2>1. /\ OpenRefs(j) = Cardinality(OpenSet(j)) /\ IsFiniteSet(OpenSet(j))
        /\ OpenRefs(j) \in Nat
    BY OpenBounds, FNodesFacts
  <2>2. OpenRefs(j)' = Cardinality(OpenSet(j)')
    BY DEF OpenRefs, OpenSet
  <2>3. CASE j = i /\ last
    <3>1. t \in OpenSet(j) /\ OpenSet(j)' = OpenSet(j) \ {t}
      BY <1>5, <2>3 DEF OpenSet
    <3> QED BY <2>1, <2>2, <2>3, <3>1, FS_RemoveElement
  <2>4. CASE ~(j = i /\ last)
    <3>1. OpenSet(j)' = OpenSet(j)
      BY <1>2, <1>5, <2>4 DEF OpenSet
    <3> QED BY <2>1, <2>2, <2>4, <3>1
  <2> QED BY <2>3, <2>4
<1> QED BY <1>2, <1>4, <1>5, <1>6, <1>7, <1>8, <1>9, <1>10

(* The descriptors of an entry, when descriptor k comes to refer to t, or  *)
(* is closed.                                                              *)
LEMMA FdSet ==
    ASSUME NEW k \in Fds, NEW t \in Ftes, fd \in [Fds -> Ftes \cup {NULL}],
           fd[k] = NULL, fd' = [fd EXCEPT ![k] = t]
    PROVE  /\ fd' \in [Fds -> Ftes \cup {NULL}]
           /\ \A u \in Ftes : Cardinality(FdsOf(u)') =
                                Cardinality(FdsOf(u)) + (IF u = t THEN 1 ELSE 0)
<1>1. NULL \notin Ftes
  BY FNodesFacts
<1>2. FdsOf(t)' = FdsOf(t) \cup {k} /\ k \notin FdsOf(t)
  BY <1>1 DEF FdsOf
<1>3. Cardinality(FdsOf(t)') = Cardinality(FdsOf(t)) + 1
  BY <1>2, FdsBounds, FS_AddElement
<1>4. \A u \in Ftes : u # t => FdsOf(u)' = FdsOf(u)
  BY <1>1 DEF FdsOf
<1>5. \A u : Cardinality(FdsOf(u)) \in Nat
  BY FdsBounds, FNodesFacts
<1> QED BY <1>3, <1>4, <1>5

LEMMA FdClear ==
    ASSUME NEW k \in Fds, NEW t \in Ftes, fd \in [Fds -> Ftes \cup {NULL}],
           fd[k] = t, fd' = [fd EXCEPT ![k] = NULL]
    PROVE  /\ fd' \in [Fds -> Ftes \cup {NULL}]
           /\ \A u \in Ftes : Cardinality(FdsOf(u)') =
                                Cardinality(FdsOf(u)) - (IF u = t THEN 1 ELSE 0)
<1>1. NULL \notin Ftes
  BY FNodesFacts
<1>2. FdsOf(t)' = FdsOf(t) \ {k} /\ k \in FdsOf(t)
  BY <1>1 DEF FdsOf
<1>3. Cardinality(FdsOf(t)') = Cardinality(FdsOf(t)) - 1
  BY <1>2, FdsBounds, FS_RemoveElement
<1>4. \A u \in Ftes : u # t => FdsOf(u)' = FdsOf(u)
  BY <1>1 DEF FdsOf
<1>5. \A u : Cardinality(FdsOf(u)) \in Nat
  BY FdsBounds, FNodesFacts
<1> QED BY <1>3, <1>4, <1>5

-----------------------------------------------------------------------------
(* The inductive invariant                                                 *)

Fields == {"op", "pc", "path", "rest", "wino", "new", "pdir", "entry"}

(* The pointers of the call at every place in the code.                    *)
CallOK ==
    /\ DOMAIN call = Fields
    /\ call.pc \in Labels
    /\ call.wino \in Inos \cup {NULL}
    /\ call.new \in Inos \cup {NULL}
    /\ call.pdir \in Inos \cup {NULL}
    /\ call.entry \in Ftes \cup {NULL}
    /\ call.pc \in {"walk", "missing", "enter", "seti", "linked", "found",
                    "fte", "fd", "put_fte", "put_ino"} => call.wino \in Inos
    /\ call.pc \in {"idle", "root", "alloci", "put_pdir"} => call.wino = NULL
    /\ call.new \in Inos <=> call.pc = "enter"
    /\ call.pc \in {"alloci", "seti", "linked", "put_pdir"} => call.pdir \in Inos
    /\ call.pc \in {"idle", "root", "missing", "enter"} => call.pdir = NULL
    /\ call.pc = "walk" /\ MoreComponents => call.pdir = NULL
    /\ call.pdir # NULL => call.op = "creat"
    /\ call.pc \in {"fd", "put_fte"} => call.entry \in Ftes
    /\ call.pc \notin {"fd", "put_fte", "put_ino", "twice"} => call.entry = NULL
    /\ IF call.pc = "idle" THEN call.op = "none" ELSE call.op \in Calls \cap {"open", "creat"}

(* The entry that a call has allocated is its own.                         *)
EntryOK ==
    call.pc \in {"fd", "put_fte"} =>
        /\ fte[call.entry].inode = call.wino
        /\ \A k \in Fds : fd[k] # call.entry

LostOK ==
    /\ lost \in [Inos -> Nat]
    /\ \A i \in Inos : lost[i] <= MaxCount + 1
    /\ call.op = "creat" => \A i \in Inos : lost[i] <= MaxCount

ImapOK == imap \subseteq [blk : Nat, byte : 0..(BLOCK_SIZE - 1), bit : 0..(BYTE - 1)]

(* EntryCount without the list, which is in TablesOK.                      *)
Pending(t) == IF call.entry = t /\ call.pc \in {"fd", "put_fte"} THEN 1 ELSE 0
CountsFds == \A t \in Ftes : fte[t].count = Cardinality(FdsOf(t)) + Pending(t)

(* CallRefs(i) as a sum, for a call c.                                     *)
One(b) == IF b THEN 1 ELSE 0
Holds(c, i) == One(c.wino = i /\ c.entry = NULL) + One(c.new = i) + One(c.pdir = i)

CountsRefs ==
    \A i \in Inos :
        inode[i].count = OpenRefs(i) + Holds(call, i) + One(i = icrd) + lost[i]

Inv ==
    /\ PoolType /\ AllActual
    /\ call.pc # "twice" => ListOf(ilink, Dummy, FreeInos) /\ CountsRefs
    /\ TablesOK /\ CountsFds
    /\ CallOK /\ EntryOK /\ LostOK /\ ImapOK

LEMMA HoldsForm ==
    ASSUME NEW c, NEW i
    PROVE  Cardinality({v \in {"wino", "new", "pdir"} :
                            /\ c[v] = i
                            /\ v = "wino" => c.entry = NULL}) = Holds(c, i)
<1> DEFINE P(v) == c[v] = i /\ (v = "wino" => c.entry = NULL)
           A == {v \in {"pdir"} : P(v)}
           B == {v \in {"new", "pdir"} : P(v)}
           C == {v \in {"wino", "new", "pdir"} : P(v)}
<1>1. ASSUME NEW S, NEW T, NEW x, NEW b \in BOOLEAN, IsFiniteSet(S), x \notin S,
             T = IF b THEN S \cup {x} ELSE S
      PROVE  IsFiniteSet(T) /\ Cardinality(T) = Cardinality(S) + One(b)
  <2>1. Cardinality(S) \in Nat
    BY <1>1, FS_CardinalityType
  <2>2. CASE b
    BY <1>1, <2>1, <2>2, FS_AddElement DEF One
  <2>3. CASE ~b
    BY <1>1, <2>1, <2>3 DEF One
  <2> QED BY <2>2, <2>3
<1>2. IsFiniteSet({}) /\ Cardinality({}) = 0
  BY FS_EmptySet
<1>3. /\ A = IF c.pdir = i THEN {} \cup {"pdir"} ELSE {}
      /\ B = IF c.new = i THEN A \cup {"new"} ELSE A
      /\ C = IF c.wino = i /\ c.entry = NULL THEN B \cup {"wino"} ELSE B
      /\ "new" \notin A /\ "wino" \notin B
  OBVIOUS
<1> HIDE DEF A, B, C
<1>4. IsFiniteSet(A) /\ Cardinality(A) = 0 + One(c.pdir = i)
  BY <1>1, <1>2, <1>3
<1>5. IsFiniteSet(B) /\ Cardinality(B) = Cardinality(A) + One(c.new = i)
  BY <1>1, <1>3, <1>4
<1>6. Cardinality(C) = Cardinality(B) + One(c.wino = i /\ c.entry = NULL)
  BY <1>1, <1>3, <1>5
<1>7. Cardinality(C) = Holds(c, i)
  BY <1>4, <1>5, <1>6 DEF Holds, One
<1> QED BY <1>7 DEF C

LEMMA CallRefsForm ==
    \A i : CallRefs(i) = Holds(call, i) /\ CallRefs(i)' = Holds(call', i)
BY HoldsForm DEF CallRefs

(* There is room for one more reference to every inode.                    *)
LEMMA CountBound ==
    ASSUME Inv, call.pc # "twice", NEW i \in Inos
    PROVE  /\ inode[i].count \in Nat /\ inode[i].count + 1 < UINT_MOD
           /\ lost[i] <= inode[i].count
           /\ inode[i].count >= Holds(call, i)
           /\ inode[i].count >= Holds(call, i) + OpenRefs(i)
<1> USE DEF Inv
<1>1. OpenRefs(i) \in Nat /\ OpenRefs(i) <= NUM_ENTRIES /\ NUM_ENTRIES \in Nat
  BY OpenBounds, FNodesFacts
<1>2. lost[i] \in Nat /\ lost[i] <= MaxCount + 1
  BY DEF LostOK
<1>3. Holds(call, i) \in 0..3 /\ One(i = icrd) \in 0..1
  BY DEF Holds, One
<1>4. inode[i].count = OpenRefs(i) + Holds(call, i) + One(i = icrd) + lost[i]
  BY DEF CountsRefs
<1>5. MaxCount \in Nat /\ NUM_ENTRIES + MaxCount + 6 < UINT_MOD /\ UINT_MOD \in Nat
  BY UIntAssumption, IPoolAssumption
<1> QED BY <1>1, <1>2, <1>3, <1>4, <1>5

LEMMA HoldsInt == \A c, i : Holds(c, i) \in 0..3
BY DEF Holds, One

(* A step of a call that leaves the tables alone preserves the invariant   *)
(* if the pool stays sound and the counts follow the variables of the call.*)
LEMMA CallStep ==
    ASSUME Inv, UNCHANGED <<fvars, lost>>,
           call.pc \notin {"fd", "put_fte", "twice"},
           call'.pc \notin {"fd", "put_fte", "twice"},
           PoolOK', CallOK', ImapOK', LostOK',
           \A i \in Inos : inode'[i].count + Holds(call, i)
                            = inode[i].count + Holds(call', i)
    PROVE  Inv'
<1> USE DEF Inv
<1>1. fte' = fte /\ flink' = flink /\ fd' = fd /\ lost' = lost
  BY DEF fvars
<1>2. TablesOK'
  BY <1>1 DEF TablesOK, FreeFtes
<1>3. CountsFds'
  <2>1. \A t \in Ftes : Pending(t) = 0 /\ Pending(t)' = 0
    BY DEF Pending
  <2>2. \A t \in Ftes : FdsOf(t)' = FdsOf(t)
    BY <1>1 DEF FdsOf
  <2> QED BY <1>1, <2>1, <2>2 DEF CountsFds
<1>4. CountsRefs'
  <2>1. ASSUME NEW i \in Inos
        PROVE  inode'[i].count = OpenRefs(i)' + Holds(call', i) + One(i = icrd) + lost'[i]
    <3>1. OpenRefs(i)' = OpenRefs(i)
      BY <1>1 DEF OpenRefs
    <3>2. /\ OpenRefs(i) \in Nat /\ lost[i] \in Nat /\ One(i = icrd) \in Nat
          /\ Holds(call, i) \in Nat /\ Holds(call', i) \in Nat
      BY OpenBounds, FNodesFacts, HoldsInt DEF LostOK, One
    <3>3. inode[i].count \in Nat /\ inode'[i].count \in Nat
      BY PlusMinus DEF PoolOK, PoolType, InodeRec
    <3>4. inode[i].count = OpenRefs(i) + Holds(call, i) + One(i = icrd) + lost[i]
      BY DEF CountsRefs
    <3>5. inode'[i].count + Holds(call, i) = inode[i].count + Holds(call', i)
      OBVIOUS
    <3>6. lost'[i] = lost[i]
      BY <1>1
    <3> HIDE DEF Inv
    <3> QED BY <3>1, <3>2, <3>3, <3>4, <3>5, <3>6
  <2> QED BY <2>1 DEF CountsRefs
<1>5. EntryOK'
  BY DEF EntryOK
<1> QED BY <1>2, <1>3, <1>4, <1>5 DEF PoolOK

(* The step references inode i once more, gives i back once, or leaves the *)
(* counts alone; and so do the variables of the call.                      *)
LEMMA TakeStep ==
    ASSUME Inv, UNCHANGED <<fvars, lost>>,
           call.pc \notin {"fd", "put_fte", "twice"},
           call'.pc \notin {"fd", "put_fte", "twice"},
           CallOK', ImapOK', LostOK',
           NEW n \in InoNums, NEW i \in Inos, ipool_geti(n, i),
           \A j \in Inos : Holds(call', j) = Holds(call, j) + (IF j = i THEN 1 ELSE 0)
    PROVE  Inv'
<1>1. \A j \in Inos : inode[j].count \in Nat /\ inode[j].count + 1 < UINT_MOD
  BY CountBound
<1>2. PoolOK' /\ CountsPlus(i, 1)
  BY <1>1, GetiPool DEF Inv, PoolOK
<1>3. \A j \in Inos : Holds(call, j) \in Nat
  BY HoldsInt
<1>4. \A j \in Inos : inode'[j].count + Holds(call, j)
                        = inode[j].count + Holds(call', j)
  BY <1>1, <1>2, <1>3 DEF CountsPlus
<1> QED BY <1>2, <1>4, CallStep

LEMMA DropStep ==
    ASSUME Inv, UNCHANGED <<fvars, lost>>,
           call.pc \notin {"fd", "put_fte", "twice"},
           call'.pc \notin {"fd", "put_fte", "twice"},
           CallOK', ImapOK', LostOK',
           NEW i \in Inos, ipool_puti(i),
           \A j \in Inos : Holds(call, j) = Holds(call', j) + (IF j = i THEN 1 ELSE 0)
    PROVE  Inv'
<1>1. \A j \in Inos : inode[j].count \in Nat /\ inode[j].count >= Holds(call, j)
  BY CountBound
<1>2. \A j \in Inos : Holds(call', j) \in Nat
  BY HoldsInt
<1>3. inode[i].count >= 1
  BY <1>1, <1>2
<1>4. PoolOK' /\ CountsPlus(i, -1)
  BY <1>3, PutiPool DEF Inv, PoolOK
<1>5. \A j \in Inos : inode'[j].count + Holds(call, j)
                        = inode[j].count + Holds(call', j)
  BY <1>1, <1>2, <1>4 DEF CountsPlus
<1> QED BY <1>4, <1>5, CallStep

LEMMA KeepStep ==
    ASSUME Inv, UNCHANGED <<fvars, lost>>,
           call.pc \notin {"fd", "put_fte", "twice"},
           call'.pc \notin {"fd", "put_fte", "twice"},
           CallOK', ImapOK', LostOK', PoolOK', SameCounts,
           \A j \in Inos : Holds(call', j) = Holds(call, j)
    PROVE  Inv'
BY CallStep DEF SameCounts

(* The variables of the call change and nothing else.                      *)
LEMMA PoolKept ==
    ASSUME Inv, call.pc # "twice", UNCHANGED ivars
    PROVE  PoolOK' /\ SameCounts
<1>1. inode' = inode /\ ilink' = ilink
  BY DEF ivars
<1> QED BY <1>1 DEF Inv, PoolOK, PoolType, AllActual, FreeInos, SameCounts

LEMMA ImapKept ==
    ASSUME Inv, imap' = imap
    PROVE  ImapOK'
BY DEF Inv, ImapOK

LEMMA LostKept ==
    ASSUME Inv, lost' = lost, call'.op = "creat" => call.op = "creat"
    PROVE  LostOK'
BY DEF Inv, LostOK

-----------------------------------------------------------------------------
(* The steps of the walk                                                   *)

LEMMA StartInv ==
    ASSUME Inv, NEW op \in {"open", "creat"}, Start(op),
           op = "creat" => \A i \in Inos : inode[i].count <= MaxCount
    PROVE  Inv'
<1>1. /\ call.pc = "idle" /\ op \in Calls
      /\ UNCHANGED <<ivars, fvars, imap, lost>>
  BY DEF Start
<1>2. /\ DOMAIN call' = Fields /\ call'.pc = "root" /\ call'.op = op
      /\ call'.wino = NULL /\ call'.new = NULL /\ call'.pdir = NULL
      /\ call'.entry = NULL
  BY DEF Start, Idle, Fields
<1>3. PoolOK' /\ SameCounts
  BY <1>1, PoolKept
<1>4. CallOK'
  BY <1>1, <1>2, INodesFacts, FNodesFacts DEF CallOK, Labels
<1>5. call.wino = NULL /\ call.new = NULL /\ call.pdir = NULL
  BY <1>1 DEF Inv, CallOK
<1>6. \A i \in Inos : Holds(call, i) = 0 /\ Holds(call', i) = 0
  BY <1>2, <1>5, INodesFacts DEF Holds, One
<1>7. LostOK'
  <2>1. \A i \in Inos : op = "creat" => lost[i] <= MaxCount
    <3>1. \A i \in Inos : /\ lost[i] \in Nat /\ inode[i].count \in Nat
                          /\ lost[i] <= inode[i].count
      BY <1>1, CountBound DEF Inv, LostOK
    <3> QED BY <3>1, UIntAssumption
  <2> QED BY <1>1, <1>2, <2>1 DEF Inv, LostOK
<1> QED BY <1>1, <1>2, <1>3, <1>4, <1>6, <1>7, KeepStep, ImapKept

LEMMA RootInv ==
    ASSUME Inv, Root
    PROVE  Inv'
<1>1. /\ call.pc = "root" /\ call.wino = NULL /\ call.new = NULL
      /\ call.pdir = NULL /\ call.entry = NULL /\ DOMAIN call = Fields
      /\ call.op \in Calls \cap {"open", "creat"}
      /\ UNCHANGED <<fvars, imap, lost>>
      /\ ROOT \in InoNums
      /\ PoolOK
  BY NumsFacts DEF Root, Inv, CallOK, PoolOK
<1>2. \A i \in Inos : Holds(call, i) = 0
  BY <1>1, INodesFacts DEF Holds, One
<1>3. ASSUME NEW i \in Inos, ipool_geti(ROOT, i),
             call' = [call EXCEPT !.wino = i, !.pc = "walk"]
      PROVE  Inv'
  <2>1. /\ DOMAIN call' = Fields /\ call'.pc = "walk" /\ call'.op = call.op
        /\ call'.wino = i /\ call'.new = NULL /\ call'.pdir = NULL
        /\ call'.entry = NULL
    BY <1>1, <1>3 DEF Fields
  <2>2. CallOK'
    BY <1>1, <2>1, INodesFacts, FNodesFacts DEF CallOK, Labels
  <2>3. \A j \in Inos : Holds(call', j) = Holds(call, j) + (IF j = i THEN 1 ELSE 0)
    BY <1>2, <2>1, INodesFacts DEF Holds, One
  <2>4. LostOK' /\ ImapOK'
    BY <1>1, <2>1, LostKept, ImapKept
  <2> QED BY <1>1, <1>3, <2>1, <2>2, <2>3, <2>4, TakeStep
<1>4. ASSUME PoolOK', SameCounts, call' \in {Idle, Go("spin")}
      PROVE  Inv'
  <2>1. /\ DOMAIN call' = Fields /\ call'.pc \in {"idle", "spin"}
        /\ call'.op = IF call'.pc = "idle" THEN "none" ELSE call.op
        /\ call'.wino = NULL /\ call'.new = NULL /\ call'.pdir = NULL
        /\ call'.entry = NULL
    BY <1>1, <1>4 DEF Fields, Idle, Go
  <2>2. CallOK'
    BY <1>1, <2>1, INodesFacts, FNodesFacts DEF CallOK, Labels
  <2>3. \A j \in Inos : Holds(call', j) = Holds(call, j)
    BY <1>2, <2>1, INodesFacts DEF Holds, One
  <2>4. LostOK' /\ ImapOK'
    BY <1>1, <2>1, LostKept, ImapKept
  <2> QED BY <1>1, <1>4, <2>1, <2>2, <2>3, <2>4, KeepStep
<1>5. CASE geti_null(ROOT) /\ call' = Idle
  BY <1>1, <1>4, <1>5, GetiNullPool
<1>6. CASE geti_spins(ROOT) /\ call' = Go("spin")
  BY <1>1, <1>4, <1>6, PoolKept DEF geti_spins
<1> QED BY <1>3, <1>5, <1>6 DEF Root

(* Only the place in the code changes, or what is left of the path.        *)
LEMMA OnlyCallInv ==
    ASSUME Inv, call.pc \notin {"fd", "put_fte", "twice"},
           call'.pc \notin {"fd", "put_fte", "twice"},
           UNCHANGED <<ivars, fvars, imap, lost>>,
           CallOK', call'.op = call.op, call'.wino = call.wino,
           call'.new = call.new, call'.pdir = call.pdir, call'.entry = call.entry
    PROVE  Inv'
<1>1. PoolOK' /\ SameCounts
  BY PoolKept
<1>2. \A i \in Inos : Holds(call', i) = Holds(call, i)
  BY DEF Holds
<1>3. LostOK' /\ ImapOK'
  BY LostKept, ImapKept
<1> QED BY <1>1, <1>2, <1>3, KeepStep

LEMMA WalkEndsInv ==
    ASSUME Inv, WalkEnds
    PROVE  Inv'
<1>1. /\ call.pc = "walk" /\ UNCHANGED <<ivars, fvars, imap, lost>>
      /\ DOMAIN call = Fields /\ CallOK
  BY DEF WalkEnds, Inv, CallOK
<1>2. /\ DOMAIN call' = Fields /\ call'.pc = "found" /\ call'.op = call.op
      /\ call'.wino = call.wino /\ call'.new = call.new
      /\ call'.pdir = call.pdir /\ call'.entry = call.entry
  BY <1>1 DEF WalkEnds, Go, Fields
<1>3. CallOK'
  BY <1>1, <1>2 DEF CallOK, Labels
<1> QED BY <1>1, <1>2, <1>3, OnlyCallInv

LEMMA WalkStaysInv ==
    ASSUME Inv, WalkStays
    PROVE  Inv'
<1>1. /\ call.pc = "walk" /\ UNCHANGED <<ivars, fvars, imap, lost>>
      /\ DOMAIN call = Fields /\ CallOK /\ MoreComponents
  BY DEF WalkStays, Inv, CallOK
<1>2. /\ DOMAIN call' = Fields /\ call'.pc = "walk" /\ call'.op = call.op
      /\ call'.wino = call.wino /\ call'.new = call.new
      /\ call'.pdir = call.pdir /\ call'.entry = call.entry
  BY <1>1 DEF WalkStays, Fields
<1>3. CallOK'
  BY <1>1, <1>2 DEF CallOK, Labels
<1> QED BY <1>1, <1>2, <1>3, OnlyCallInv

(* The walk fails and gives back the working inode.                        *)
LEMMA GiveUpInv ==
    ASSUME Inv, call.pc \in {"walk", "missing"}, call.pdir = NULL,
           ipool_puti(call.wino), call' = Idle, UNCHANGED <<fvars, imap, lost>>
    PROVE  Inv'
<1> DEFINE i == call.wino
<1>1. /\ i \in Inos /\ call.new = NULL /\ call.pdir = NULL
      /\ call.entry = NULL
  BY INodesFacts DEF Inv, CallOK
<1>2. /\ DOMAIN call' = Fields /\ call'.pc = "idle" /\ call'.op = "none"
      /\ call'.wino = NULL /\ call'.new = NULL /\ call'.pdir = NULL
      /\ call'.entry = NULL
  BY DEF Fields, Idle
<1>3. CallOK'
  BY <1>2, INodesFacts, FNodesFacts DEF CallOK, Labels
<1>4. \A j \in Inos : Holds(call, j) = Holds(call', j) + (IF j = i THEN 1 ELSE 0)
  BY <1>1, <1>2, INodesFacts DEF Holds, One
<1>5. LostOK' /\ ImapOK'
  BY <1>2, LostKept, ImapKept
<1> QED BY <1>1, <1>2, <1>3, <1>4, <1>5, DropStep

LEMMA LookupInv ==
    ASSUME Inv, Lookup
    PROVE  Inv'
<1> DEFINE w == call.wino
<1>1. /\ call.pc = "walk" /\ MoreComponents /\ Walkable
      /\ w \in Inos /\ call.new = NULL /\ call.pdir = NULL
      /\ call.entry = NULL /\ DOMAIN call = Fields
      /\ call.op \in Calls \cap {"open", "creat"}
      /\ UNCHANGED <<fvars, imap, lost>>
      /\ PoolOK
  BY INodesFacts DEF Lookup, Inv, CallOK, PoolOK
<1>2. \A j \in Inos : Holds(call, j) = IF j = w THEN 1 ELSE 0
  BY <1>1, INodesFacts DEF Holds, One
<1>3. \A j \in Inos : /\ inode[j].count \in Nat /\ inode[j].count + 1 < UINT_MOD
                      /\ inode[j].count >= Holds(call, j)
  BY <1>1, CountBound
<1>4. ASSUME PoolOK', SameCounts, call' \in {Go("missing"), Go("spin")}
      PROVE  Inv'
  <2>1. /\ DOMAIN call' = Fields /\ call'.pc \in {"missing", "spin"}
        /\ call'.op = call.op /\ call'.wino = w /\ call'.new = NULL
        /\ call'.pdir = NULL /\ call'.entry = NULL
    BY <1>1, <1>4 DEF Fields, Go
  <2>2. CallOK'
    BY <1>1, <2>1, INodesFacts, FNodesFacts DEF CallOK, Labels
  <2>3. \A j \in Inos : Holds(call', j) = Holds(call, j)
    BY <1>1, <2>1 DEF Holds
  <2>4. LostOK' /\ ImapOK'
    BY <1>1, <2>1, LostKept, ImapKept
  <2> QED BY <1>1, <1>4, <2>1, <2>2, <2>3, <2>4, KeepStep
<1>5. ASSUME NEW i \in Inos, PoolOK', CountsPlus(i, 1),
             call' = [call EXCEPT !.new = i, !.pc = "enter"]
      PROVE  Inv'
  <2>1. /\ DOMAIN call' = Fields /\ call'.pc = "enter" /\ call'.op = call.op
        /\ call'.wino = w /\ call'.new = i
        /\ call'.pdir = NULL /\ call'.entry = NULL
    BY <1>1, <1>5 DEF Fields
  <2>2. CallOK'
    BY <1>1, <2>1, INodesFacts, FNodesFacts DEF CallOK, Labels
  <2>3. \A j \in Inos : Holds(call', j) = Holds(call, j) + (IF j = i THEN 1 ELSE 0)
    BY <1>1, <2>1, INodesFacts DEF Holds, One
  <2>4. LostOK' /\ ImapOK'
    BY <1>1, <2>1, LostKept, ImapKept
  <2>5. \A j \in Inos : inode'[j].count + Holds(call, j)
                          = inode[j].count + Holds(call', j)
    BY <1>2, <1>3, <1>5, <2>3 DEF CountsPlus
  <2> QED BY <1>1, <1>5, <2>1, <2>2, <2>4, <2>5, CallStep
<1>6. CASE call' = Go("missing") /\ UNCHANGED ivars
  BY <1>1, <1>4, <1>6, PoolKept
<1>7. ASSUME Name \in DOMAIN Entries, NEW n, n = Entries[Name],
             n = inode[w].num,
             inode' = [inode EXCEPT ![w].count = Plus(@)],
             call' = [call EXCEPT !.new = w, !.pc = "enter"],
             UNCHANGED ilink
      PROVE  Inv'
  <2>1. PoolOK' /\ CountsPlus(w, 1)
    <3>1. Plus(inode[w].count) = inode[w].count + 1
          /\ inode[w].count + 1 \in 0..(UINT_MOD - 1)
      BY <1>1, <1>3, PlusMinus
    <3>2. inode \in [Inos -> InodeRec] /\ inode' = [inode EXCEPT ![w].count = inode[w].count + 1]
      BY <1>1, <1>7, <3>1 DEF PoolOK, PoolType
    <3>3. /\ inode' \in [Inos -> InodeRec]
          /\ \A j \in Inos : j # w => inode'[j] = inode[j]
          /\ inode'[w].count = inode[w].count + 1
          /\ inode'[w].num = inode[w].num
          /\ inode'[w].valid = inode[w].valid /\ inode'[w].dinode = inode[w].dinode
      BY <1>1, <3>1, <3>2 DEF InodeRec
    <3>4. CountsPlus(w, 1)
      BY <1>3, <3>3 DEF CountsPlus
    <3>5. FreeInos' = FreeInos
      <4>1. inode[w].count # 0 /\ inode'[w].count # 0
        BY <1>1, <1>2, <1>3, <3>3
      <4> QED BY <3>3, <4>1 DEF FreeInos
    <3>6. AllActual'
      BY <1>1, <3>3 DEF AllActual, PoolOK
    <3> QED BY <1>1, <1>7, <3>3, <3>4, <3>5, <3>6 DEF PoolOK, PoolType
  <2> QED BY <1>1, <1>5, <1>7, <2>1
<1>8. ASSUME Name \in DOMAIN Entries, NEW n, n = Entries[Name]
      PROVE  n \in InoNums
  <2>1. inode[w].dinode \in DOMAIN Tree
    BY <1>1 DEF Walkable, inode_is_dir
  <2> QED BY <1>8, <2>1, NumsFacts DEF Entries
<1>9. ASSUME Name \in DOMAIN Entries, NEW n, n = Entries[Name],
             NEW i \in Inos, ipool_geti(n, i),
             call' = [call EXCEPT !.new = i, !.pc = "enter"]
      PROVE  Inv'
  <2>1. n \in InoNums
    BY <1>8, <1>9
  <2>2. PoolOK' /\ CountsPlus(i, 1)
    BY <1>1, <1>3, <1>9, <2>1, GetiPool
  <2> QED BY <1>5, <1>9, <2>2
<1>10. ASSUME Name \in DOMAIN Entries, NEW n, n = Entries[Name],
              geti_null(n), call' = Go("missing")
       PROVE  Inv'
  <2>1. n \in InoNums
    BY <1>8, <1>10
  <2>2. PoolOK' /\ SameCounts
    BY <1>1, <1>10, <2>1, GetiNullPool
  <2> QED BY <1>4, <1>10, <2>2
<1>11. ASSUME NEW n, geti_spins(n), call' = Go("spin")
       PROVE  Inv'
  BY <1>1, <1>4, <1>11, PoolKept DEF geti_spins
<1> QED BY <1>6, <1>7, <1>9, <1>10, <1>11 DEF Lookup

LEMMA WalkRefusedInv ==
    ASSUME Inv, WalkRefused
    PROVE  Inv'
<1>1. /\ call.pc = "walk" /\ MoreComponents
      /\ ipool_puti(call.wino) /\ call' = Idle /\ UNCHANGED <<fvars, imap, lost>>
  BY DEF WalkRefused
<1> QED BY <1>1, GiveUpInv DEF Inv, CallOK

LEMMA MissingInv ==
    ASSUME Inv, Missing
    PROVE  Inv'
<1>1. /\ call.pc = "missing" /\ call.pdir = NULL
      /\ call.wino \in Inos /\ call.new = NULL
      /\ call.entry = NULL /\ DOMAIN call = Fields
      /\ call.op \in Calls \cap {"open", "creat"}
      /\ UNCHANGED <<fvars, imap, lost>>
  BY INodesFacts DEF Missing, Inv, CallOK
<1>2. CASE keep_pdir_ino
  <2>1. /\ call' = [call EXCEPT !.pdir = call.wino, !.wino = NULL, !.pc = "alloci"]
        /\ UNCHANGED ivars /\ call.op = "creat"
    BY <1>2 DEF Missing, keep_pdir_ino
  <2>2. /\ DOMAIN call' = Fields /\ call'.pc = "alloci" /\ call'.op = "creat"
        /\ call'.wino = NULL /\ call'.new = NULL /\ call'.pdir = call.wino
        /\ call'.entry = NULL
    BY <1>1, <2>1 DEF Fields
  <2>3. CallOK'
    BY <1>1, <2>1, <2>2, INodesFacts, FNodesFacts DEF CallOK, Labels
  <2>4. PoolOK' /\ SameCounts
    BY <1>1, <2>1, PoolKept
  <2>5. \A j \in Inos : Holds(call', j) = Holds(call, j)
    BY <1>1, <2>2, INodesFacts DEF Holds, One
  <2>6. LostOK' /\ ImapOK'
    BY <1>1, <2>1, LostKept, ImapKept
  <2> QED BY <1>1, <2>2, <2>3, <2>4, <2>5, <2>6, KeepStep
<1>3. CASE ~keep_pdir_ino
  BY <1>1, <1>3, GiveUpInv DEF Missing
<1> QED BY <1>2, <1>3

LEMMA EnterInv ==
    ASSUME Inv, Enter
    PROVE  Inv'
<1> DEFINE w == call.wino
           n == call.new
<1>1. /\ call.pc = "enter" /\ call.pdir = NULL
      /\ w \in Inos /\ n \in Inos
      /\ call.entry = NULL /\ DOMAIN call = Fields
      /\ call.op \in Calls \cap {"open", "creat"}
      /\ UNCHANGED <<fvars, imap, lost>>
      /\ PoolOK
  BY DEF Enter, Inv, CallOK, PoolOK
<1>2. /\ DOMAIN call' = Fields /\ call'.pc = "walk" /\ call'.op = call.op
      /\ call'.wino = n /\ call'.new = NULL
      /\ call'.pdir = IF keep_pdir_ino THEN w ELSE NULL
      /\ call'.entry = NULL /\ call'.rest = rest(call.rest)
  BY <1>1 DEF Enter, Fields
<1>3. CallOK'
  BY <1>1, <1>2, INodesFacts, FNodesFacts
     DEF CallOK, Labels, MoreComponents, keep_pdir_ino
<1>4. LostOK' /\ ImapOK'
  BY <1>1, <1>2, LostKept, ImapKept
<1>5. CASE keep_pdir_ino
  <2>1. PoolOK' /\ SameCounts
    BY <1>1, <1>5, PoolKept DEF Enter
  <2>2. \A j \in Inos : Holds(call', j) = Holds(call, j)
    BY <1>1, <1>2, <1>5, INodesFacts DEF Holds, One
  <2> QED BY <1>1, <1>2, <1>3, <1>4, <2>1, <2>2, KeepStep
<1>6. CASE ~keep_pdir_ino
  <2>1. \A j \in Inos : Holds(call, j) = Holds(call', j) + (IF j = w THEN 1 ELSE 0)
    BY <1>1, <1>2, <1>6, INodesFacts DEF Holds, One
  <2>2. ipool_puti(w)
    BY <1>6 DEF Enter
  <2> QED BY <1>1, <1>2, <1>3, <1>4, <2>1, <2>2, DropStep
<1> QED BY <1>5, <1>6

-----------------------------------------------------------------------------
(* The steps of minix3_alloci() and fs_creat()                             *)

LEMMA BitType ==
    ASSUME NEW n \in Nat
    PROVE  Bit(n) \in [blk : Nat, byte : 0..(BLOCK_SIZE - 1), bit : 0..(BYTE - 1)]
<1>1. BLOCK_SIZE \in Nat \ {0} /\ BYTE \in Nat \ {0}
  BY LayoutAssumption
<1>2. BITS_PER_BLOCK \in Nat \ {0} /\ BITS_PER_BLOCK = BYTE * BLOCK_SIZE
  <2>1. BYTE * BLOCK_SIZE \in Nat \ {0}
    BY <1>1
  <2> QED BY <2>1 DEF BITS_PER_BLOCK
<1> DEFINE b == n % BITS_PER_BLOCK
<1>3. n \div BITS_PER_BLOCK \in Nat /\ b \in 0..(BITS_PER_BLOCK - 1)
  BY <1>2, DivMod
<1> HIDE DEF b
<1>4. b \in Nat /\ b < BYTE * BLOCK_SIZE
  BY <1>2, <1>3
<1> DEFINE q == b \div BYTE
<1>5. /\ q \in Nat /\ b % BYTE \in 0..(BYTE - 1)
      /\ b = q * BYTE + (b % BYTE)
  BY <1>1, <1>4, DivMod
<1> HIDE DEF q
<1>6. q < BLOCK_SIZE
  <2>1. ASSUME q >= BLOCK_SIZE PROVE FALSE
    <3>1. q * BYTE >= BLOCK_SIZE * BYTE
      BY <1>1, <1>5, <2>1
    <3>2. b % BYTE >= 0 /\ b % BYTE \in Int
      BY <1>1, <1>5
    <3> QED BY <1>1, <1>4, <1>5, <3>1, <3>2
  <2> QED BY <1>1, <1>5, <2>1
<1>7. 2 + n \div BITS_PER_BLOCK \in Nat /\ q \in 0..(BLOCK_SIZE - 1)
  BY <1>1, <1>3, <1>5, <1>6
<1> QED BY <1>5, <1>7 DEF Bit, b, q, MINIX3_IMAP_STARTING_BLK_NUM

LEMMA AllociInv ==
    ASSUME Inv, Alloci
    PROVE  Inv'
<1>1. /\ call.pc = "alloci" /\ call.pdir \in Inos /\ call.wino = NULL
      /\ call.new = NULL /\ call.entry = NULL /\ DOMAIN call = Fields
      /\ call.op \in Calls \cap {"open", "creat"} /\ call.op = "creat"
      /\ UNCHANGED <<fvars, imap, lost>>
      /\ PoolOK
  BY INodesFacts DEF Alloci, Inv, CallOK, PoolOK
<1>4. ASSUME PoolOK', SameCounts, call' \in {Go("put_pdir"), Go("spin")}
      PROVE  Inv'
  <2>1. /\ DOMAIN call' = Fields /\ call'.pc \in {"put_pdir", "spin"}
        /\ call'.op = call.op /\ call'.wino = NULL /\ call'.new = NULL
        /\ call'.pdir = call.pdir /\ call'.entry = NULL
    BY <1>1, <1>4 DEF Fields, Go
  <2>2. CallOK'
    BY <1>1, <2>1, INodesFacts, FNodesFacts DEF CallOK, Labels
  <2>3. \A j \in Inos : Holds(call', j) = Holds(call, j)
    BY <1>1, <2>1 DEF Holds
  <2>4. LostOK' /\ ImapOK'
    BY <1>1, <2>1, LostKept, ImapKept
  <2> QED BY <1>1, <1>4, <2>1, <2>2, <2>3, <2>4, KeepStep
<1>5. PICK n \in minix3_imap_get_free(imap, ~FaultyReads) :
        IF n = 0 THEN call' = Go("put_pdir") /\ UNCHANGED ivars
        ELSE \/ \E i \in Inos : /\ ipool_geti(n, i)
                               /\ call' = [call EXCEPT !.wino = i, !.pc = "seti"]
             \/ geti_null(n) /\ call' = Go("put_pdir")
             \/ geti_spins(n) /\ call' = Go("spin")
  BY DEF Alloci
<1>6. CASE n = 0
  BY <1>1, <1>4, <1>5, <1>6, PoolKept
<1>7. CASE n # 0
  <2>1. n \in InoNums
    <3>1. n \in 0..(NumInodes - 1) \cup {0}
      BY DEF minix3_imap_get_free
    <3> QED BY <1>7, <3>1, LayoutAssumption, FsAssumption
  <2>2. ASSUME NEW i \in Inos, ipool_geti(n, i),
               call' = [call EXCEPT !.wino = i, !.pc = "seti"]
        PROVE  Inv'
    <3>1. /\ DOMAIN call' = Fields /\ call'.pc = "seti" /\ call'.op = call.op
          /\ call'.wino = i /\ call'.new = NULL
          /\ call'.pdir = call.pdir /\ call'.entry = NULL
      BY <1>1, <2>2 DEF Fields
    <3>2. CallOK'
      BY <1>1, <3>1, INodesFacts, FNodesFacts DEF CallOK, Labels
    <3>3. \A j \in Inos : Holds(call', j) = Holds(call, j) + (IF j = i THEN 1 ELSE 0)
      BY <1>1, <3>1, INodesFacts DEF Holds, One
    <3>4. LostOK' /\ ImapOK'
      BY <1>1, <3>1, LostKept, ImapKept
    <3> QED BY <1>1, <2>1, <2>2, <3>1, <3>2, <3>3, <3>4, TakeStep
  <2>3. CASE geti_null(n) /\ call' = Go("put_pdir")
    BY <1>1, <1>4, <2>1, <2>3, GetiNullPool
  <2>4. CASE geti_spins(n) /\ call' = Go("spin")
    BY <1>1, <1>4, <2>4, PoolKept DEF geti_spins
  <2> QED BY <1>5, <1>7, <2>2, <2>3, <2>4
<1> QED BY <1>6, <1>7

LEMMA SetiInv ==
    ASSUME Inv, Seti
    PROVE  Inv'
<1> DEFINE w == call.wino
<1>1. /\ call.pc = "seti" /\ call.pdir \in Inos /\ w \in Inos
      /\ call.new = NULL /\ call.entry = NULL /\ DOMAIN call = Fields
      /\ call.op \in Calls \cap {"open", "creat"} /\ call.op = "creat"
      /\ UNCHANGED <<fvars, lost>>
      /\ PoolOK
  BY INodesFacts DEF Seti, Inv, CallOK, PoolOK
<1>2. ASSUME NEW label \in {"abort", "linked"}, call' = Go(label),
             UNCHANGED ivars, ImapOK'
      PROVE  Inv'
  <2>1. /\ DOMAIN call' = Fields /\ call'.pc = label /\ call'.op = call.op
        /\ call'.wino = w /\ call'.new = NULL
        /\ call'.pdir = call.pdir /\ call'.entry = NULL
    BY <1>1, <1>2 DEF Fields, Go
  <2>2. CallOK'
    BY <1>1, <2>1, INodesFacts, FNodesFacts DEF CallOK, Labels
  <2>3. \A j \in Inos : Holds(call', j) = Holds(call, j)
    BY <1>1, <2>1 DEF Holds
  <2>4. LostOK'
    BY <1>1, <2>1, LostKept
  <2> QED BY <1>1, <1>2, <2>1, <2>2, <2>3, <2>4, PoolKept, KeepStep
<1>3. CASE inode[w].count # 1
  <2>1. call' = Go("abort") /\ UNCHANGED <<ivars, imap>>
    BY <1>3 DEF Seti
  <2> QED BY <1>2, <2>1, ImapKept
<1>4. ASSUME minix3_imap_set(inode[w].num), call' = Go("linked"), UNCHANGED ivars
      PROVE  Inv'
  <2>1. inode[w].num \in Nat
    BY <1>1 DEF PoolOK, PoolType, InodeRec
  <2>2. ImapOK'
    BY <1>4, <2>1, BitType DEF minix3_imap_set, ImapOK, Inv
  <2> QED BY <1>2, <1>4, <2>2
<1>5. ASSUME ipool_puti(w), UNCHANGED imap,
             call' = [call EXCEPT !.wino = NULL, !.pc = "put_pdir"]
      PROVE  Inv'
  <2>1. /\ DOMAIN call' = Fields /\ call'.pc = "put_pdir" /\ call'.op = call.op
        /\ call'.wino = NULL /\ call'.new = NULL
        /\ call'.pdir = call.pdir /\ call'.entry = NULL
    BY <1>1, <1>5 DEF Fields
  <2>2. CallOK'
    BY <1>1, <2>1, INodesFacts, FNodesFacts DEF CallOK, Labels
  <2>3. \A j \in Inos : Holds(call, j) = Holds(call', j) + (IF j = w THEN 1 ELSE 0)
    BY <1>1, <2>1, INodesFacts DEF Holds, One
  <2>4. LostOK' /\ ImapOK'
    BY <1>1, <1>5, <2>1, LostKept, ImapKept
  <2> QED BY <1>1, <1>5, <2>1, <2>2, <2>3, <2>4, DropStep
<1> QED BY <1>3, <1>4, <1>5 DEF Seti

LEMMA LinkedInv ==
    ASSUME Inv, Linked
    PROVE  Inv'
<1>1. /\ call.pc = "linked" /\ call.pdir \in Inos /\ call.wino \in Inos
      /\ call.new = NULL /\ call.entry = NULL /\ DOMAIN call = Fields
      /\ call.op \in Calls \cap {"open", "creat"}
      /\ ipool_puti(call.pdir)
      /\ UNCHANGED <<fvars, imap, lost>>
  BY INodesFacts DEF Linked, Inv, CallOK
<1>2. /\ DOMAIN call' = Fields /\ call'.pc = "fte" /\ call'.op = call.op
      /\ call'.wino = call.wino /\ call'.new = NULL
      /\ call'.pdir = NULL /\ call'.entry = NULL
  BY <1>1 DEF Linked, Fields
<1>3. CallOK'
  BY <1>1, <1>2, INodesFacts, FNodesFacts DEF CallOK, Labels
<1>4. \A j \in Inos : Holds(call, j) = Holds(call', j) + (IF j = call.pdir THEN 1 ELSE 0)
  BY <1>1, <1>2, INodesFacts DEF Holds, One
<1>5. LostOK' /\ ImapOK'
  BY <1>1, <1>2, LostKept, ImapKept
<1> QED BY <1>1, <1>2, <1>3, <1>4, <1>5, DropStep

LEMMA FoundInv ==
    ASSUME Inv, Found
    PROVE  Inv'
<1>1. /\ call.pc = "found" /\ call.wino \in Inos
      /\ call.new = NULL /\ call.entry = NULL /\ DOMAIN call = Fields
      /\ call.op \in Calls \cap {"open", "creat"}
      /\ UNCHANGED <<fvars, imap, lost>>
      /\ PoolOK
  BY INodesFacts DEF Found, Inv, CallOK, PoolOK
<1>2. /\ DOMAIN call' = Fields /\ call'.pc = "fte" /\ call'.op = call.op
      /\ call'.wino = call.wino /\ call'.new = NULL
      /\ call'.pdir = call.pdir /\ call'.entry = NULL
  BY <1>1 DEF Found, Fields, Go
<1>3. CallOK'
  BY <1>1, <1>2, INodesFacts, FNodesFacts DEF CallOK, Labels, Inv
<1>4. PoolOK' /\ SameCounts
  <2>1. CASE call.op = "open"
    BY <1>1, <2>1, LockPool DEF Found, inode_unlock
  <2>2. CASE call.op # "open"
    BY <1>1, <2>2, PoolKept DEF Found
  <2> QED BY <2>1, <2>2
<1>5. \A j \in Inos : Holds(call', j) = Holds(call, j)
  BY <1>1, <1>2 DEF Holds
<1>6. LostOK' /\ ImapOK'
  BY <1>1, <1>2, LostKept, ImapKept
<1> QED BY <1>1, <1>2, <1>3, <1>4, <1>5, <1>6, KeepStep

LEMMA PutPdirInv ==
    ASSUME Inv, PutPdir
    PROVE  Inv'
<1>1. /\ call.pc = "put_pdir" /\ call.pdir \in Inos /\ call.wino = NULL
      /\ call.new = NULL /\ call.entry = NULL
      /\ ipool_puti(call.pdir) /\ call' = Idle
      /\ UNCHANGED <<fvars, imap, lost>>
  BY INodesFacts DEF PutPdir, Inv, CallOK
<1>2. /\ DOMAIN call' = Fields /\ call'.pc = "idle" /\ call'.op = "none"
      /\ call'.wino = NULL /\ call'.new = NULL /\ call'.pdir = NULL
      /\ call'.entry = NULL
  BY <1>1 DEF Fields, Idle
<1>3. CallOK'
  BY <1>2, INodesFacts, FNodesFacts DEF CallOK, Labels
<1>4. \A j \in Inos : Holds(call, j) = Holds(call', j) + (IF j = call.pdir THEN 1 ELSE 0)
  BY <1>1, <1>2, INodesFacts DEF Holds, One
<1>5. LostOK' /\ ImapOK'
  BY <1>1, <1>2, LostKept, ImapKept
<1> QED BY <1>1, <1>2, <1>3, <1>4, <1>5, DropStep

LEMMA PutInoInv ==
    ASSUME Inv, PutIno
    PROVE  Inv'
<1> DEFINE w == call.wino
<1>1. /\ call.pc = "put_ino" /\ w \in Inos /\ call.new = NULL
      /\ DOMAIN call = Fields
      /\ call.pdir \in Inos \cup {NULL} /\ call.entry \in Ftes \cup {NULL}
      /\ call.pdir # NULL => call.op = "creat"
      /\ call.op \in Calls \cap {"open", "creat"}
      /\ ipool_puti(w)
      /\ UNCHANGED <<fvars, imap, lost>>
      /\ PoolOK
  BY INodesFacts DEF PutIno, Inv, CallOK, PoolOK
<1>2. CASE call.entry = NULL
  <2>1. /\ DOMAIN call' = Fields /\ call'.new = NULL /\ call'.wino = NULL
        /\ call'.pdir = call.pdir /\ call'.entry = NULL
        /\ IF call.pdir = NULL THEN call'.pc = "idle" /\ call'.op = "none"
           ELSE call'.pc = "put_pdir" /\ call'.op = call.op
    <3>1. CASE call.pdir = NULL
      BY <1>1, <1>2, <3>1 DEF PutIno, Idle, Fields
    <3>2. CASE call.pdir # NULL
      <4>1. call' = [call EXCEPT !.wino = NULL, !.pc = "put_pdir"]
        BY <1>2, <3>2 DEF PutIno
      <4> QED BY <1>1, <1>2, <3>2, <4>1 DEF Fields
    <3> QED BY <3>1, <3>2
  <2>2. CallOK'
    BY <1>1, <2>1, INodesFacts, FNodesFacts DEF CallOK, Labels
  <2>3. \A j \in Inos : Holds(call, j) = Holds(call', j) + (IF j = w THEN 1 ELSE 0)
    BY <1>1, <1>2, <2>1, INodesFacts DEF Holds, One
  <2>4. LostOK' /\ ImapOK'
    BY <1>1, <2>1, LostKept, ImapKept
  <2> QED BY <1>1, <2>1, <2>2, <2>3, <2>4, DropStep
<1>3. CASE call.entry # NULL
  <2>1. call' = Go("twice")
    BY <1>3 DEF PutIno
  <2>2. /\ DOMAIN call' = Fields /\ call'.pc = "twice" /\ call'.op = call.op
        /\ call'.wino = w /\ call'.new = NULL
        /\ call'.pdir = call.pdir /\ call'.entry = call.entry
    BY <1>1, <2>1 DEF Fields, Go
  <2>3. CallOK'
    BY <1>1, <2>2, INodesFacts, FNodesFacts DEF CallOK, Labels
  <2>4. PoolType' /\ AllActual'
    BY <1>1, PutiTypes DEF PoolOK
  <2>5. LostOK' /\ ImapOK'
    BY <1>1, <2>2, LostKept, ImapKept
  <2>6. TablesOK' /\ EntryOK'
    BY <1>1, <2>2 DEF Inv, TablesOK, FreeFtes, EntryOK, fvars
  <2>7. CountsFds'
    <3>1. \A t \in Ftes : Pending(t) = 0 /\ Pending(t)' = 0
      BY <1>1, <2>2 DEF Pending
    <3>2. fte' = fte /\ \A t \in Ftes : FdsOf(t)' = FdsOf(t)
      BY <1>1 DEF FdsOf, fvars
    <3> QED BY <3>1, <3>2 DEF CountsFds, Inv
  <2> QED BY <2>2, <2>3, <2>4, <2>5, <2>6, <2>7 DEF Inv
<1> QED BY <1>2, <1>3

-----------------------------------------------------------------------------
(* The steps of fs_open() and fs_creat() on the tables                     *)

(* The reference that the call holds becomes the reference of the entry.   *)
LEMMA AllocFteInv ==
    ASSUME Inv, AllocFte
    PROVE  Inv'
<1> DEFINE w == call.wino
<1>1. /\ call.pc = "fte" /\ w \in Inos /\ call.new = NULL /\ call.entry = NULL
      /\ DOMAIN call = Fields /\ call.op \in Calls \cap {"open", "creat"}
      /\ UNCHANGED <<ivars, fd, imap, lost>>
  BY INodesFacts DEF AllocFte, Inv, CallOK
<1>2. PoolOK' /\ SameCounts
  BY <1>1, PoolKept
<1>3. ASSUME NEW t \in Ftes, file_table_alloc_entry(t, w),
             call' = [call EXCEPT !.entry = t, !.pc = "fd"]
      PROVE  Inv'
  <2>1. /\ DOMAIN call' = Fields /\ call'.pc = "fd" /\ call'.op = call.op
        /\ call'.wino = w /\ call'.new = NULL
        /\ call'.pdir = call.pdir /\ call'.entry = t
    BY <1>1, <1>3 DEF Fields
  <2>2. CallOK'
    BY <1>1, <2>1, INodesFacts, FNodesFacts DEF CallOK, Labels, Inv
  <2>3. /\ TablesOK' /\ fte[t].count = 0
        /\ \A u \in Ftes : fte'[u] = IF u = t THEN [count |-> 1, inode |-> w] ELSE fte[u]
        /\ \A j \in Inos : OpenRefs(j)' = OpenRefs(j) + (IF j = w THEN 1 ELSE 0)
    BY <1>1, <1>3, AllocEntry DEF Inv
  <2>4. \A u \in Ftes : /\ fte[u].count = Cardinality(FdsOf(u))
                        /\ FdsOf(u)' = FdsOf(u)
                        /\ Pending(u)' = IF u = t THEN 1 ELSE 0
    <3>1. \A u \in Ftes : Cardinality(FdsOf(u)) \in Nat /\ Pending(u) = 0
      BY <1>1, FdsBounds, FNodesFacts DEF Pending
    <3> QED BY <1>1, <2>1, <3>1 DEF Inv, CountsFds, FdsOf, Pending
  <2>5. \A k \in Fds : fd[k] # t
    BY <2>3, <2>4, FdsBounds
  <2>6. CountsFds'
    <3>1. \A u \in Ftes : Cardinality(FdsOf(u)) \in Nat
      BY FdsBounds, FNodesFacts
    <3>2. ASSUME NEW u \in Ftes
          PROVE  fte'[u].count = Cardinality(FdsOf(u)') + Pending(u)'
      BY <2>3, <2>4, <3>1
    <3> QED BY <3>2 DEF CountsFds
  <2>7. EntryOK'
    BY <1>1, <2>1, <2>3, <2>5 DEF EntryOK
  <2>8. CountsRefs'
    <3>1. ASSUME NEW i \in Inos
          PROVE  inode'[i].count = OpenRefs(i)' + Holds(call', i) + One(i = icrd) + lost'[i]
      <4>1. Holds(call, i) = Holds(call', i) + (IF i = w THEN 1 ELSE 0)
        BY <1>1, <2>1, FNodesFacts DEF Holds, One
      <4>2. /\ OpenRefs(i) \in Nat /\ lost[i] \in Nat /\ One(i = icrd) \in Nat
            /\ Holds(call', i) \in Nat
        BY OpenBounds, FNodesFacts, HoldsInt DEF Inv, LostOK, One
      <4>3. inode[i].count = OpenRefs(i) + Holds(call, i) + One(i = icrd) + lost[i]
        BY <1>1 DEF Inv, CountsRefs
      <4>4. inode'[i].count = inode[i].count /\ lost'[i] = lost[i]
        BY <1>1, <1>2 DEF SameCounts
      <4> QED BY <2>3, <4>1, <4>2, <4>3, <4>4
    <3> QED BY <3>1 DEF CountsRefs
  <2>9. LostOK' /\ ImapOK'
    BY <1>1, <2>1, LostKept, ImapKept
  <2> QED BY <1>2, <2>2, <2>3, <2>6, <2>7, <2>8, <2>9 DEF Inv, PoolOK
<1>4. ASSUME call' = Go("put_ino"), UNCHANGED <<fte, flink>>
      PROVE  Inv'
  <2>1. /\ DOMAIN call' = Fields /\ call'.pc = "put_ino" /\ call'.op = call.op
        /\ call'.wino = w /\ call'.new = NULL
        /\ call'.pdir = call.pdir /\ call'.entry = NULL
    BY <1>1, <1>4 DEF Fields, Go
  <2>2. CallOK'
    BY <1>1, <2>1, INodesFacts, FNodesFacts DEF CallOK, Labels, Inv
  <2>3. UNCHANGED <<ivars, fvars, imap, lost>>
    BY <1>1, <1>4 DEF fvars
  <2> QED BY <1>1, <2>1, <2>2, <2>3, OnlyCallInv
<1> QED BY <1>3, <1>4 DEF AllocFte

(* The descriptor takes the place of the call among those that the entry   *)
(* counts; fs_creat() forgets the directory of a file that existed.        *)
LEMMA AllocFdInv ==
    ASSUME Inv, AllocFd
    PROVE  Inv'
<1> DEFINE w == call.wino
           t == call.entry
<1>1. /\ call.pc = "fd" /\ w \in Inos /\ call.new = NULL /\ t \in Ftes
      /\ call.pdir \in Inos \cup {NULL}
      /\ call.pdir # NULL => call.op = "creat"
      /\ DOMAIN call = Fields /\ call.op \in Calls \cap {"open", "creat"}
      /\ UNCHANGED <<fte, flink, imap>>
      /\ fd \in [Fds -> Ftes \cup {NULL}]
      /\ PoolOK
  BY INodesFacts DEF AllocFd, Inv, CallOK, TablesOK, PoolOK
<1>2. \A i \in Inos : OpenRefs(i)' = OpenRefs(i)
  BY <1>1 DEF OpenRefs
<1>3. ImapOK'
  BY <1>1, ImapKept
<1>4. ASSUME NEW k \in Fds, fd_table_alloc_entry(k, t), call' = Idle,
             lost' = IF call.pdir = NULL THEN lost
                     ELSE [lost EXCEPT ![call.pdir] = @ + 1],
             IF call.op = "creat" THEN inode_unlock(w) ELSE UNCHANGED ivars
      PROVE  Inv'
  <2>1. /\ DOMAIN call' = Fields /\ call'.pc = "idle" /\ call'.op = "none"
        /\ call'.wino = NULL /\ call'.new = NULL
        /\ call'.pdir = NULL /\ call'.entry = NULL
    BY <1>4 DEF Fields, Idle
  <2>2. CallOK'
    BY <1>1, <2>1, INodesFacts, FNodesFacts DEF CallOK, Labels, Inv
  <2>3. /\ fd' \in [Fds -> Ftes \cup {NULL}]
        /\ \A u \in Ftes : Cardinality(FdsOf(u)') =
                             Cardinality(FdsOf(u)) + (IF u = t THEN 1 ELSE 0)
    BY <1>1, <1>4, FdSet DEF fd_table_alloc_entry, IsFreeFd
  <2>4. TablesOK'
    BY <1>1, <2>3 DEF Inv, TablesOK, FreeFtes
  <2>5. CountsFds'
    <3>1. ASSUME NEW u \in Ftes
          PROVE  fte'[u].count = Cardinality(FdsOf(u)') + Pending(u)'
      <4>1. Pending(u) = (IF u = t THEN 1 ELSE 0) /\ Pending(u)' = 0
        BY <1>1, <2>1 DEF Pending
      <4>2. Cardinality(FdsOf(u)) \in Nat
        BY FdsBounds, FNodesFacts
      <4>3. fte'[u].count = Cardinality(FdsOf(u)) + Pending(u)
        BY <1>1 DEF Inv, CountsFds
      <4> QED BY <2>3, <4>1, <4>2, <4>3
    <3> QED BY <3>1 DEF CountsFds
  <2>6. PoolOK' /\ SameCounts
    <3>1. CASE call.op = "creat"
      BY <1>1, <1>4, <3>1, LockPool DEF inode_unlock
    <3>2. CASE call.op # "creat"
      BY <1>1, <1>4, <3>2, PoolKept
    <3> QED BY <3>1, <3>2
  <2>7. /\ lost' \in [Inos -> Nat]
        /\ \A i \in Inos : lost'[i] = lost[i] + One(i = call.pdir)
    <3>1. lost \in [Inos -> Nat]
      BY DEF Inv, LostOK
    <3>2. CASE call.pdir = NULL
      <4>1. lost' = lost /\ \A i \in Inos : i # call.pdir /\ lost[i] \in Nat
        BY <1>4, <3>1, <3>2, INodesFacts
      <4> QED BY <3>1, <4>1 DEF One
    <3>3. CASE call.pdir # NULL
      <4>1. lost' = [lost EXCEPT ![call.pdir] = lost[call.pdir] + 1]
            /\ call.pdir \in Inos
        BY <1>1, <1>4, <3>3
      <4> QED BY <3>1, <4>1 DEF One
    <3> QED BY <3>2, <3>3
  <2>8. LostOK'
    <3>1. MaxCount \in Nat /\ lost \in [Inos -> Nat]
      BY UIntAssumption DEF Inv, LostOK
    <3>2. CASE call.pdir = NULL
      BY <1>4, <2>1, <3>1, <3>2 DEF Inv, LostOK
    <3>3. CASE call.pdir # NULL
      <4>1. \A i \in Inos : lost[i] <= MaxCount
        BY <1>1, <3>3 DEF Inv, LostOK
      <4>2. \A i \in Inos : lost'[i] <= MaxCount + 1
        BY <2>7, <3>1, <4>1 DEF One
      <4> QED BY <2>1, <2>7, <4>2 DEF LostOK
    <3> QED BY <3>2, <3>3
  <2>9. CountsRefs'
    <3>1. ASSUME NEW i \in Inos
          PROVE  inode'[i].count = OpenRefs(i)' + Holds(call', i) + One(i = icrd) + lost'[i]
      <4>1. Holds(call, i) = One(i = call.pdir) /\ Holds(call', i) = 0
        BY <1>1, <2>1, INodesFacts, FNodesFacts DEF Holds, One
      <4>2. /\ OpenRefs(i) \in Nat /\ lost[i] \in Nat /\ One(i = icrd) \in Nat
            /\ One(i = call.pdir) \in Nat
        BY OpenBounds, FNodesFacts DEF Inv, LostOK, One
      <4>3. inode[i].count = OpenRefs(i) + Holds(call, i) + One(i = icrd) + lost[i]
        BY <1>1 DEF Inv, CountsRefs
      <4>4. inode'[i].count = inode[i].count
        BY <2>6 DEF SameCounts
      <4> QED BY <1>2, <2>7, <4>1, <4>2, <4>3, <4>4
    <3> QED BY <3>1 DEF CountsRefs
  <2>10. EntryOK'
    BY <2>1 DEF EntryOK
  <2> QED BY <1>3, <2>2, <2>4, <2>5, <2>6, <2>8, <2>9, <2>10 DEF Inv, PoolOK
<1>5. ASSUME call' = Go("put_fte"), UNCHANGED <<fd, ivars, lost>>
      PROVE  Inv'
  <2>1. /\ DOMAIN call' = Fields /\ call'.pc = "put_fte" /\ call'.op = call.op
        /\ call'.wino = w /\ call'.new = NULL
        /\ call'.pdir = call.pdir /\ call'.entry = t
    BY <1>1, <1>5 DEF Fields, Go
  <2>2. CallOK'
    BY <1>1, <2>1, INodesFacts, FNodesFacts DEF CallOK, Labels, Inv
  <2>3. PoolOK' /\ SameCounts
    BY <1>1, <1>5, PoolKept
  <2>4. TablesOK' /\ EntryOK'
    BY <1>1, <1>5, <2>1 DEF Inv, TablesOK, FreeFtes, EntryOK
  <2>5. CountsFds'
    BY <1>1, <1>5, <2>1 DEF Inv, CountsFds, Pending, FdsOf
  <2>6. CountsRefs'
    <3>1. \A i \in Inos : Holds(call', i) = Holds(call, i)
      BY <1>1, <2>1 DEF Holds
    <3>2. ASSUME NEW i \in Inos
          PROVE  inode'[i].count = OpenRefs(i)' + Holds(call', i) + One(i = icrd) + lost'[i]
      <4>1. inode[i].count = OpenRefs(i) + Holds(call, i) + One(i = icrd) + lost[i]
        BY <1>1 DEF Inv, CountsRefs
      <4>2. lost'[i] = lost[i] /\ inode'[i].count = inode[i].count
        BY <1>5, <2>3 DEF SameCounts
      <4> QED BY <1>2, <3>1, <4>1, <4>2
    <3> QED BY <3>2 DEF CountsRefs
  <2>7. LostOK'
    BY <1>5, <2>1, LostKept
  <2> QED BY <1>3, <2>2, <2>3, <2>4, <2>5, <2>6, <2>7 DEF Inv, PoolOK
<1> QED BY <1>4, <1>5 DEF AllocFd

(* An entry that is referenced refers to an inode that is.                 *)
LEMMA EntryReferences ==
    ASSUME Inv, call.pc # "twice", NEW t \in Ftes, fte[t].count # 0
    PROVE  fte[t].inode \in Inos /\ inode[fte[t].inode].count >= 1
<1> DEFINE i == fte[t].inode
<1>1. i \in Inos
  BY DEF Inv, TablesOK
<1>2. t \in OpenSet(i) /\ IsFiniteSet(OpenSet(i))
  BY OpenBounds DEF OpenSet
<1>3. Cardinality(OpenSet(i)) # 0
  BY <1>2, FS_EmptySet
<1>4. OpenRefs(i) \in Nat /\ OpenRefs(i) # 0
  BY <1>3, OpenBounds, FNodesFacts
<1>5. inode[i].count >= Holds(call, i) + OpenRefs(i) /\ inode[i].count \in Nat
      /\ Holds(call, i) \in Nat
  BY <1>1, CountBound, HoldsInt
<1> QED BY <1>1, <1>4, <1>5

(* One reference to an entry is dropped: with the last one, the reference  *)
(* of the entry to its inode.                                              *)
LEMMA ReleaseStep ==
    ASSUME Inv, call.pc # "twice", NEW t \in Ftes, fte[t].count >= 1,
           file_table_release_entry(t), fd' \in [Fds -> Ftes \cup {NULL}],
           lost' = lost, \A i \in Inos : Holds(call', i) = Holds(call, i)
    PROVE  /\ PoolOK' /\ CountsRefs' /\ TablesOK'
           /\ \A u \in Ftes : /\ fte'[u].inode = fte[u].inode
                              /\ fte'[u].count = fte[u].count - (IF u = t THEN 1 ELSE 0)
<1> DEFINE i == fte[t].inode
           last == fte[t].count = 1
<1>1. /\ TablesOK' /\ i \in Inos
      /\ IF last THEN ipool_puti(i) ELSE UNCHANGED ivars
      /\ \A u \in Ftes : /\ fte'[u].inode = fte[u].inode
                         /\ fte'[u].count = fte[u].count - (IF u = t THEN 1 ELSE 0)
      /\ \A j \in Inos : OpenRefs(j)' = OpenRefs(j) - (IF j = i /\ last THEN 1 ELSE 0)
  BY ReleaseEntry DEF Inv
<1>2. PoolOK /\ inode[i].count >= 1
  BY EntryReferences, FNodesFacts DEF Inv, PoolOK
<1>3. /\ PoolOK'
      /\ \A j \in Inos : inode'[j].count =
                            inode[j].count - (IF j = i /\ last THEN 1 ELSE 0)
  <2>1. \A j \in Inos : inode[j].count \in Nat
    BY CountBound
  <2>2. CASE last
    <3>1. PoolOK' /\ CountsPlus(i, -1)
      BY <1>1, <1>2, <2>2, PutiPool
    <3> QED BY <2>1, <2>2, <3>1 DEF CountsPlus
  <2>3. CASE ~last
    <3>1. PoolOK' /\ SameCounts
      BY <1>1, <2>3, PoolKept
    <3> QED BY <2>1, <2>3, <3>1 DEF SameCounts
  <2> QED BY <2>2, <2>3
<1>4. CountsRefs'
  <2>1. ASSUME NEW j \in Inos
        PROVE  inode'[j].count = OpenRefs(j)' + Holds(call', j) + One(j = icrd) + lost'[j]
    <3>1. /\ OpenRefs(j) \in Nat /\ lost[j] \in Nat /\ One(j = icrd) \in Nat
          /\ Holds(call, j) \in Nat /\ Holds(call', j) = Holds(call, j)
          /\ lost'[j] = lost[j]
      BY OpenBounds, FNodesFacts, HoldsInt DEF Inv, LostOK, One
    <3>2. inode[j].count = OpenRefs(j) + Holds(call, j) + One(j = icrd) + lost[j]
      BY DEF Inv, CountsRefs
    <3> QED BY <1>1, <1>3, <3>1, <3>2
  <2> QED BY <2>1 DEF CountsRefs
<1> QED BY <1>1, <1>3, <1>4

LEMMA PutFteInv ==
    ASSUME Inv, PutFte
    PROVE  Inv'
<1> DEFINE t == call.entry
<1>1. /\ call.pc = "put_fte" /\ call.wino \in Inos /\ call.new = NULL /\ t \in Ftes
      /\ DOMAIN call = Fields /\ call.op \in Calls \cap {"open", "creat"}
      /\ file_table_release_entry(t)
      /\ UNCHANGED <<fd, imap, lost>>
      /\ fd \in [Fds -> Ftes \cup {NULL}]
  BY INodesFacts DEF PutFte, Inv, CallOK, TablesOK
<1>2. /\ DOMAIN call' = Fields /\ call'.pc = "put_ino" /\ call'.op = call.op
      /\ call'.wino = call.wino /\ call'.new = NULL
      /\ call'.pdir = call.pdir /\ call'.entry = t
  BY <1>1 DEF PutFte, Fields, Go
<1>3. CallOK'
  BY <1>1, <1>2, INodesFacts, FNodesFacts DEF CallOK, Labels, Inv
<1>4. \A u \in Ftes : /\ Pending(u) = (IF u = t THEN 1 ELSE 0) /\ Pending(u)' = 0
                      /\ Cardinality(FdsOf(u)) \in Nat /\ FdsOf(u)' = FdsOf(u)
                      /\ fte[u].count = Cardinality(FdsOf(u)) + Pending(u)
  <2>1. \A u \in Ftes : /\ Cardinality(FdsOf(u)) \in Nat
                        /\ fte[u].count = Cardinality(FdsOf(u)) + Pending(u)
    BY FdsBounds, FNodesFacts DEF Inv, CountsFds
  <2>2. \A u \in Ftes : /\ Pending(u) = (IF u = t THEN 1 ELSE 0) /\ Pending(u)' = 0
                        /\ FdsOf(u)' = FdsOf(u)
    BY <1>1, <1>2 DEF Pending, FdsOf
  <2> QED BY <2>1, <2>2
<1>5. fte[t].count >= 1
  BY <1>1, <1>4
<1>6. \A i \in Inos : Holds(call', i) = Holds(call, i)
  BY <1>1, <1>2 DEF Holds
<1>7. /\ PoolOK' /\ CountsRefs' /\ TablesOK'
      /\ \A u \in Ftes : /\ fte'[u].inode = fte[u].inode
                         /\ fte'[u].count = fte[u].count - (IF u = t THEN 1 ELSE 0)
  BY <1>1, <1>5, <1>6, ReleaseStep
<1>8. CountsFds'
  <2>1. ASSUME NEW u \in Ftes
        PROVE  fte'[u].count = Cardinality(FdsOf(u)') + Pending(u)'
    BY <1>4, <1>7
  <2> QED BY <2>1 DEF CountsFds
<1>9. LostOK' /\ ImapOK'
  BY <1>1, <1>2, LostKept, ImapKept
<1>10. EntryOK'
  BY <1>2 DEF EntryOK
<1> QED BY <1>3, <1>7, <1>8, <1>9, <1>10 DEF Inv, PoolOK

-----------------------------------------------------------------------------
(* The calls on descriptors                                                *)

LEMMA CloseInv ==
    ASSUME Inv, NEW k \in Fds, fs_close(k)
    PROVE  Inv'
<1> DEFINE t == fd[k]
<1>1. /\ call.pc = "idle" /\ t \in Ftes
      /\ file_table_release_entry(t)
      /\ fd' = [fd EXCEPT ![k] = NULL]
      /\ UNCHANGED <<imap, lost, call>>
      /\ fd \in [Fds -> Ftes \cup {NULL}]
  BY DEF fs_close, fd_table_dealloc_entry, Inv, TablesOK
<1>2. /\ fd' \in [Fds -> Ftes \cup {NULL}]
      /\ \A u \in Ftes : Cardinality(FdsOf(u)') =
                           Cardinality(FdsOf(u)) - (IF u = t THEN 1 ELSE 0)
  BY <1>1, FdClear
<1>3. \A u \in Ftes : /\ Pending(u) = 0 /\ Pending(u)' = 0
                      /\ Cardinality(FdsOf(u)) \in Nat
                      /\ fte[u].count = Cardinality(FdsOf(u)) + Pending(u)
  BY <1>1, FdsBounds, FNodesFacts DEF Pending, Inv, CountsFds
<1>4. fte[t].count >= 1
  <2>1. Cardinality(FdsOf(t)) # 0
    BY FdsBounds
  <2> QED BY <1>1, <1>3, <2>1
<1>5. \A i \in Inos : Holds(call', i) = Holds(call, i)
  BY <1>1
<1>6. /\ PoolOK' /\ CountsRefs' /\ TablesOK'
      /\ \A u \in Ftes : /\ fte'[u].inode = fte[u].inode
                         /\ fte'[u].count = fte[u].count - (IF u = t THEN 1 ELSE 0)
  BY <1>1, <1>2, <1>4, <1>5, ReleaseStep
<1>7. CountsFds'
  <2>1. ASSUME NEW u \in Ftes
        PROVE  fte'[u].count = Cardinality(FdsOf(u)') + Pending(u)'
    BY <1>2, <1>3, <1>6
  <2> QED BY <2>1 DEF CountsFds
<1>8. LostOK' /\ ImapOK' /\ EntryOK' /\ CallOK'
  BY <1>1 DEF Inv, LostOK, ImapOK, EntryOK, CallOK, MoreComponents
<1> QED BY <1>6, <1>7, <1>8 DEF Inv, PoolOK

LEMMA WriteInv ==
    ASSUME Inv, NEW k \in Fds, fs_write(k)
    PROVE  Inv'
<1> DEFINE t == fd[k]
           i == fte[t].inode
<1>1. /\ call.pc = "idle" /\ t \in Ftes
      /\ UNCHANGED <<fvars, imap, lost, call>>
      /\ inode_unlock(i) \/ inode_lock(i)
  BY DEF fs_write, Inv, TablesOK
<1>2. i \in Inos
  <2>1. fte[t].count = Cardinality(FdsOf(t)) + Pending(t) /\ Pending(t) = 0
    BY <1>1 DEF Pending, Inv, CountsFds
  <2>2. Cardinality(FdsOf(t)) # 0 /\ Cardinality(FdsOf(t)) \in Nat
    BY FdsBounds, FNodesFacts
  <2> QED BY <1>1, <2>1, <2>2 DEF Inv, TablesOK
<1>3. PoolOK' /\ SameCounts
  <2>1. PICK b \in BOOLEAN : inode' = [inode EXCEPT ![i].locked = b] /\ ilink' = ilink
    BY <1>1 DEF inode_unlock, inode_lock
  <2> QED BY <1>1, <1>2, <2>1, LockPool DEF Inv, PoolOK
<1>4. CallOK' /\ ImapOK' /\ LostOK'
  BY <1>1 DEF Inv, LostOK, ImapOK, CallOK, MoreComponents
<1> QED BY <1>1, <1>3, <1>4, KeepStep

LEMMA DupInv ==
    ASSUME Inv, NEW k \in Fds, dup(k)
    PROVE  Inv'
<1> DEFINE t == fd[k]
<1>1. /\ call.pc = "idle" /\ t \in Ftes
      /\ UNCHANGED <<imap, lost, call>>
      /\ fd \in [Fds -> Ftes \cup {NULL}]
      /\ fte \in [Ftes -> FteRec]
  BY DEF dup, fd_table_dup_entry, Inv, TablesOK
<1>2. LostOK' /\ ImapOK' /\ EntryOK' /\ CallOK'
  BY <1>1 DEF Inv, LostOK, ImapOK, EntryOK, CallOK, MoreComponents
<1>3. ASSUME NEW j \in Fds, fd_table_alloc_entry(j, t),
             fte' = [fte EXCEPT ![t].count = Plus(fte[t].count)],
             UNCHANGED <<flink, ivars>>
      PROVE  Inv'
  <2>1. PoolOK' /\ SameCounts
    BY <1>1, <1>3, PoolKept
  <2>2. \A u \in Ftes : /\ Pending(u) = 0 /\ Pending(u)' = 0
                        /\ Cardinality(FdsOf(u)) \in 0..FD_TABLE_NUM_ENTRIES
                        /\ fte[u].count = Cardinality(FdsOf(u)) + Pending(u)
    BY <1>1, FdsBounds DEF Pending, Inv, CountsFds
  <2>3. fte[t].count # 0
    <3>1. Cardinality(FdsOf(t)) # 0
      BY FdsBounds
    <3> QED BY <1>1, <2>2, <3>1, FNodesFacts
  <2>4. /\ fd' \in [Fds -> Ftes \cup {NULL}]
        /\ \A u \in Ftes : Cardinality(FdsOf(u)') =
                             Cardinality(FdsOf(u)) + (IF u = t THEN 1 ELSE 0)
    BY <1>1, <1>3, FdSet DEF fd_table_alloc_entry, IsFreeFd
  <2>5. /\ Plus(fte[t].count) = fte[t].count + 1
        /\ fte[t].count + 1 \in 1..(UINT_MOD - 1)
    <3>1. j \notin FdsOf(t) /\ j \in Fds
      BY <1>1, <1>3, FNodesFacts DEF fd_table_alloc_entry, IsFreeFd, FdsOf
    <3>2. fte[t].count \in Nat /\ fte[t].count <= FD_TABLE_NUM_ENTRIES
      BY <1>1, <2>2, FNodesFacts
    <3>3. fte[t].count + 1 <= FD_TABLE_NUM_ENTRIES
      <4>1. Cardinality(FdsOf(t)) < Cardinality(Fds)
        <5>1. IsFiniteSet(Fds) /\ FdsOf(t) \in SUBSET Fds /\ FdsOf(t) # Fds
          BY <3>1, FNodesFacts DEF FdsOf
        <5>2. /\ Cardinality(FdsOf(t)) <= Cardinality(Fds)
              /\ Cardinality(Fds) = Cardinality(FdsOf(t)) => Fds = FdsOf(t)
          BY <5>1, FS_Subset
        <5>3. Cardinality(FdsOf(t)) \in Nat /\ Cardinality(Fds) \in Nat
          BY FdsBounds, FNodesFacts
        <5> QED BY <5>1, <5>2, <5>3
      <4> QED BY <1>1, <2>2, <4>1, FNodesFacts
    <3> QED BY <3>2, <3>3, UIntAssumption, FNodesFacts, PlusMinus
  <2>6. /\ fte' \in [Ftes -> FteRec]
        /\ \A u \in Ftes : /\ fte'[u].inode = fte[u].inode
                           /\ fte'[u].count = fte[u].count + (IF u = t THEN 1 ELSE 0)
    <3>1. fte' = [fte EXCEPT ![t].count = fte[t].count + 1]
      BY <1>3, <2>5
    <3>2. \A u \in Ftes : fte[u].count \in Int
      BY <1>1, PlusMinus DEF FteRec
    <3>3. fte[t].count + 1 \in 0..(UINT_MOD - 1)
      BY <2>5, PlusMinus
    <3> QED BY <1>1, <3>1, <3>2, <3>3 DEF FteRec
  <2>7. \A u \in Ftes : fte'[u].count = 0 <=> fte[u].count = 0
    <3>1. \A u \in Ftes : fte[u].count \in Nat
      BY <1>1, PlusMinus DEF FteRec
    <3> QED BY <2>3, <2>6, <3>1
  <2>8. TablesOK'
    BY <1>3, <2>4, <2>6, <2>7 DEF Inv, TablesOK, FreeFtes
  <2>9. CountsFds'
    <3>1. ASSUME NEW u \in Ftes
          PROVE  fte'[u].count = Cardinality(FdsOf(u)') + Pending(u)'
      BY <2>2, <2>4, <2>6, FNodesFacts
    <3> QED BY <3>1 DEF CountsFds
  <2>10. CountsRefs'
    <3>1. \A i \in Inos : OpenRefs(i)' = OpenRefs(i)
      BY <2>6, <2>7 DEF OpenRefs
    <3> QED BY <1>1, <2>1, <3>1 DEF Inv, CountsRefs, SameCounts
  <2> QED BY <1>2, <2>1, <2>8, <2>9, <2>10 DEF Inv, PoolOK
<1>4. ASSUME UNCHANGED <<fvars, ivars>>
      PROVE  Inv'
  BY <1>1, <1>4, OnlyCallInv, <1>2
<1> QED BY <1>3, <1>4 DEF dup, fd_table_dup_entry

-----------------------------------------------------------------------------
(* The invariant holds                                                     *)

(* minix3_imap.c:31-37 and blkbit.h:13-17 find the bit of inode n where    *)
(* the n-th bit of the bitmap is.                                          *)
LEMMA BitIsThere ==
    ASSUME NEW n \in Nat
    PROVE  Bit(n) = [blk |-> 2 + (n \div BYTE) \div BLOCK_SIZE,
                     byte |-> (n \div BYTE) % BLOCK_SIZE, bit |-> n % BYTE]
<1> DEFINE q == n \div BYTE
           r == n % BYTE
           b == q \div BLOCK_SIZE
           y == q % BLOCK_SIZE
           m == n % BITS_PER_BLOCK
           p == n \div BITS_PER_BLOCK
<1>1. BLOCK_SIZE \in Nat \ {0} /\ BYTE \in Nat \ {0}
  BY LayoutAssumption
<1>2. BITS_PER_BLOCK \in Nat \ {0} /\ BITS_PER_BLOCK = BYTE * BLOCK_SIZE
  <2>1. BYTE * BLOCK_SIZE \in Nat \ {0}
    BY <1>1
  <2> QED BY <2>1 DEF BITS_PER_BLOCK
<1>3. q \in Nat /\ r \in 0..(BYTE - 1) /\ n = q * BYTE + r
  BY <1>1, DivMod
<1>4. p \in Nat /\ m \in 0..(BITS_PER_BLOCK - 1) /\ n = p * BITS_PER_BLOCK + m
  BY <1>2, DivMod
<1>5. m \div BYTE \in Nat /\ m % BYTE \in 0..(BYTE - 1)
      /\ m = (m \div BYTE) * BYTE + (m % BYTE)
  <2> HIDE DEF m
  <2>1. m \in Nat
    BY <1>2, <1>4
  <2> QED BY <1>1, <2>1, DivMod
<1>6. Bit(n) = [blk |-> 2 + p, byte |-> m \div BYTE, bit |-> m % BYTE]
  BY DEF Bit, MINIX3_IMAP_STARTING_BLK_NUM
<1> HIDE DEF q, r, m, p
<1>7. b \in Nat /\ y \in 0..(BLOCK_SIZE - 1) /\ q = b * BLOCK_SIZE + y
  BY <1>1, <1>3, DivMod
<1> HIDE DEF b, y
<1> DEFINE inner == y * BYTE + r
<1>8. inner \in 0..(BITS_PER_BLOCK - 1)
  <2>1. y + 1 <= BLOCK_SIZE /\ y \in Nat
    BY <1>1, <1>7
  <2>2. (y + 1) * BYTE <= BLOCK_SIZE * BYTE /\ y * BYTE \in Nat
    BY <1>1, <2>1
  <2>3. (y + 1) * BYTE = y * BYTE + BYTE
    BY <1>1, <2>1
  <2> DEFINE z == y * BYTE
             k == BYTE * BLOCK_SIZE
  <2>4. k = BLOCK_SIZE * BYTE /\ k \in Nat
    BY <1>1
  <2> HIDE DEF z, k
  <2>5. z \in Nat /\ z + BYTE <= k
    BY <2>2, <2>3, <2>4 DEF z
  <2>6. z + r \in 0..(k - 1)
    BY <1>1, <1>3, <2>4, <2>5
  <2> QED BY <1>2, <2>6 DEF z, k
<1>9. n = b * BITS_PER_BLOCK + inner
  <2>1. q * BYTE = b * (BYTE * BLOCK_SIZE) + y * BYTE
    BY <1>1, <1>7
  <2>2. b * (BYTE * BLOCK_SIZE) \in Nat /\ y * BYTE \in Nat
    BY <1>1, <1>7
  <2> QED BY <1>2, <1>3, <2>1, <2>2
<1> HIDE DEF inner
<1>10. p = b /\ m = inner
  BY <1>2, <1>4, <1>7, <1>8, <1>9, OneQuotient
<1>11. m \div BYTE = y /\ m % BYTE = r
  BY <1>1, <1>3, <1>5, <1>7, <1>10, OneQuotient DEF inner
<1> QED BY <1>6, <1>10, <1>11 DEF q, r, b, y

LEMMA InitInv == Init => Inv
<1> SUFFICES ASSUME Init PROVE Inv
  OBVIOUS
<1> USE DEF Init
<1>1. /\ ROOT \in InoNums /\ ROOT \in Nat
      /\ 1 \in 0..(UINT_MOD - 1) /\ 0 \in 0..(UINT_MOD - 1)
      /\ IPOOL_SIZE \in Nat /\ IPOOL_SIZE >= 1 /\ icrd \in Inos
  <2>1. ROOT \in InoNums /\ ROOT \in Nat
    BY NumsFacts
  <2>2. 1 \in 0..(UINT_MOD - 1) /\ 0 \in 0..(UINT_MOD - 1)
    BY IPoolAssumption
  <2> QED BY <2>1, <2>2, INodesFacts
<1>2. inode \in [Inos -> InodeRec]
  BY <1>1 DEF InodeRec
<1>3. AllActual
  BY <1>1 DEF AllActual
<1>4. /\ ilink \in Links(INodes)
      /\ ListOf(ilink, Dummy, FreeInos)
  <2>1. InitIlink \in Links(INodes)
    <3>1. INodes = 0..IPOOL_SIZE
      BY <1>1 DEF INodes, Inos, Dummy
    <3>2. \A i \in 0..IPOOL_SIZE :
            /\ (IF i = Dummy THEN IPOOL_SIZE ELSE i - 1) \in 0..IPOOL_SIZE
            /\ (IF i = IPOOL_SIZE THEN Dummy ELSE i + 1) \in 0..IPOOL_SIZE
      BY <1>1 DEF Dummy
    <3> QED BY <3>1, <3>2 DEF InitIlink, Links
  <2>2. ListOf(InitIlink, Dummy, Inos)
    <3>1. \A i \in 0..IPOOL_SIZE :
            /\ InitIlink[i].prev = IF i = 0 THEN IPOOL_SIZE ELSE i - 1
            /\ InitIlink[i].next = IF i = IPOOL_SIZE THEN 0 ELSE i + 1
      BY <1>1 DEF InitIlink, INodes, Inos, Dummy
    <3> QED BY <1>1, <3>1, InitialList DEF Inos, Dummy
  <2>3. /\ Dummy \in INodes /\ icrd \in INodes /\ Inos \in SUBSET (INodes \ {Dummy})
    BY INodesFacts
  <2>4. FreeInos = Inos \ {icrd}
    BY DEF FreeInos
  <2>5. ListOf(node_remove(InitIlink, icrd), Dummy, Inos \ {icrd})
    BY <1>1, <2>1, <2>2, <2>3, TakeMember
  <2>6. node_remove(InitIlink, icrd) \in Links(INodes)
    BY <2>1, <2>3, RemoveType
  <2> QED BY <2>4, <2>5, <2>6
<1>5. TablesOK
  <2>1. /\ fte = [t \in Ftes |-> [count |-> 0, inode |-> NULL]]
        /\ flink = [t \in FNodes |-> [prev |-> IF t = Dummy THEN NUM_ENTRIES ELSE t - 1,
                                      next |-> IF t = NUM_ENTRIES THEN Dummy ELSE t + 1]]
        /\ fd = [k \in Fds |-> NULL]
    BY DEF file_table_init, fd_table_init
  <2>2. flink \in Links(FNodes)
    <3>1. FNodes = 0..NUM_ENTRIES
      BY FNodesFacts DEF FNodes, Ftes, Dummy
    <3>2. \A t \in 0..NUM_ENTRIES :
            /\ (IF t = Dummy THEN NUM_ENTRIES ELSE t - 1) \in 0..NUM_ENTRIES
            /\ (IF t = NUM_ENTRIES THEN Dummy ELSE t + 1) \in 0..NUM_ENTRIES
      BY FNodesFacts DEF Dummy
    <3> QED BY <2>1, <3>1, <3>2 DEF Links
  <2>3. FreeFtes = 1..NUM_ENTRIES
    BY <2>1 DEF FreeFtes, Ftes
  <2>4. ListOf(flink, Dummy, FreeFtes)
    <3>1. \A t \in 0..NUM_ENTRIES :
            /\ flink[t].prev = IF t = 0 THEN NUM_ENTRIES ELSE t - 1
            /\ flink[t].next = IF t = NUM_ENTRIES THEN 0 ELSE t + 1
      BY <2>1, FNodesFacts DEF FNodes, Ftes, Dummy
    <3> QED BY <2>3, <3>1, FNodesFacts, InitialList DEF Dummy
  <2> QED BY <1>1, <2>1, <2>2, <2>4 DEF TablesOK, FteRec
<1>6. /\ DOMAIN call = Fields /\ call.pc = "idle" /\ call.op = "none"
      /\ call.wino = NULL /\ call.new = NULL
      /\ call.pdir = NULL /\ call.entry = NULL
  BY DEF Idle, Fields
<1>7. CallOK /\ EntryOK
  BY <1>6, INodesFacts, FNodesFacts DEF CallOK, EntryOK, Labels
<1>8. CountsFds
  <2>1. ASSUME NEW t \in Ftes
        PROVE  fte[t].count = Cardinality(FdsOf(t)) + Pending(t)
    <3>1. \A k \in Fds : fd[k] # t
      BY FNodesFacts DEF fd_table_init
    <3>2. Cardinality(FdsOf(t)) = 0
      BY <3>1, FdsBounds
    <3> QED BY <1>6, <3>2 DEF file_table_init, Pending
  <2> QED BY <2>1 DEF CountsFds
<1>9. CountsRefs
  <2>1. ASSUME NEW i \in Inos
        PROVE  inode[i].count = OpenRefs(i) + Holds(call, i) + One(i = icrd) + lost[i]
    <3>1. OpenSet(i) = {}
      BY DEF OpenSet, file_table_init
    <3>2. OpenRefs(i) = 0
      BY <3>1, OpenBounds, FS_EmptySet
    <3>3. Holds(call, i) = 0
      BY <1>6, INodesFacts DEF Holds, One
    <3>4. inode[i].count = One(i = icrd) /\ lost[i] = 0
      BY DEF One
    <3> QED BY <3>2, <3>3, <3>4 DEF One
  <2> QED BY <2>1 DEF CountsRefs
<1>10. LostOK
  BY <1>6, UIntAssumption DEF LostOK
<1>11. ImapOK
  <2> DEFINE S == {0} \cup DOMAIN Tree
                  \cup UNION {{Tree[d][c] : c \in DOMAIN Tree[d]} : d \in DOMAIN Tree}
  <2>1. S \subseteq Nat
    BY NumsFacts, FsAssumption
  <2>2. imap = BitsOf(S)
    OBVIOUS
  <2> HIDE DEF S
  <2>3. \A n \in S : [blk |-> 2 + (n \div BYTE) \div BLOCK_SIZE,
                      byte |-> (n \div BYTE) % BLOCK_SIZE, bit |-> n % BYTE]
                     \in [blk : Nat, byte : 0..(BLOCK_SIZE - 1), bit : 0..(BYTE - 1)]
    BY <2>1, BitType, BitIsThere
  <2> QED BY <2>2, <2>3 DEF BitsOf, ImapOK
<1> QED BY <1>2, <1>3, <1>4, <1>5, <1>7, <1>8, <1>9, <1>10, <1>11 DEF Inv, PoolType

LEMMA HaltInv ==
    ASSUME Inv, UNCHANGED vars
    PROVE  Inv'
<1>1. /\ inode' = inode /\ ilink' = ilink /\ fte' = fte /\ flink' = flink /\ fd' = fd
      /\ imap' = imap /\ call' = call /\ lost' = lost
  BY DEF vars
<1>2. PoolType' /\ AllActual' /\ (ListOf(ilink, Dummy, FreeInos) => ListOf(ilink, Dummy, FreeInos)')
  BY <1>1 DEF Inv, PoolType, AllActual, FreeInos
<1>3. (CountsRefs => CountsRefs') /\ TablesOK' /\ CountsFds'
  BY <1>1 DEF Inv, CountsRefs, OpenRefs, TablesOK, FreeFtes, CountsFds, FdsOf, Pending
<1>4. CallOK' /\ EntryOK' /\ LostOK' /\ ImapOK'
  BY <1>1 DEF Inv, CallOK, MoreComponents, EntryOK, LostOK, ImapOK
<1> QED BY <1>1, <1>2, <1>3, <1>4 DEF Inv

LEMMA StepInv ==
    ASSUME Inv, [Next \/ Halt]_vars
    PROVE  Inv'
<1>1. CASE fs_open \/ fs_creat
  BY <1>1, StartInv DEF fs_open, fs_creat
<1>2. CASE \E k \in Fds : fs_close(k) \/ fs_write(k) \/ dup(k)
  BY <1>2, CloseInv, WriteInv, DupInv
<1>3. CASE Root \/ WalkEnds \/ WalkRefused \/ WalkStays \/ Lookup \/ Missing \/ Enter
  BY <1>3, RootInv, WalkEndsInv, WalkRefusedInv, WalkStaysInv, LookupInv, MissingInv,
     EnterInv
<1>4. CASE Alloci \/ Seti \/ Linked \/ Found
  BY <1>4, AllociInv, SetiInv, LinkedInv, FoundInv
<1>5. CASE AllocFte \/ AllocFd \/ PutFte \/ PutIno \/ PutPdir
  BY <1>5, AllocFteInv, AllocFdInv, PutFteInv, PutInoInv, PutPdirInv
<1>6. CASE Halt \/ UNCHANGED vars
  BY <1>6, HaltInv DEF Halt
<1> QED BY <1>1, <1>2, <1>3, <1>4, <1>5, <1>6 DEF Next, Step

THEOREM FsInductive == Spec => []Inv
BY InitInv, StepInv, PTL DEF Spec

-----------------------------------------------------------------------------
(* The properties that the runs check                                      *)

(* A list whose members are S, as the properties say it.                   *)
LEMMA ListAsSequence ==
    ASSUME NEW n \in Nat, NEW link, NEW S \in SUBSET (1..n), ListOf(link, Dummy, S)
    PROVE  \E s \in UNION {[1..k -> 1..n] : k \in 0..n} :
                /\ IsList(link, Dummy, s)
                /\ Distinct(s)
                /\ \A i \in 1..n : (\E j \in 1..Len(s) : s[j] = i) <=> i \in S
<1>1. PICK s \in Seq(S) : /\ IsList(link, Dummy, s)
                          /\ Distinct(s)
                          /\ \A m \in S : \E i \in 1..Len(s) : s[i] = m
  BY DEF ListOf
<1>2. s \in UNION {[1..k -> 1..n] : k \in 0..n}
  BY <1>1, ShortList
<1>3. \A j \in 1..Len(s) : s[j] \in S
  OBVIOUS
<1> QED BY <1>1, <1>2, <1>3

(* The variables have their types, and no pointer of a call is null where  *)
(* namei (minix3.c:394-471), fs_open() and fs_creat() (fs.c:34-122) use it.*)
THEOREM FsTypeOK == Spec => []TypeOK
<1>1. Inv => TypeOK
  BY DEF Inv, PoolType, InodeRec, TablesOK, FteRec, CallOK, ImapOK, TypeOK
<1> QED BY <1>1, FsInductive, PTL

(* The count of an inode in memory is the number of its references: by     *)
(* open files, the process, the call in progress, and those that           *)
(* fs_creat() has forgotten (fs.c:70-122).                                 *)
THEOREM FsRefCount == Spec => []RefCount
<1>1. Inv => RefCount
  <2> SUFFICES ASSUME Inv, call.pc # "twice", NEW i \in Inos
               PROVE  inode[i].count = References(i) + lost[i]
    BY DEF RefCount
  <2>1. inode[i].count = OpenRefs(i) + Holds(call, i) + One(i = icrd) + lost[i]
    BY DEF Inv, CountsRefs
  <2>2. References(i) = OpenRefs(i) + Holds(call, i) + One(i = icrd)
    BY CallRefsForm DEF References, One
  <2> QED BY <2>1, <2>2
<1> QED BY <1>1, FsInductive, PTL

(* ipool.c:87: an inode is on the free list exactly when its count is 0,   *)
(* and the list is sound in both directions.                               *)
THEOREM FsFreeIffCountZero == Spec => []FreeIffCountZero
<1>1. Inv => FreeIffCountZero
  <2> SUFFICES ASSUME Inv, call.pc # "twice"
               PROVE  \E s \in InoSeqs :
                        /\ IsList(ilink, Dummy, s)
                        /\ Distinct(s)
                        /\ \A i \in Inos : (\E j \in 1..Len(s) : s[j] = i)
                                            <=> inode[i].count = 0
    BY DEF FreeIffCountZero
  <2>1. IPOOL_SIZE \in Nat /\ FreeInos \in SUBSET (1..IPOOL_SIZE)
        /\ ListOf(ilink, Dummy, FreeInos)
    BY INodesFacts DEF Inv, FreeInos, Inos
  <2>2. PICK s \in UNION {[1..k -> 1..IPOOL_SIZE] : k \in 0..IPOOL_SIZE} :
          /\ IsList(ilink, Dummy, s)
          /\ Distinct(s)
          /\ \A i \in 1..IPOOL_SIZE : (\E j \in 1..Len(s) : s[j] = i) <=> i \in FreeInos
    BY <2>1, ListAsSequence
  <2>3. s \in InoSeqs
    BY DEF InoSeqs, Inos
  <2> QED BY <2>2, <2>3 DEF FreeInos, Inos
<1> QED BY <1>1, FsInductive, PTL

(* The count of an entry of the file table is the number of descriptors    *)
(* that refer to it, and the entry is on the free list when that is 0      *)
(* (fd_table.c:47-102, file_table.c:31-76).                                *)
THEOREM FsEntryCount == Spec => []EntryCount
<1>1. Inv => EntryCount
  <2> SUFFICES ASSUME Inv
               PROVE  EntryCount
    OBVIOUS
  <2>1. \A t \in Ftes :
          fte[t].count = Cardinality({k \in Fds : fd[k] = t})
                          + (IF call.entry = t /\ call.pc \in {"fd", "put_fte"} THEN 1 ELSE 0)
    BY DEF Inv, CountsFds, FdsOf, Pending
  <2>2. NUM_ENTRIES \in Nat /\ FreeFtes \in SUBSET (1..NUM_ENTRIES)
        /\ ListOf(flink, Dummy, FreeFtes)
    BY FNodesFacts DEF Inv, TablesOK, FreeFtes, Ftes
  <2>3. PICK s \in UNION {[1..k -> 1..NUM_ENTRIES] : k \in 0..NUM_ENTRIES} :
          /\ IsList(flink, Dummy, s)
          /\ Distinct(s)
          /\ \A t \in 1..NUM_ENTRIES : (\E j \in 1..Len(s) : s[j] = t) <=> t \in FreeFtes
    BY <2>2, ListAsSequence
  <2>4. s \in FteSeqs
    BY DEF FteSeqs, Ftes
  <2>5. \A t \in Ftes : (\E j \in 1..Len(s) : s[j] = t) <=> fte[t].count = 0
    BY <2>3 DEF FreeFtes, Ftes
  <2> QED BY <2>1, <2>3, <2>4, <2>5 DEF EntryCount
<1> QED BY <1>1, FsInductive, PTL

(* inode.h:18: an inode that says it is valid has the contents of the      *)
(* inode on the disk that has its number, also after a failed read.        *)
THEOREM FsValidIsActual == Spec => []ValidIsActual
<1>1. Inv => ValidIsActual
  BY DEF Inv, AllActual, ValidIsActual
<1> QED BY <1>1, FsInductive, PTL

(* An open descriptor has an entry that is in use, of a referenced inode.  *)
LEMMA OpenEntry ==
    ASSUME Inv, NEW k \in Fds, fd[k] # NULL
    PROVE  /\ fd[k] \in Ftes /\ fte[fd[k]].count # 0 /\ fte[fd[k]].inode \in Inos
           /\ call.pc # "twice" => inode[fte[fd[k]].inode].count >= 1
<1> DEFINE t == fd[k]
<1>1. t \in Ftes
  BY DEF Inv, TablesOK
<1>2. Cardinality(FdsOf(t)) # 0 /\ Cardinality(FdsOf(t)) \in Nat
  BY FdsBounds, FNodesFacts
<1>3. fte[t].count = Cardinality(FdsOf(t)) + Pending(t) /\ Pending(t) \in Nat
  BY <1>1 DEF Inv, CountsFds, Pending
<1>4. fte[t].count # 0
  BY <1>2, <1>3
<1>5. call.pc # "twice" => inode[fte[t].inode].count >= 1
  BY <1>1, <1>4, EntryReferences
<1>6. fte[t].inode \in Inos
  BY <1>1, <1>4 DEF Inv, TablesOK
<1> QED BY <1>1, <1>4, <1>5, <1>6

(* A descriptor that is open refers to an entry of the file table that is  *)
(* in use, and the entry to an inode that is referenced: ipool_geti()      *)
(* never reads another inode over that of an open file (ipool.c:43-52,     *)
(* 118-131).                                                               *)
OpenIsReferenced ==
    \A k \in Fds : fd[k] # NULL =>
        /\ fte[fd[k]].count # 0
        /\ call.pc # "twice" => inode[fte[fd[k]].inode].count # 0

THEOREM FsOpenIsReferenced == Spec => []OpenIsReferenced
<1>1. ASSUME Inv, NEW k \in Fds, fd[k] # NULL
      PROVE  /\ fte[fd[k]].count # 0
             /\ call.pc # "twice" => inode[fte[fd[k]].inode].count # 0
  BY <1>1, OpenEntry
<1>2. Inv => OpenIsReferenced
  BY <1>1 DEF OpenIsReferenced
<1> QED BY <1>2, FsInductive, PTL

-----------------------------------------------------------------------------
(* Locks.  Without fs_creat(), and if fs_write() reads what it asks for,   *)
(* only the inodes of the walk in progress are locked.                     *)

LockInv ==
    /\ call.pc \notin {"alloci", "seti", "linked", "put_pdir", "abort", "spin"}
    /\ \A i \in Inos : inode[i].locked =>
          \/ call.pc \in {"walk", "missing", "enter", "found"} /\ i = call.wino
          \/ call.pc = "enter" /\ i = call.new

(* The step unlocks i, or changes no lock.                                 *)
Unlocks(i) == \A j \in Inos : inode'[j].locked => inode[j].locked /\ j # i
LocksKept == \A j \in Inos : inode'[j].locked => inode[j].locked

LEMMA PutiUnlocks ==
    ASSUME Inv, NEW i \in Inos, ipool_puti(i)
    PROVE  Unlocks(i)
BY DEF Inv, PoolType, InodeRec, ipool_puti, Unlocks

LEMMA WalkLocks ==
    ASSUME "creat" \notin Calls, Inv, LockInv,
           Root \/ WalkEnds \/ WalkRefused \/ WalkStays \/ Lookup
    PROVE  LockInv'
<1> USE DEF LockInv
<1>1. PoolOK /\ DOMAIN call = Fields
  BY DEF Inv, PoolOK, CallOK, Root, WalkEnds, WalkRefused, WalkStays, Lookup
<1>2. \A j \in Inos : inode[j].count \in Nat /\ inode[j].count + 1 < UINT_MOD
  BY CountBound DEF Root, WalkEnds, WalkRefused, WalkStays, Lookup
<1>3. CASE Root
  <2>1. \A j \in Inos : ~inode[j].locked
    BY <1>3 DEF Root
  <2>2. ASSUME NEW i \in Inos, ipool_geti(ROOT, i),
               call' = [call EXCEPT !.wino = i, !.pc = "walk"]
        PROVE  LockInv'
    <3>1. call'.pc = "walk" /\ call'.wino = i
      BY <1>1, <2>2 DEF Fields
    <3>2. \A j \in Inos : j # i => inode'[j] = inode[j]
      <4>1. inode[i].count + 1 < UINT_MOD /\ ROOT \in InoNums
        BY <1>2, NumsFacts
      <4> HIDE DEF LockInv
      <4> QED BY <1>1, <2>2, <4>1, GetiPool
    <3> QED BY <2>1, <3>1, <3>2
  <2>3. CASE geti_null(ROOT) /\ call' = Idle
    <3>1. LocksKept
      BY <1>1, <2>3, NumsFacts, GetiNullPool DEF LocksKept
    <3>2. call'.pc = "idle"
      BY <2>3 DEF Idle
    <3> QED BY <2>1, <3>1, <3>2 DEF LocksKept
  <2>4. ~geti_spins(ROOT)
    BY <2>1 DEF geti_spins
  <2> QED BY <1>3, <2>2, <2>3, <2>4 DEF Root
<1>4. CASE WalkEnds
  <2>1. call'.pc = "found" /\ call'.wino = call.wino /\ inode' = inode /\ call.pc = "walk"
    BY <1>1, <1>4 DEF WalkEnds, Go, Fields, ivars
  <2> QED BY <2>1
<1>5. CASE WalkRefused
  <2>1. call.pc = "walk" /\ call'.pc = "idle" /\ call.wino \in Inos
    BY <1>5 DEF WalkRefused, Idle, Inv, CallOK
  <2>2. Unlocks(call.wino)
    BY <1>5, <2>1, PutiUnlocks DEF WalkRefused
  <2> QED BY <2>1, <2>2 DEF Unlocks
<1>6. CASE WalkStays
  <2>1. call'.pc = "walk" /\ call'.wino = call.wino /\ inode' = inode /\ call.pc = "walk"
    BY <1>1, <1>6 DEF WalkStays, Fields, ivars
  <2> QED BY <2>1
<1>7. CASE Lookup
  <2> DEFINE w == call.wino
  <2>1. call.pc = "walk" /\ w \in Inos /\ Walkable
    BY <1>7 DEF Lookup, Inv, CallOK
  <2>2. \A j \in Inos : inode[j].locked => j = w
    BY <2>1
  <2>3. ASSUME LocksKept, call' = Go("missing")
        PROVE  LockInv'
    <3>1. call'.pc = "missing" /\ call'.wino = w
      BY <1>1, <2>3 DEF Go, Fields
    <3> QED BY <2>2, <2>3, <3>1 DEF LocksKept
  <2>4. ASSUME NEW i \in Inos, \A j \in Inos : inode'[j].locked => inode[j].locked \/ j = i,
               call' = [call EXCEPT !.new = i, !.pc = "enter"]
        PROVE  LockInv'
    <3>1. call'.pc = "enter" /\ call'.wino = w /\ call'.new = i
      BY <1>1, <2>4 DEF Fields
    <3> QED BY <2>2, <2>4, <3>1
  <2>5. CASE call' = Go("missing") /\ UNCHANGED ivars
    BY <2>3, <2>5 DEF LocksKept, ivars
  <2>6. CASE Name \in DOMAIN Entries
             /\ ~(call' = Go("missing") /\ UNCHANGED ivars)
    <3> DEFINE n == Entries[Name]
    <3>1. n \in InoNums
      BY <2>1, <2>6, NumsFacts DEF Entries, Walkable, inode_is_dir
    <3> HIDE DEF n
    <3>2. CASE n = inode[w].num
      <4>1. /\ inode' = [inode EXCEPT ![w].count = Plus(inode[w].count)]
            /\ call' = [call EXCEPT !.new = w, !.pc = "enter"]
        BY <1>7, <2>6, <3>2 DEF Lookup, n
      <4>2. \A j \in Inos : inode'[j].locked = inode[j].locked
        BY <1>1, <4>1 DEF PoolOK, PoolType, InodeRec
      <4> QED BY <2>1, <2>4, <4>1, <4>2
    <3>3. CASE n # inode[w].num
      <4>1. \/ \E i \in Inos : /\ ipool_geti(n, i)
                              /\ call' = [call EXCEPT !.new = i, !.pc = "enter"]
            \/ geti_null(n) /\ call' = Go("missing")
            \/ geti_spins(n) /\ call' = Go("spin")
        BY <1>7, <2>6, <3>3 DEF Lookup, n
      <4>2. ~geti_spins(n)
        BY <2>2, <3>3 DEF geti_spins, IsIno
      <4>3. ASSUME NEW i \in Inos, ipool_geti(n, i)
            PROVE  \A j \in Inos : inode'[j].locked => inode[j].locked \/ j = i
        <5>1. inode[i].count + 1 < UINT_MOD
          BY <1>2
        <5> HIDE DEF LockInv
        <5>2. \A j \in Inos : j # i => inode'[j] = inode[j]
          BY <1>1, <3>1, <4>3, <5>1, GetiPool
        <5> QED BY <5>2
      <4>4. ASSUME geti_null(n)
            PROVE  LocksKept
        BY <1>1, <3>1, <4>4, GetiNullPool DEF LocksKept
      <4> QED BY <2>3, <2>4, <4>1, <4>2, <4>3, <4>4
    <3> QED BY <3>2, <3>3
  <2> QED BY <1>7, <2>5, <2>6 DEF Lookup
<1> QED BY <1>3, <1>4, <1>5, <1>6, <1>7

LEMMA OpenLocks ==
    ASSUME "creat" \notin Calls, Inv, LockInv,
           Missing \/ Enter \/ Found \/ AllocFte \/ AllocFd \/ PutFte \/ PutIno
    PROVE  LockInv'
<1> USE DEF LockInv
<1>1. DOMAIN call = Fields /\ call.op = "open" /\ call.pdir = NULL
      /\ call.wino \in Inos
  BY INodesFacts DEF Inv, CallOK, Missing, Enter, Found, AllocFte, AllocFd, PutFte, PutIno
<1>2. ~keep_pdir_ino
  BY <1>1 DEF keep_pdir_ino
<1>3. CASE Missing
  <2>1. call.pc = "missing" /\ call'.pc = "idle" /\ Unlocks(call.wino)
    BY <1>1, <1>2, <1>3, PutiUnlocks DEF Missing, Idle
  <2> QED BY <2>1 DEF Unlocks
<1>4. CASE Enter
  <2>1. call.pc = "enter" /\ Unlocks(call.wino)
    BY <1>1, <1>2, <1>4, PutiUnlocks DEF Enter
  <2>2. call'.pc = "walk" /\ call'.wino = call.new
    BY <1>1, <1>4 DEF Enter, Fields
  <2> QED BY <2>1, <2>2 DEF Unlocks
<1>5. CASE Found
  <2>1. call.pc = "found" /\ call'.pc = "fte"
    BY <1>1, <1>5 DEF Found, Go, Fields
  <2>2. \A j \in Inos : inode'[j].locked => inode[j].locked /\ j # call.wino
    BY <1>1, <1>5 DEF Found, inode_unlock, Inv, PoolType, InodeRec
  <2> QED BY <2>1, <2>2
<1>6. CASE AllocFte
  <2>1. call.pc = "fte" /\ call'.pc \in {"fd", "put_ino"} /\ inode' = inode
    BY <1>1, <1>6 DEF AllocFte, Go, Fields, ivars
  <2> QED BY <2>1
<1>7. CASE AllocFd
  <2>1. call.pc = "fd" /\ call'.pc \in {"idle", "put_fte"} /\ inode' = inode
    BY <1>1, <1>7 DEF AllocFd, Go, Fields, ivars, Idle
  <2> QED BY <2>1
<1>8. CASE PutFte
  <2> DEFINE t == call.entry
  <2>1. call.pc = "put_fte" /\ call'.pc = "put_ino" /\ t \in Ftes
        /\ fte[t].inode = call.wino
    BY <1>1, <1>8 DEF PutFte, Go, Fields, Inv, CallOK, EntryOK
  <2>2. LocksKept
    <3>1. CASE ipool_puti(call.wino)
      BY <1>1, <3>1, PutiUnlocks DEF Unlocks, LocksKept
    <3>2. CASE inode' = inode
      BY <3>2 DEF LocksKept
    <3> QED BY <1>8, <2>1, <3>1, <3>2 DEF PutFte, file_table_release_entry, ivars
  <2> QED BY <2>1, <2>2 DEF LocksKept
<1>9. CASE PutIno
  <2>1. call.pc = "put_ino" /\ Unlocks(call.wino)
    BY <1>1, <1>9, PutiUnlocks DEF PutIno
  <2>2. call'.pc \in {"twice", "idle"}
    BY <1>1, <1>9 DEF PutIno, Go, Fields, Idle
  <2> QED BY <2>1, <2>2 DEF Unlocks
<1> QED BY <1>3, <1>4, <1>5, <1>6, <1>7, <1>8, <1>9

LEMMA DescriptorLocks ==
    ASSUME "write" \in Calls => ~FaultyReads, Inv, LockInv,
           NEW k \in Fds, fs_close(k) \/ fs_write(k) \/ dup(k)
    PROVE  LockInv'
<1> DEFINE t == fd[k]
           i == fte[t].inode
<1>1. call.pc = "idle" /\ call' = call /\ t \in Ftes
  BY DEF fs_close, fs_write, dup, fd_table_dealloc_entry, fd_table_dup_entry,
         Inv, TablesOK
<1>2. i \in Inos
  <2>1. fte[t].count = Cardinality(FdsOf(t)) + Pending(t) /\ Pending(t) = 0
    BY <1>1 DEF Pending, Inv, CountsFds
  <2>2. Cardinality(FdsOf(t)) # 0 /\ Cardinality(FdsOf(t)) \in Nat
    BY FdsBounds, FNodesFacts
  <2> QED BY <1>1, <2>1, <2>2 DEF Inv, TablesOK
<1>3. LocksKept
  <2>1. CASE ipool_puti(i)
    BY <1>2, <2>1, PutiUnlocks DEF Unlocks, LocksKept
  <2>2. CASE inode_unlock(i)
    BY <1>2, <2>2 DEF inode_unlock, Inv, PoolType, InodeRec, LocksKept
  <2>3. CASE inode' = inode
    BY <2>3 DEF LocksKept
  <2> QED BY <2>1, <2>2, <2>3
          DEF fs_close, fs_write, dup, fd_table_dealloc_entry, fd_table_dup_entry,
              file_table_release_entry, ivars
<1> QED BY <1>1, <1>3 DEF LockInv, LocksKept

LEMMA StepLocks ==
    ASSUME "creat" \notin Calls, "write" \in Calls => ~FaultyReads,
           Inv, LockInv, [Next \/ Halt]_vars
    PROVE  LockInv'
<1>1. CASE fs_open
  <2>1. call.pc = "idle" /\ call'.pc = "root" /\ inode' = inode
    BY <1>1 DEF fs_open, Start, Idle, ivars
  <2> QED BY <2>1 DEF LockInv
<1>2. ~fs_creat
  BY DEF fs_creat, Start
<1>3. CASE \E k \in Fds : fs_close(k) \/ fs_write(k) \/ dup(k)
  BY <1>3, DescriptorLocks
<1>4. CASE Root \/ WalkEnds \/ WalkRefused \/ WalkStays \/ Lookup
  BY <1>4, WalkLocks
<1>5. CASE Missing \/ Enter \/ Found \/ AllocFte \/ AllocFd \/ PutFte \/ PutIno
  BY <1>5, OpenLocks
<1>6. ~(Alloci \/ Seti \/ Linked \/ PutPdir)
  BY DEF LockInv, Alloci, Seti, Linked, PutPdir
<1>7. CASE Halt \/ UNCHANGED vars
  <2>1. inode' = inode /\ call' = call
    BY <1>7 DEF Halt, vars
  <2> QED BY <2>1 DEF LockInv
<1> QED BY <1>1, <1>2, <1>3, <1>4, <1>5, <1>6, <1>7 DEF Next, Step

(* No inode stays locked after fs_open() or fs_close(), whatever reads     *)
(* fail, and ipool_geti() never meets a locked inode, over which it would  *)
(* go on for ever (ipool.c:97-103).  fs_creat() of a file that exists      *)
(* leaves its directory locked, and fs_write() the file if minix3_bmap()   *)
(* fails; the hypotheses leave these out.                                  *)
THEOREM FsUnlockedWhenIdle ==
    ASSUME "creat" \notin Calls, "write" \in Calls => ~FaultyReads
    PROVE  Spec => [](UnlockedWhenIdle /\ call.pc # "spin")
<1>1. Init => LockInv
  BY DEF Init, Idle, LockInv
<1>2. Inv /\ LockInv /\ [Next \/ Halt]_vars => LockInv'
  BY StepLocks
<1>3. LockInv => UnlockedWhenIdle /\ call.pc # "spin"
  BY DEF LockInv, UnlockedWhenIdle
<1> QED BY <1>1, <1>2, <1>3, FsInductive, PTL DEF Spec

-----------------------------------------------------------------------------
(* The inode bitmap.  If its blocks can be read and reach as far as the    *)
(* inodes, the inodes that are referenced have their bits set.             *)

Known == {0} \cup DOMAIN Tree
         \cup UNION {{Tree[d][c] : c \in DOMAIN Tree[d]} : d \in DOMAIN Tree}

Marked == \A i \in Inos :
    inode[i].count # 0 /\ ~(call.pc = "seti" /\ i = call.wino) => Bit(inode[i].num) \in imap

BitInv ==
    /\ call.pc # "abort"
    /\ call.pc # "twice" => Marked
    /\ call.pc = "seti" => inode[call.wino].count = 1
    /\ BitsOf(Known) \subseteq imap

(* The step gives an inode no other number, and references none that was   *)
(* not referenced before.                                                  *)
NoNewInode == \A j \in Inos : inode'[j].count # 0 => /\ inode[j].count # 0
                                                     /\ inode'[j].num = inode[j].num

LEMMA KnownBits == \A n \in Known : Bit(n) \in BitsOf(Known)
<1> SUFFICES ASSUME NEW n \in Known
             PROVE  Bit(n) \in BitsOf(Known)
  OBVIOUS
<1>1. n \in Nat
  BY NumsFacts, FsAssumption DEF Known
<1>2. Bit(n) = [blk |-> 2 + (n \div BYTE) \div BLOCK_SIZE,
                byte |-> (n \div BYTE) % BLOCK_SIZE, bit |-> n % BYTE]
  BY <1>1, BitIsThere
<1> QED BY <1>2 DEF BitsOf

(* minix3_imap.c:21-29: the number of blocks is calculated from bytes, and *)
(* large enough if there is one at all.                                    *)
LEMMA InodesInBitmap ==
    ASSUME BYTE >= 2, NumInodes >= BLOCK_SIZE, NEW n \in 0..(NumInodes - 1)
    PROVE  InBitmap(n)
<1> DEFINE q == NumInodes \div BLOCK_SIZE
           p == n \div BITS_PER_BLOCK
           r == NumInodes % BLOCK_SIZE
           m == n % BITS_PER_BLOCK
<1>1. BLOCK_SIZE \in Nat \ {0} /\ BYTE \in Nat \ {0} /\ NumInodes \in Nat
  BY LayoutAssumption
<1>2. BITS_PER_BLOCK \in Nat \ {0} /\ BITS_PER_BLOCK = BYTE * BLOCK_SIZE
  <2>1. BYTE * BLOCK_SIZE \in Nat \ {0}
    BY <1>1
  <2> QED BY <2>1 DEF BITS_PER_BLOCK
<1>3. q \in Nat /\ r \in 0..(BLOCK_SIZE - 1) /\ NumInodes = q * BLOCK_SIZE + r
  BY <1>1, DivMod
<1>4. p \in Nat /\ m \in 0..(BITS_PER_BLOCK - 1) /\ n = p * BITS_PER_BLOCK + m
  <2>1. n \in Nat
    BY <1>1
  <2> QED BY <1>2, <2>1, DivMod
<1>5. InBitmap(n) <=> p < q
  BY DEF InBitmap, _num_blks
<1> HIDE DEF q, p, r, m
<1>6. q >= 1
  <2>1. CASE q = 0
    BY <1>1, <1>3, <2>1
  <2> QED BY <1>3, <2>1
<1>7. ASSUME p >= q PROVE FALSE
  <2> DEFINE k == q * BLOCK_SIZE
  <2>1. k \in Nat /\ k >= BLOCK_SIZE /\ NumInodes = k + r
    BY <1>1, <1>3, <1>6
  <2>2. p * BITS_PER_BLOCK >= q * BITS_PER_BLOCK
    BY <1>2, <1>3, <1>4, <1>7
  <2>3. q * BITS_PER_BLOCK = BYTE * k
    BY <1>1, <1>2, <1>3
  <2>4. BYTE * k >= 2 * k
    BY <1>1, <2>1
  <2>5. p * BITS_PER_BLOCK \in Nat /\ q * BITS_PER_BLOCK \in Nat
    BY <1>2, <1>3, <1>4
  <2> HIDE DEF k
  <2>6. n >= 2 * k
    <3>1. n >= p * BITS_PER_BLOCK
      BY <1>2, <1>4, <2>5
    <3> QED BY <2>1, <2>2, <2>3, <2>4, <2>5, <3>1
  <2>7. n < k + r /\ r < BLOCK_SIZE
    BY <1>1, <1>3, <2>1
  <2> QED BY <1>1, <1>3, <2>1, <2>6, <2>7
<1> QED BY <1>3, <1>4, <1>5, <1>7

LEMMA PutiNoNew ==
    ASSUME Inv, call.pc # "twice", NEW i \in Inos, inode[i].count >= 1, ipool_puti(i)
    PROVE  NoNewInode
<1>1. CountsPlus(i, -1) /\ \A j \in Inos : inode'[j].num = inode[j].num
  BY PutiPool DEF Inv, PoolOK
<1>2. \A j \in Inos : inode[j].count \in Nat
  BY CountBound
<1> QED BY <1>1, <1>2 DEF CountsPlus, NoNewInode

(* What the call holds is referenced.                                      *)
LEMMA HeldCount ==
    ASSUME Inv, call.pc # "twice", call.entry = NULL, NEW i \in Inos,
           i \in {call.wino, call.pdir}
    PROVE  inode[i].count >= 1
<1>1. Holds(call, i) >= 1 /\ Holds(call, i) \in Nat
  BY DEF Holds, One
<1>2. inode[i].count \in Nat /\ inode[i].count >= Holds(call, i)
  BY CountBound
<1> QED BY <1>1, <1>2

LEMMA KeepBits ==
    ASSUME BitInv, call.pc \notin {"seti", "twice"}, imap' = imap, NoNewInode,
           call'.pc \notin {"seti", "abort"}
    PROVE  BitInv'
BY DEF BitInv, Marked, NoNewInode

(* The inode that is found or read has the number of a directory entry.    *)
LEMMA GetiBits ==
    ASSUME Inv, BitInv, call.pc \notin {"seti", "twice"}, imap' = imap,
           NEW n \in Known \cap InoNums, NEW i \in Inos, ipool_geti(n, i),
           call'.pc \notin {"seti", "abort"}
    PROVE  BitInv'
<1>1. inode[i].count + 1 < UINT_MOD
  BY CountBound
<1>2. /\ inode'[i].num = n
      /\ \A j \in Inos : j # i => inode'[j] = inode[j]
  BY <1>1, GetiPool DEF Inv, PoolOK
<1>3. Bit(n) \in imap
  BY KnownBits DEF BitInv
<1> QED BY <1>2, <1>3 DEF BitInv, Marked

LEMMA GetiNullBits ==
    ASSUME Inv, BitInv, call.pc \notin {"seti", "twice"}, imap' = imap,
           NEW n \in InoNums, geti_null(n),
           call'.pc \notin {"seti", "abort"}
    PROVE  BitInv'
<1>1. SameCounts /\ \A j \in Inos : inode[j].count # 0 => inode'[j] = inode[j]
  BY GetiNullPool DEF Inv, PoolOK
<1> QED BY <1>1, KeepBits DEF SameCounts, NoNewInode

LEMMA WalkBits ==
    ASSUME Inv, BitInv,
           \/ Root \/ WalkEnds \/ WalkRefused \/ WalkStays \/ Lookup \/ Missing \/ Enter
    PROVE  BitInv'
<1>1. DOMAIN call = Fields /\ imap' = imap /\ PoolOK
      /\ call.pc \in {"root", "walk", "missing", "enter"} /\ call.entry = NULL
  BY DEF Inv, PoolOK, CallOK, Root, WalkEnds, WalkRefused, WalkStays, Lookup, Missing, Enter
<1>2. ASSUME inode' = inode, call'.pc \notin {"seti", "abort"}
      PROVE  BitInv'
  BY <1>1, <1>2, KeepBits DEF NoNewInode
<1>3. ASSUME call.pc # "root", ipool_puti(call.wino), call'.pc \notin {"seti", "abort"}
      PROVE  BitInv'
  <2>1. call.wino \in Inos
    BY <1>1, <1>3 DEF Inv, CallOK
  <2> QED BY <1>1, <1>3, <2>1, HeldCount, PutiNoNew, KeepBits
<1>4. CASE Root
  <2>1. ROOT \in Known \cap InoNums
    BY NumsFacts, FsAssumption DEF Known
  <2>2. call'.pc \in {"walk", "idle", "spin"}
    <3>1. ASSUME NEW i, call' = [call EXCEPT !.wino = i, !.pc = "walk"]
          PROVE  call'.pc = "walk"
      BY <1>1, <3>1 DEF Fields
    <3>2. call' = Idle => call'.pc = "idle"
      BY DEF Idle
    <3>3. call' = Go("spin") => call'.pc = "spin"
      BY <1>1 DEF Go, Fields
    <3> QED BY <1>4, <3>1, <3>2, <3>3 DEF Root
  <2>3. CASE UNCHANGED ivars
    BY <1>2, <2>2, <2>3 DEF ivars
  <2>4. CASE geti_null(ROOT)
    BY <1>1, <2>1, <2>2, <2>4, GetiNullBits
  <2>5. ASSUME NEW i \in Inos, ipool_geti(ROOT, i)
        PROVE  BitInv'
    BY <1>1, <2>1, <2>2, <2>5, GetiBits
  <2> QED BY <1>4, <2>3, <2>4, <2>5 DEF Root, geti_spins
<1>5. CASE WalkEnds \/ WalkStays
  <2>1. call'.pc \in {"found", "walk"} /\ inode' = inode
    BY <1>1, <1>5 DEF WalkEnds, WalkStays, Go, Fields, ivars
  <2> QED BY <1>2, <2>1
<1>6. CASE WalkRefused
  BY <1>3, <1>6 DEF WalkRefused, Idle
<1>7. CASE Lookup
  <2> DEFINE w == call.wino
  <2>1. call'.pc \in {"missing", "enter", "spin"}
    BY <1>1, <1>7 DEF Lookup, Go, Fields
  <2>2. w \in Inos /\ call.pc = "walk"
    BY <1>7 DEF Inv, CallOK, Lookup
  <2>3. CASE UNCHANGED ivars
    BY <1>2, <2>1, <2>3 DEF ivars
  <2>4. CASE Name \in DOMAIN Entries /\ ~UNCHANGED ivars
    <3> DEFINE n == Entries[Name]
    <3>1. n \in Known \cap InoNums
      <4> DEFINE d == inode[w].dinode
      <4>1. d \in DOMAIN Tree /\ Name \in DOMAIN Tree[d] /\ n = Tree[d][Name]
        BY <1>7, <2>4 DEF Entries, Lookup, Walkable, inode_is_dir
      <4> HIDE DEF d, n
      <4>2. n \in {Tree[d][c] : c \in DOMAIN Tree[d]}
        BY <4>1
      <4>3. n \in Known
        BY <4>1, <4>2 DEF Known
      <4> QED BY <4>1, <4>3, NumsFacts
    <3> HIDE DEF n
    <3>2. \/ inode' = [inode EXCEPT ![w].count = Plus(inode[w].count)]
          \/ \E i \in Inos : ipool_geti(n, i)
          \/ geti_null(n)
      BY <1>7, <2>4 DEF Lookup, geti_spins, n
    <3>3. CASE inode' = [inode EXCEPT ![w].count = Plus(inode[w].count)]
      <4>1. inode[w].count >= 1
        BY <1>1, <2>2, HeldCount
      <4>2. \A j \in Inos : /\ inode'[j].num = inode[j].num
                            /\ j # w => inode'[j].count = inode[j].count
        BY <1>1, <3>3 DEF PoolOK, PoolType, InodeRec
      <4>3. inode[w].count # 0
        BY <4>1
      <4>4. NoNewInode
        BY <4>2, <4>3 DEF NoNewInode
      <4> QED BY <1>1, <2>1, <4>4, KeepBits
    <3> QED BY <1>1, <2>1, <3>1, <3>2, <3>3, GetiBits, GetiNullBits
  <2> QED BY <1>7, <2>3, <2>4 DEF Lookup
<1>8. CASE Missing
  <2>1. call'.pc \in {"alloci", "idle"} /\ call.pc = "missing"
    <3>1. CASE keep_pdir_ino
      BY <1>1, <1>8, <3>1 DEF Missing, Fields
    <3>2. CASE ~keep_pdir_ino
      BY <1>8, <3>2 DEF Missing, Idle
    <3> QED BY <3>1, <3>2
  <2>2. CASE keep_pdir_ino
    BY <1>2, <1>8, <2>1, <2>2 DEF Missing, ivars
  <2>3. CASE ~keep_pdir_ino
    BY <1>3, <1>8, <2>1, <2>3 DEF Missing
  <2> QED BY <2>2, <2>3
<1>9. CASE Enter
  <2>1. call'.pc = "walk" /\ call.pc = "enter"
    BY <1>1, <1>9 DEF Enter, Fields
  <2> QED BY <1>2, <1>3, <1>9, <2>1 DEF Enter, ivars
<1> QED BY <1>4, <1>5, <1>6, <1>7, <1>8, <1>9

(* The number that the bitmap gives out is nobody's, so that the inode has *)
(* the one reference of the call.                                          *)
LEMMA AllociBits ==
    ASSUME ~FaultyReads, BYTE >= 2, NumInodes >= BLOCK_SIZE, Inv, BitInv, Alloci
    PROVE  BitInv'
<1>1. DOMAIN call = Fields /\ imap' = imap /\ PoolOK /\ call.pc = "alloci"
  BY DEF Inv, PoolOK, CallOK, Alloci
<1>2. PICK n \in minix3_imap_get_free(imap, ~FaultyReads) :
        IF n = 0 THEN call' = Go("put_pdir") /\ UNCHANGED ivars
        ELSE \/ \E i \in Inos : /\ ipool_geti(n, i)
                               /\ call' = [call EXCEPT !.wino = i, !.pc = "seti"]
             \/ geti_null(n) /\ call' = Go("put_pdir")
             \/ geti_spins(n) /\ call' = Go("spin")
  BY DEF Alloci
<1>3. ASSUME call' \in {Go("put_pdir"), Go("spin")}
      PROVE  call'.pc \notin {"seti", "abort"}
  BY <1>1, <1>3 DEF Go, Fields
<1>4. CASE UNCHANGED ivars /\ call' \in {Go("put_pdir"), Go("spin")}
  BY <1>1, <1>3, <1>4, KeepBits DEF NoNewInode, ivars
<1>5. ASSUME n # 0
      PROVE  n \in InoNums /\ Bit(n) \notin imap
  <2>1. n \in 0..(NumInodes - 1) /\ MayBeFree(imap, n, ~FaultyReads)
    BY <1>5 DEF minix3_imap_get_free
  <2>2. InBitmap(n)
    BY <2>1, InodesInBitmap
  <2> QED BY <1>5, <2>1, <2>2, LayoutAssumption, FsAssumption DEF MayBeFree
<1>6. ASSUME n # 0, geti_null(n), call' = Go("put_pdir")
      PROVE  BitInv'
  BY <1>1, <1>3, <1>5, <1>6, GetiNullBits
<1>7. ASSUME n # 0, NEW i \in Inos, ipool_geti(n, i),
             call' = [call EXCEPT !.wino = i, !.pc = "seti"]
      PROVE  BitInv'
  <2>1. call'.pc = "seti" /\ call'.wino = i
    BY <1>1, <1>7 DEF Fields
  <2>2. inode[i].count \in Nat /\ inode[i].count + 1 < UINT_MOD
    BY <1>1, CountBound
  <2>3. /\ CountsPlus(i, 1)
        /\ \A j \in Inos : j # i => inode'[j] = inode[j]
        /\ inode[i].count # 0 => inode[i].num = n
    BY <1>1, <1>5, <1>7, <2>2, GetiPool
  <2>4. inode[i].count = 0
    BY <1>1, <1>5, <1>7, <2>3 DEF BitInv, Marked
  <2>5. inode'[i].count = 1
    BY <2>3, <2>4 DEF CountsPlus
  <2> QED BY <1>1, <2>1, <2>3, <2>5 DEF BitInv, Marked
<1> QED BY <1>2, <1>4, <1>6, <1>7 DEF geti_spins

LEMMA SetiBits ==
    ASSUME Inv, BitInv, Seti
    PROVE  BitInv'
<1> DEFINE w == call.wino
<1>1. /\ DOMAIN call = Fields /\ PoolOK /\ call.pc = "seti" /\ w \in Inos
      /\ call.entry = NULL /\ inode[w].count = 1
  BY DEF Inv, PoolOK, CallOK, Seti, BitInv
<1>2. CASE minix3_imap_set(inode[w].num) /\ call' = Go("linked") /\ UNCHANGED ivars
  <2>1. call'.pc = "linked" /\ inode' = inode
    BY <1>1, <1>2 DEF Go, Fields, ivars
  <2> QED BY <1>1, <1>2, <2>1 DEF BitInv, Marked, minix3_imap_set
<1>3. CASE ipool_puti(w) /\ call' = [call EXCEPT !.wino = NULL, !.pc = "put_pdir"]
           /\ UNCHANGED imap
  <2>1. call'.pc = "put_pdir"
    BY <1>1, <1>3 DEF Fields
  <2>2. CountsPlus(w, -1) /\ \A j \in Inos : inode'[j].num = inode[j].num
    <3>1. inode[w].count >= 1
      BY <1>1
    <3> QED BY <1>1, <1>3, <3>1, PutiPool
  <2>3. /\ inode'[w].count = 0
        /\ \A j \in Inos : j # w => inode'[j].count = inode[j].count
    <3>1. \A j \in Inos : inode[j].count \in Nat
      BY <1>1, CountBound
    <3> QED BY <1>1, <2>2, <3>1 DEF CountsPlus
  <2>4. call.pc # "twice" /\ imap' = imap
    BY <1>1, <1>3
  <2> QED BY <1>1, <2>1, <2>2, <2>3, <2>4 DEF BitInv, Marked
<1> QED BY <1>1, <1>2, <1>3 DEF Seti

LEMMA OpenBits ==
    ASSUME Inv, BitInv,
           Linked \/ Found \/ AllocFte \/ AllocFd \/ PutFte \/ PutIno \/ PutPdir
    PROVE  BitInv'
<1>1. DOMAIN call = Fields /\ imap' = imap /\ PoolOK
      /\ call.pc \in {"linked", "found", "fte", "fd", "put_fte", "put_ino", "put_pdir"}
  BY DEF Inv, PoolOK, CallOK, Linked, Found, AllocFte, AllocFd, PutFte, PutIno, PutPdir
<1>2. ASSUME NEW i \in Inos, i \in {call.wino, call.pdir}, call.entry = NULL, ipool_puti(i)
      PROVE  NoNewInode
  BY <1>1, <1>2, HeldCount, PutiNoNew
<1>3. ASSUME inode_unlock(call.wino) \/ UNCHANGED ivars, call.wino \in Inos
      PROVE  NoNewInode
  BY <1>1, <1>3 DEF inode_unlock, ivars, PoolOK, PoolType, InodeRec, NoNewInode
<1>4. CASE Linked
  <2>1. call'.pc = "fte" /\ call.pdir \in Inos /\ call.entry = NULL
    BY <1>1, <1>4 DEF Linked, Fields, Inv, CallOK
  <2> QED BY <1>1, <1>2, <1>4, <2>1, KeepBits DEF Linked
<1>5. CASE Found
  <2>1. call'.pc = "fte" /\ call.wino \in Inos
    BY <1>1, <1>5 DEF Found, Go, Fields, Inv, CallOK
  <2> QED BY <1>1, <1>3, <1>5, <2>1, KeepBits DEF Found
<1>6. CASE AllocFte
  <2>1. call'.pc \in {"fd", "put_ino"} /\ inode' = inode
    BY <1>1, <1>6 DEF AllocFte, Go, Fields, ivars
  <2> QED BY <1>1, <2>1, KeepBits DEF NoNewInode
<1>7. CASE AllocFd
  <2>1. call'.pc \in {"idle", "put_fte"} /\ call.wino \in Inos
    BY <1>1, <1>7 DEF AllocFd, Go, Fields, Idle, Inv, CallOK
  <2> QED BY <1>1, <1>3, <1>7, <2>1, KeepBits DEF AllocFd
<1>8. CASE PutFte
  <2> DEFINE t == call.entry
  <2>1. call'.pc = "put_ino" /\ t \in Ftes /\ call.pc = "put_fte"
    BY <1>1, <1>8 DEF PutFte, Go, Fields, Inv, CallOK
  <2>2. fte[t].count # 0
    <3>1. fte[t].count = Cardinality(FdsOf(t)) + Pending(t) /\ Pending(t) = 1
          /\ Cardinality(FdsOf(t)) \in Nat
      BY <2>1, FdsBounds, FNodesFacts DEF Pending, Inv, CountsFds
    <3> QED BY <3>1
  <2>3. fte[t].inode \in Inos /\ inode[fte[t].inode].count >= 1
    BY <2>1, <2>2, EntryReferences
  <2>4. NoNewInode
    <3>1. CASE ipool_puti(fte[t].inode)
      BY <2>1, <2>3, <3>1, PutiNoNew
    <3>2. CASE inode' = inode
      BY <3>2 DEF NoNewInode
    <3> QED BY <1>8, <3>1, <3>2 DEF PutFte, file_table_release_entry, ivars
  <2> QED BY <1>1, <2>1, <2>4, KeepBits
<1>9. CASE PutIno
  <2>1. /\ call.wino \in Inos /\ call'.pc \in {"twice", "idle", "put_pdir"}
        /\ call.entry # NULL => call'.pc = "twice"
    BY <1>1, <1>9 DEF PutIno, Go, Fields, Idle, Inv, CallOK
  <2>2. CASE call.entry = NULL
    <3>1. NoNewInode
      BY <1>2, <1>9, <2>1, <2>2 DEF PutIno
    <3>2. call'.pc \notin {"seti", "abort"}
      BY <2>1
    <3> QED BY <1>1, <3>1, <3>2, KeepBits
  <2>3. CASE call.entry # NULL
    BY <1>1, <2>1, <2>3 DEF BitInv
  <2> QED BY <2>2, <2>3
<1>10. CASE PutPdir
  <2>1. call'.pc = "idle" /\ call.pdir \in Inos /\ call.entry = NULL
    BY <1>1, <1>10 DEF PutPdir, Idle, Inv, CallOK
  <2> QED BY <1>1, <1>2, <1>10, <2>1, KeepBits DEF PutPdir
<1> QED BY <1>4, <1>5, <1>6, <1>7, <1>8, <1>9, <1>10

LEMMA DescriptorBits ==
    ASSUME Inv, BitInv, NEW k \in Fds, fs_close(k) \/ fs_write(k) \/ dup(k)
    PROVE  BitInv'
<1> DEFINE t == fd[k]
           i == fte[t].inode
<1>1. call.pc = "idle" /\ call' = call /\ t \in Ftes /\ imap' = imap
  BY DEF fs_close, fs_write, dup, fd_table_dealloc_entry, fd_table_dup_entry,
         Inv, TablesOK
<1>2. fte[t].count # 0
  <2>1. fte[t].count = Cardinality(FdsOf(t)) + Pending(t) /\ Pending(t) = 0
    BY <1>1 DEF Pending, Inv, CountsFds
  <2>2. Cardinality(FdsOf(t)) # 0 /\ Cardinality(FdsOf(t)) \in Nat
    BY FdsBounds, FNodesFacts
  <2> QED BY <2>1, <2>2
<1>3. i \in Inos /\ inode[i].count >= 1
  BY <1>1, <1>2, EntryReferences
<1>4. NoNewInode
  <2>1. CASE ipool_puti(i)
    BY <1>1, <1>3, <2>1, PutiNoNew
  <2>2. CASE inode_unlock(i) \/ inode_lock(i)
    BY <1>3, <2>2 DEF inode_unlock, inode_lock, Inv, PoolType, InodeRec, NoNewInode
  <2>3. CASE inode' = inode
    BY <2>3 DEF NoNewInode
  <2> QED BY <2>1, <2>2, <2>3
          DEF fs_close, fs_write, dup, fd_table_dealloc_entry, fd_table_dup_entry,
              file_table_release_entry, ivars
<1>5. call.pc \notin {"seti", "twice"} /\ call'.pc \notin {"seti", "abort"}
  BY <1>1
<1> QED BY <1>1, <1>4, <1>5, KeepBits

LEMMA StepBits ==
    ASSUME ~FaultyReads, BYTE >= 2, NumInodes >= BLOCK_SIZE,
           Inv, BitInv, [Next \/ Halt]_vars
    PROVE  BitInv'
<1>1. CASE fs_open \/ fs_creat
  <2>1. call.pc = "idle" /\ call'.pc = "root" /\ inode' = inode /\ imap' = imap
    BY <1>1 DEF fs_open, fs_creat, Start, Idle, ivars
  <2> QED BY <2>1, KeepBits DEF NoNewInode
<1>2. CASE \E k \in Fds : fs_close(k) \/ fs_write(k) \/ dup(k)
  BY <1>2, DescriptorBits
<1>3. CASE Root \/ WalkEnds \/ WalkRefused \/ WalkStays \/ Lookup \/ Missing \/ Enter
  BY <1>3, WalkBits
<1>4. CASE Alloci \/ Seti
  BY <1>4, AllociBits, SetiBits
<1>5. CASE Linked \/ Found \/ AllocFte \/ AllocFd \/ PutFte \/ PutIno \/ PutPdir
  BY <1>5, OpenBits
<1>6. CASE Halt \/ UNCHANGED vars
  <2>1. inode' = inode /\ call' = call /\ imap' = imap
    BY <1>6 DEF Halt, vars
  <2> QED BY <2>1 DEF BitInv, Marked
<1> QED BY <1>1, <1>2, <1>3, <1>4, <1>5, <1>6 DEF Next, Step

LEMMA InitBits == Init => BitInv
<1> SUFFICES ASSUME Init PROVE BitInv
  OBVIOUS
<1>1. call.pc = "idle" /\ imap = BitsOf(Known)
  BY DEF Init, Idle, Known
<1>2. ROOT \in Known
  BY FsAssumption DEF Known
<1>3. ASSUME NEW i \in Inos, inode[i].count # 0
      PROVE  Bit(inode[i].num) \in imap
  BY <1>1, <1>2, <1>3, KnownBits DEF Init
<1> QED BY <1>1, <1>3 DEF BitInv, Marked

(* minix3.c:489, assert(1 == ino->count), does not fail if every read      *)
(* succeeds and the bitmap reaches as far as the inodes: it does if there  *)
(* are at least as many inodes as a block has bytes.                       *)
THEOREM FsAssertHolds ==
    ASSUME ~FaultyReads, BYTE >= 2, NumInodes >= BLOCK_SIZE
    PROVE  Spec => []AssertHolds
<1>1. Inv /\ BitInv /\ [Next \/ Halt]_vars => BitInv'
  BY StepBits
<1>2. BitInv => AssertHolds
  BY DEF BitInv, AssertHolds
<1> QED BY <1>1, <1>2, InitBits, FsInductive, PTL DEF Spec

-----------------------------------------------------------------------------
(* Descriptors refer to the files that their paths name.  What a path      *)
(* names is defined by recursion over its tokens; the lemmas say how one   *)
(* component of the walk follows it.                                       *)

Smaller == {p \in Nat \X Nat : p[1] < p[2]}

LEMMA LeastNumber ==
    ASSUME NEW T \in SUBSET Nat, T # {}
    PROVE  \E x \in T : \A y \in T : x <= y
<1>1. IsWellFoundedOn(Smaller, Nat)
  BY NatLessThanWellFounded DEF OpToRel, Smaller
<1>2. PICK x \in T : \A y \in T : ~(<<y, x>> \in Smaller)
  BY <1>1, WFMin
<1>3. ASSUME NEW y \in T PROVE x <= y
  <2>1. x \in Nat /\ y \in Nat
    OBVIOUS
  <2>2. ~(<<y, x>> \in Smaller)
    BY <1>2
  <2>3. ~(y < x)
    BY <2>1, <2>2 DEF Smaller
  <2> QED BY <2>1, <2>3
<1> QED BY <1>3

(* Induction over an interval, for a set.                                  *)
LEMMA UpTo ==
    ASSUME NEW T, NEW a \in Nat, NEW b \in Nat, a \in T,
           \A k \in Nat : a <= k /\ k < b /\ k \in T => k + 1 \in T
    PROVE  \A k \in a..b : k \in T
<1> DEFINE S == {k \in a..b : k \notin T}
<1> SUFFICES ASSUME S # {} PROVE FALSE
  OBVIOUS
<1>1. S \in SUBSET Nat
  OBVIOUS
<1>3. PICK k \in S : \A j \in S : k <= j
  BY <1>1, LeastNumber
<1>4. k \in Nat /\ k # a /\ a <= k /\ k <= b /\ k \notin T
  OBVIOUS
<1>5. k - 1 \in Nat /\ k - 1 \in a..b /\ k - 1 < k /\ k - 1 < b
  BY <1>4
<1>6. k - 1 \notin S
  BY <1>3, <1>4, <1>5
<1>7. k - 1 \in T /\ (k - 1) + 1 = k
  BY <1>4, <1>5, <1>6
<1> QED BY <1>4, <1>5, <1>7

(* What every part of a path from its start names.                         *)
IsPrefixOf(f, p) ==
    f = [i \in 0..Len(p) |-> IF i = 0 THEN ROOT ELSE Files!Below(f[i - 1], p[i])]

Prefix(p) == CHOOSE f : IsPrefixOf(f, p)

LEMMA PrefixExists ==
    ASSUME NEW p, Len(p) \in Nat
    PROVE  \E f : IsPrefixOf(f, p)
<1> DEFINE Fits(f, n) == f = [i \in 0..n |->
                IF i = 0 THEN ROOT ELSE Files!Below(f[i - 1], p[i])]
           T == {n \in Nat : \E f : Fits(f, n)}
<1>1. 0 \in T
  <2> DEFINE f == [i \in 0..0 |-> ROOT]
  <2>1. f = [i \in 0..0 |-> IF i = 0 THEN ROOT ELSE Files!Below(f[i - 1], p[i])]
    OBVIOUS
  <2> QED BY <2>1
<1>2. ASSUME NEW n \in Nat, n \in T
      PROVE  n + 1 \in T
  <2>1. PICK f : Fits(f, n)
    BY <1>2
  <2> DEFINE g == [i \in 0..(n + 1) |->
                    IF i = n + 1 THEN Files!Below(f[n], p[n + 1]) ELSE f[i]]
  <2>2. ASSUME NEW i \in 0..(n + 1)
        PROVE  g[i] = IF i = 0 THEN ROOT ELSE Files!Below(g[i - 1], p[i])
    <3>1. CASE i = n + 1
      <4>1. i - 1 = n /\ g[n] = f[n] /\ i # 0
        BY <3>1
      <4> QED BY <3>1, <4>1
    <3>2. CASE i # n + 1
      <4>1. i \in 0..n /\ g[i] = f[i]
        BY <3>2
      <4>2. i # 0 => i - 1 \in 0..(n + 1) /\ g[i - 1] = f[i - 1]
        BY <3>2
      <4>3. f[i] = IF i = 0 THEN ROOT ELSE Files!Below(f[i - 1], p[i])
        BY <2>1, <4>1
      <4> HIDE DEF g
      <4> QED BY <4>1, <4>2, <4>3
    <3> QED BY <3>1, <3>2
  <2>3. g = [i \in 0..(n + 1) |-> g[i]]
    OBVIOUS
  <2> HIDE DEF g
  <2>4. Fits(g, n + 1)
    BY <2>2, <2>3
  <2> QED BY <2>4
<1> HIDE DEF T
<1>3. \A n \in 0..Len(p) : n \in T
  BY <1>1, <1>2, UpTo
<1>4. Len(p) \in T
  BY <1>3
<1> QED BY <1>4 DEF T, IsPrefixOf

LEMMA PrefixIs ==
    ASSUME NEW p, Len(p) \in Nat
    PROVE  /\ \A i \in 0..Len(p) :
                Prefix(p)[i] = IF i = 0 THEN ROOT ELSE Files!Below(Prefix(p)[i - 1], p[i])
           /\ Files!Resolve(p) = IF Files!IsRefused(p) THEN 0 ELSE Prefix(p)[Len(p)]
<1> DEFINE f == Prefix(p)
<1>1. IsPrefixOf(f, p)
  BY PrefixExists DEF Prefix
<1>2. f = [i \in 0..Len(p) |-> IF i = 0 THEN ROOT ELSE Files!Below(f[i - 1], p[i])]
  BY <1>1 DEF IsPrefixOf
<1>3. Files!Resolve(p) = IF Files!IsRefused(p) THEN 0 ELSE f[Len(p)]
  BY DEF Files!Resolve, Prefix, IsPrefixOf
<1> HIDE DEF f
<1>4. \A i \in 0..Len(p) : f[i] = IF i = 0 THEN ROOT ELSE Files!Below(f[i - 1], p[i])
  BY <1>2
<1> QED BY <1>3, <1>4 DEF f

(* Where nothing is, nothing is below (Below(0, t) = 0).                   *)
LEMMA NothingBelow ==
    ASSUME NEW p, Len(p) \in Nat, NEW m \in 0..Len(p), Prefix(p)[m] = 0
    PROVE  Files!Resolve(p) = 0
<1> DEFINE T == {k \in Nat : Prefix(p)[k] = 0}
<1>1. 0 \notin DOMAIN Tree /\ ROOT # 0
  BY NumsFacts, FsAssumption
<1>2. ASSUME NEW k \in Nat, m <= k, k < Len(p), k \in T
      PROVE  k + 1 \in T
  <2>1. Prefix(p)[k + 1] = Files!Below(0, p[k + 1])
    <3>1. k + 1 \in 0..Len(p) /\ k + 1 # 0 /\ (k + 1) - 1 = k
      BY <1>2
    <3>2. Prefix(p)[k] = 0
      BY <1>2
    <3> QED BY <3>1, <3>2, PrefixIs
  <2> QED BY <1>1, <2>1 DEF Files!Below
<1>3. Len(p) \in T
  <2>1. m \in Nat /\ m \in T /\ Len(p) \in m..Len(p)
    OBVIOUS
  <2> HIDE DEF T
  <2> QED BY <1>2, <2>1, UpTo
<1> QED BY <1>3, PrefixIs

(* A path names nothing, the root, or what is in some directory.           *)
LEMMA ResolveKnown ==
    ASSUME NEW p, Len(p) \in Nat
    PROVE  Files!Resolve(p) \in Known
<1> DEFINE T == {k \in Nat : Prefix(p)[k] \in Known}
<1>1. ROOT \in Known /\ 0 \in Known
  BY FsAssumption DEF Known
<1>2. ASSUME NEW k \in Nat, k < Len(p), k \in T
      PROVE  k + 1 \in T
  <2>1. Prefix(p)[k + 1] = Files!Below(Prefix(p)[k], p[k + 1])
    <3>1. k + 1 \in 0..Len(p) /\ k + 1 # 0 /\ (k + 1) - 1 = k
      BY <1>2
    <3> QED BY <3>1, PrefixIs
  <2> DEFINE d == Prefix(p)[k]
  <2>2. d \in Known
    BY <1>2
  <2> HIDE DEF d
  <2>3. Files!Below(d, p[k + 1]) \in Known
    BY <1>1, <2>2 DEF Files!Below, Known
  <2> QED BY <2>1, <2>3 DEF d
<1>3. Len(p) \in T
  <2>1. 0 \in T /\ Len(p) \in 0..Len(p)
    BY <1>1, PrefixIs
  <2> HIDE DEF T
  <2> QED BY <1>2, <2>1, UpTo
<1> QED BY <1>1, <1>3, PrefixIs

(* r is what is left of path p in directory or file d: none of what comes  *)
(* before it has two separators side by side, and it ends in one.          *)
Reached(p, r, d) ==
    \E m \in 0..Len(p) :
        /\ r = SubSeq(p, m + 1, Len(p))
        /\ Prefix(p)[m] = d
        /\ m = 0 => p[1] # SEP
        /\ m > 0 /\ m < Len(p) => p[m] = SEP
        /\ \A j \in 1..(m - 1) : p[j] # SEP \/ p[j + 1] # SEP

LEMMA PathFacts ==
    ASSUME NEW p \in Paths
    PROVE  /\ p \in Seq(STRING) /\ Len(p) \in Nat /\ Len(p) > 0
           /\ \A j \in 1..(Len(p) - 1) : p[j] = SEP \/ p[j + 1] = SEP
<1>1. p \in Seq(STRING) /\ p # << >>
  BY PathAssumption
<1> QED BY <1>1, PathAssumption

LEMMA StartReached ==
    ASSUME NEW p \in Paths
    PROVE  Reached(p, FromRoot(p), ROOT)
<1>1. p \in Seq(STRING) /\ Len(p) \in Nat /\ Len(p) > 0
  BY PathFacts
<1>2. Prefix(p)[0] = ROOT
  BY <1>1, PrefixIs
<1>3. CASE p[1] # SEP
  <2>1. FromRoot(p) = SubSeq(p, 0 + 1, Len(p))
    BY <1>1, <1>3 DEF FromRoot
  <2> QED BY <1>1, <1>2, <1>3, <2>1 DEF Reached
<1>4. CASE p[1] = SEP
  <2>1. FromRoot(p) = SubSeq(p, 1 + 1, Len(p))
    BY <1>1, <1>4 DEF FromRoot
  <2>2. Prefix(p)[1] = ROOT
    <3>1. 1 \in 0..Len(p) /\ 1 - 1 = 0
      BY <1>1
    <3>2. Prefix(p)[1] = Files!Below(ROOT, p[1])
      BY <1>1, <1>2, <3>1, PrefixIs
    <3> QED BY <1>4, <3>2 DEF Files!Below, SEP
  <2> DEFINE m == 1
  <2>3. m \in 0..Len(p) /\ m > 0 /\ 1..(m - 1) = {}
    BY <1>1
  <2> HIDE DEF m
  <2>4. Prefix(p)[m] = ROOT /\ FromRoot(p) = SubSeq(p, m + 1, Len(p)) /\ p[m] = SEP
    BY <1>4, <2>1, <2>2 DEF m
  <2>5. m # 0
    BY DEF m
  <2> QED BY <2>3, <2>4, <2>5 DEF Reached
<1> QED BY <1>3, <1>4

LEMMA EndReached ==
    ASSUME NEW p \in Paths, NEW d, Reached(p, << >>, d)
    PROVE  Files!Resolve(p) = d
<1>1. p \in Seq(STRING) /\ Len(p) \in Nat /\ Len(p) > 0
  BY PathFacts
<1>2. PICK m \in 0..Len(p) :
        /\ << >> = SubSeq(p, m + 1, Len(p))
        /\ Prefix(p)[m] = d
        /\ \A j \in 1..(m - 1) : p[j] # SEP \/ p[j + 1] # SEP
  BY DEF Reached
<1>3. m = Len(p)
  <2>1. Len(SubSeq(p, m + 1, Len(p))) = IF m < Len(p) THEN Len(p) - m ELSE 0
    BY <1>1
  <2>2. Len(<< >>) = 0
    OBVIOUS
  <2> DEFINE s == SubSeq(p, m + 1, Len(p))
  <2>3. Len(s) = 0
    <3> HIDE DEF s
    <3>1. s = << >>
      BY <1>2 DEF s
    <3> QED BY <2>2, <3>1
  <2> QED BY <1>1, <2>1, <2>3
<1>4. ~Files!IsRefused(p)
  BY <1>2, <1>3 DEF Files!IsRefused, SEP
<1> QED BY <1>1, <1>2, <1>3, <1>4, PrefixIs

(* Of the n components of a path, separators included, m are behind.       *)
LEMMA Remaining ==
    ASSUME NEW n \in Nat, NEW m \in 0..(n - 1), NEW l, l = n - m
    PROVE  /\ l \in Nat /\ (l = 1 \/ l = 2 \/ l > 2)
           /\ l = 1 => ~(m + 2 <= n) /\ ~(m + 2 < n)
           /\ l = 2 => m + 2 <= n /\ ~(m + 2 < n)
           /\ l > 2 => m + 2 <= n /\ m + 2 < n
OBVIOUS

(* The first component of what is left: _component_set(), minix3.c:96-131. *)
LEMMA ComponentIs ==
    ASSUME NEW p \in Paths, NEW m \in 0..(Len(p) - 1), NEW r,
           r = SubSeq(p, m + 1, Len(p)), p[m + 1] # SEP
    PROVE  /\ component(r)[1] = p[m + 1]
           /\ m + 2 <= Len(p) => p[m + 2] = SEP
           /\ m + 2 < Len(p) => rest(r) = SubSeq(p, m + 3, Len(p))
           /\ ~(m + 2 < Len(p)) => rest(r) = << >>
<1>1. /\ p \in Seq(STRING) /\ Len(p) \in Nat /\ Len(p) > 0
      /\ \A j \in 1..(Len(p) - 1) : p[j] = SEP \/ p[j + 1] = SEP
  BY PathFacts
<1>2. /\ r \in Seq(STRING) /\ Len(r) = Len(p) - m /\ Len(r) >= 1
      /\ \A k \in 1..Len(r) : r[k] = p[m + k]
  BY <1>1
<1>6. /\ Len(r) \in Nat /\ (Len(r) = 1 \/ Len(r) = 2 \/ Len(r) > 2)
      /\ Len(r) = 1 => ~(m + 2 <= Len(p)) /\ ~(m + 2 < Len(p))
      /\ Len(r) = 2 => m + 2 <= Len(p) /\ ~(m + 2 < Len(p))
      /\ Len(r) > 2 => m + 2 <= Len(p) /\ m + 2 < Len(p)
  BY <1>1, <1>2, Remaining
<1>3. m + 2 <= Len(p) => p[m + 2] = SEP
  <2> SUFFICES ASSUME m + 2 <= Len(p) PROVE p[m + 2] = SEP
    OBVIOUS
  <2>1. m + 1 \in 1..(Len(p) - 1) /\ (m + 1) + 1 = m + 2
    BY <1>1
  <2> QED BY <1>1, <2>1
<1>4. CASE Len(r) = 1
  <2>1. Separators(r) = {}
    BY <1>4 DEF Separators
  <2>2. component(r) = r /\ rest(r) = << >>
    BY <2>1 DEF component, rest, IsLastComponent
  <2>3. r[1] = p[m + 1]
    BY <1>2
  <2>4. ~(m + 2 <= Len(p)) /\ ~(m + 2 < Len(p))
    BY <1>4, <1>6
  <2> QED BY <2>2, <2>3, <2>4
<1>5. CASE Len(r) = 2 \/ Len(r) > 2
  <2>1. 2 \in Separators(r) /\ \A j \in Separators(r) : 2 <= j
    <3>1. r[2] = p[m + 2] /\ m + 2 <= Len(p)
      <4>1. 2 \in 1..Len(r)
        BY <1>5, <1>6
      <4> QED BY <1>2, <1>5, <1>6, <4>1
    <3>2. 2 \in 2..Len(r)
      BY <1>5, <1>6
    <3> QED BY <1>3, <3>1, <3>2 DEF Separators
  <2>2. FirstSep(r) = 2
    <3>1. FirstSep(r) \in Separators(r) /\ \A i \in Separators(r) : FirstSep(r) <= i
      BY <2>1 DEF FirstSep
    <3>2. FirstSep(r) \in Nat /\ FirstSep(r) <= 2 /\ 2 <= FirstSep(r)
      BY <2>1, <3>1 DEF Separators
    <3> QED BY <3>2
  <2>3. CASE Len(r) = 2
    <3>1. component(r) = r /\ rest(r) = << >>
      BY <2>2, <2>3 DEF component, rest, IsLastComponent
    <3>2. r[1] = p[m + 1]
      BY <1>2, <2>3
    <3> QED BY <1>3, <1>6, <2>3, <3>1, <3>2
  <2>4. CASE Len(r) # 2
    <3>1. ~IsLastComponent(r)
      BY <2>1, <2>2, <2>4 DEF IsLastComponent
    <3>2. component(r) = SubSeq(r, 1, 1) /\ rest(r) = SubSeq(r, 3, Len(r))
      <4>1. FirstSep(r) - 1 = 1 /\ FirstSep(r) + 1 = 3
        BY <2>2
      <4> QED BY <3>1, <4>1 DEF component, rest
    <3>3. component(r)[1] = r[1] /\ r[1] = p[m + 1]
      BY <1>1, <1>2, <3>2
    <3>4. SubSeq(r, 3, Len(r)) = SubSeq(p, m + 3, Len(p))
      <4>1. Len(r) >= 2
        BY <1>5, <1>6
      <4> QED BY <1>1, <1>2, <4>1
    <3>5. m + 2 < Len(p)
      BY <1>5, <1>6, <2>4
    <3> QED BY <1>3, <3>2, <3>3, <3>4, <3>5
  <2> QED BY <2>3, <2>4
<1> QED BY <1>4, <1>5, <1>6

(* One component of the walk: it is refused if it begins with a separator, *)
(* and otherwise the walk goes to what is below by its name, if anything.  *)
LEMMA StepReached ==
    ASSUME NEW p \in Paths, NEW r, NEW d, Reached(p, r, d), r # << >>
    PROVE  /\ ~_component_is_valid(component(r)) => Files!Resolve(p) = 0
           /\ _component_is_valid(component(r)) =>
                LET e == Files!Below(d, NameOf(component(r)))
                IN  /\ NameOf(component(r)) # SEP
                    /\ e = 0 => Files!Resolve(p) = 0
                    /\ Reached(p, rest(r), e)
<1>1. p \in Seq(STRING) /\ Len(p) \in Nat /\ Len(p) > 0
  BY PathFacts
<1>2. PICK m \in 0..Len(p) :
        /\ r = SubSeq(p, m + 1, Len(p))
        /\ Prefix(p)[m] = d
        /\ m = 0 => p[1] # SEP
        /\ m > 0 /\ m < Len(p) => p[m] = SEP
        /\ \A j \in 1..(m - 1) : p[j] # SEP \/ p[j + 1] # SEP
  BY DEF Reached
<1>3. m \in 0..(Len(p) - 1)
  <2>1. CASE m = Len(p)
    <3>1. r = << >>
      BY <1>1, <1>2, <2>1
    <3> QED BY <3>1
  <2> QED BY <1>1, <2>1
<1>4. CASE p[m + 1] = SEP
  <2>1. m > 0 /\ p[m] = SEP /\ m \in 1..(Len(p) - 1)
    BY <1>1, <1>2, <1>3, <1>4
  <2>2. Files!IsRefused(p)
    BY <1>4, <2>1 DEF Files!IsRefused, SEP
  <2>3. Files!Resolve(p) = 0
    BY <1>1, <2>2, PrefixIs
  <2>4. component(r)[1] = SEP
    <3>1. r[1] = SEP /\ r \in Seq(STRING) /\ Len(r) \in Nat /\ Len(r) >= 1
      BY <1>1, <1>2, <1>3, <1>4
    <3>2. CASE IsLastComponent(r)
      BY <3>1, <3>2 DEF component
    <3>3. CASE ~IsLastComponent(r)
      <4>1. Separators(r) # {} /\ Separators(r) \subseteq Nat
        BY <3>3 DEF IsLastComponent, Separators
      <4>2. FirstSep(r) \in Separators(r)
        <5>1. \E j \in Separators(r) : \A i \in Separators(r) : j <= i
          BY <4>1, LeastNumber
        <5> QED BY <5>1 DEF FirstSep
      <4>3. FirstSep(r) - 1 \in 1..Len(r)
        BY <3>1, <4>2 DEF Separators
      <4>4. component(r) = SubSeq(r, 1, FirstSep(r) - 1)
        BY <3>3 DEF component
      <4> DEFINE n == FirstSep(r) - 1
      <4> HIDE DEF n
      <4>5. SubSeq(r, 1, n)[1] = r[1]
        BY <3>1, <4>3 DEF n
      <4> QED BY <3>1, <4>4, <4>5 DEF n
    <3> QED BY <3>2, <3>3
  <2> QED BY <2>3, <2>4 DEF _component_is_valid
<1>5. CASE p[m + 1] # SEP
  <2> DEFINE name == p[m + 1]
             e == Files!Below(d, name)
  <2>1. /\ component(r)[1] = name
        /\ m + 2 <= Len(p) => p[m + 2] = SEP
        /\ m + 2 < Len(p) => rest(r) = SubSeq(p, m + 3, Len(p))
        /\ ~(m + 2 < Len(p)) => rest(r) = << >>
    BY <1>2, <1>3, <1>5, ComponentIs
  <2>2. Prefix(p)[m + 1] = e
    <3>1. m + 1 \in 0..Len(p) /\ m + 1 # 0 /\ (m + 1) - 1 = m
      BY <1>1, <1>3
    <3> QED BY <1>1, <1>2, <3>1, PrefixIs
  <2> HIDE DEF e
  <2>3. e = 0 => Files!Resolve(p) = 0
    <3>1. m + 1 \in 0..Len(p)
      BY <1>1, <1>3
    <3> QED BY <1>1, <2>2, <3>1, NothingBelow
  <2>4. \A j \in 1..(m + 1) : j + 1 <= Len(p) => p[j] # SEP \/ p[j + 1] # SEP
    <3> SUFFICES ASSUME NEW j \in 1..(m + 1), j + 1 <= Len(p)
                 PROVE  p[j] # SEP \/ p[j + 1] # SEP
      OBVIOUS
    <3>1. j \in 1..(m - 1) \/ j = m \/ j = m + 1
      BY <1>3
    <3> QED BY <1>2, <1>5, <3>1
  <2>5. CASE m + 1 = Len(p)
    <3> DEFINE k == m + 1
    <3>1. k \in 0..Len(p) /\ k # 0 /\ ~(k < Len(p)) /\ k = Len(p)
      BY <1>1, <1>3, <2>5
    <3>2. rest(r) = << >>
      BY <1>1, <2>1, <2>5
    <3>3. SubSeq(p, k + 1, Len(p)) = << >>
      BY <1>1, <3>1
    <3>4. \A j \in 1..(k - 1) : p[j] # SEP \/ p[j + 1] # SEP
      <4>1. \A j \in 1..(k - 1) : j \in 1..(m + 1) /\ j + 1 <= Len(p)
        BY <1>1, <1>3, <2>5
      <4> QED BY <2>4, <4>1
    <3> HIDE DEF k
    <3>5. Prefix(p)[k] = e
      BY <2>2 DEF k
    <3>6. Reached(p, rest(r), e)
      BY <3>1, <3>2, <3>3, <3>4, <3>5 DEF Reached
    <3> QED BY <1>5, <2>1, <2>3, <3>6 DEF _component_is_valid, NameOf, e
  <2>6. CASE m + 1 # Len(p)
    <3> DEFINE k == m + 2
    <3>1. k \in 0..Len(p) /\ k # 0 /\ k - 1 = m + 1 /\ k = m + 2
      BY <1>1, <1>3, <2>6
    <3>2. p[k] = SEP
      BY <2>1, <3>1
    <3>3. SubSeq(p, k + 1, Len(p)) = rest(r)
      <4>1. CASE m + 2 < Len(p)
        BY <2>1, <3>1, <4>1
      <4>2. CASE ~(m + 2 < Len(p))
        BY <1>1, <2>1, <3>1, <4>2
      <4> QED BY <4>1, <4>2
    <3>4. \A j \in 1..(k - 1) : p[j] # SEP \/ p[j + 1] # SEP
      <4>1. \A j \in 1..(k - 1) : j \in 1..(m + 1) /\ j + 1 <= Len(p)
        BY <1>1, <1>3, <3>1
      <4> QED BY <2>4, <4>1
    <3> HIDE DEF k
    <3>5. Prefix(p)[k] = e
      <4>1. Prefix(p)[k] = Files!Below(Prefix(p)[k - 1], p[k])
        BY <1>1, <3>1, PrefixIs
      <4>2. Prefix(p)[k - 1] = e
        BY <2>2, <3>1
      <4> QED BY <3>2, <4>1, <4>2 DEF Files!Below, SEP
    <3>6. Reached(p, rest(r), e)
      BY <3>1, <3>2, <3>3, <3>4, <3>5 DEF Reached
    <3> QED BY <1>5, <2>1, <2>3, <3>6 DEF _component_is_valid, NameOf, e
  <2> QED BY <2>5, <2>6
<1> QED BY <1>4, <1>5

-----------------------------------------------------------------------------
(* The pool while every read succeeds: every number is in it at most once, *)
(* and only an inode that nobody references gets another number.           *)

Numbered ==
    \A i \in Inos :
        /\ inode[i].num # 0 => /\ inode[i].num \in InoNums /\ inode[i].valid
                               /\ \A j \in Inos : inode[j].num = inode[i].num => i = j
        /\ call.pc # "twice" /\ inode[i].count # 0 => inode[i].num # 0

SameNums == \A j \in Inos : inode'[j].num = inode[j].num /\ inode'[j].valid = inode[j].valid
NoneNew  == \A j \in Inos : inode'[j].count # 0 => inode[j].count # 0
NumsKept == \A j \in Inos : inode[j].count # 0 => inode'[j].num = inode[j].num

LEMMA GetiNums ==
    ASSUME Inv, call.pc # "twice", Numbered, NEW n \in InoNums, NEW i \in Inos,
           ipool_geti(n, i)
    PROVE  Numbered' /\ NumsKept /\ inode'[i].num = n
<1>1. PoolOK /\ PoolType /\ n \in Nat /\ n # 0 /\ inode[i].count + 1 < UINT_MOD
  BY CountBound, NumsFacts DEF Inv, PoolOK
<1>2. /\ CountsPlus(i, 1) /\ inode'[i].num = n
      /\ \A j \in Inos : j # i => inode'[j] = inode[j]
      /\ inode[i].count # 0 => inode[i].num = n
  BY <1>1, GetiPool
<1>3. NumsKept
  BY <1>2 DEF NumsKept
<1>4. inode'[i].valid /\ \A j \in Inos : inode[j].num = n => i = j
  <2>1. CASE geti_hit(n, i)
    <3>1. inode[i].num = n /\ inode'[i].valid = inode[i].valid
      BY <1>1, <2>1 DEF geti_hit, IsIno, PoolType, InodeRec
    <3> QED BY <1>1, <3>1 DEF Numbered
  <2>2. CASE geti_miss(n, i)
    <3>1. inode'[i].valid
      BY <1>1, <2>2 DEF geti_miss, PoolType
    <3> QED BY <2>2, <3>1 DEF geti_miss, NoIno
  <2> QED BY <2>1, <2>2 DEF ipool_geti
<1>5. Numbered'
  <2> SUFFICES ASSUME NEW j \in Inos
               PROVE  /\ inode'[j].num # 0 =>
                            /\ inode'[j].num \in InoNums /\ inode'[j].valid
                            /\ \A k \in Inos : inode'[k].num = inode'[j].num => j = k
                      /\ inode'[j].count # 0 => inode'[j].num # 0
    BY DEF Numbered
  <2>1. CASE j = i
    BY <1>1, <1>2, <1>4, <2>1
  <2>2. CASE j # i
    BY <1>2, <1>4, <2>2 DEF Numbered
  <2> QED BY <2>1, <2>2
<1> QED BY <1>2, <1>3, <1>5

LEMMA SameNumbered ==
    ASSUME Numbered, call.pc # "twice", SameNums, call'.pc = "twice" \/ NoneNew
    PROVE  Numbered' /\ NumsKept
BY DEF Numbered, SameNums, NoneNew, NumsKept

LEMMA PutiSameNums ==
    ASSUME Inv, NEW i \in Inos, ipool_puti(i)
    PROVE  SameNums
BY DEF Inv, PoolType, InodeRec, ipool_puti, SameNums

LEMMA PutiNums ==
    ASSUME Inv, call.pc # "twice", NEW i \in Inos, inode[i].count >= 1, ipool_puti(i)
    PROVE  SameNums /\ NoneNew
BY PutiSameNums, PutiNoNew DEF NoNewInode, NoneNew

LEMMA LockNums ==
    ASSUME Inv, NEW i \in Inos, inode_unlock(i) \/ inode_lock(i)
    PROVE  SameNums /\ NoneNew
BY DEF Inv, PoolType, InodeRec, inode_unlock, inode_lock, SameNums, NoneNew

LEMMA KeptNums ==
    ASSUME UNCHANGED ivars
    PROVE  SameNums /\ NoneNew
BY DEF ivars, SameNums, NoneNew

(* There is no inode left that nobody references.                          *)
Full == \A i \in Inos : inode[i].count # 0

LEMMA NullIsFull ==
    ASSUME ~FaultyReads, Inv, call.pc # "twice", NEW n \in InoNums, geti_null(n)
    PROVE  UNCHANGED ivars /\ NoIno(n) /\ Full
<1>1. geti_none(n)
  BY NumsFacts DEF geti_null, geti_fails
<1>2. list_is_empty(ilink, Dummy) /\ NoIno(n) /\ UNCHANGED ivars
  BY <1>1 DEF geti_none
<1>3. FreeInos = {}
  BY <1>2, INodesFacts, HeadMember DEF Inv, PoolType
<1> QED BY <1>2, <1>3 DEF FreeInos, Full

LEMMA FileIs ==
    ASSUME Inv, NEW k \in Fds
    PROVE  /\ fd[k] = NULL => file[k] = NULL
           /\ fd[k] # NULL => /\ file[k] = inode[fte[fd[k]].inode].num
                              /\ file[k] \in Nat /\ file[k] # NULL
<1>1. CASE fd[k] = NULL
  BY <1>1 DEF file
<1>2. CASE fd[k] # NULL
  <2>1. file[k] = inode[fte[fd[k]].inode].num
    BY <1>2 DEF file
  <2>2. fte[fd[k]].inode \in Inos
    BY <1>2, OpenEntry
  <2>3. file[k] \in Nat
    BY <2>1, <2>2 DEF Inv, PoolType, InodeRec
  <2> QED BY <1>2, <2>1, <2>3, INodesFacts
<1> QED BY <1>1, <1>2

(* Open files stay what they are as long as descriptors and the entries in *)
(* use keep what they refer to.                                            *)
LEMMA FilesKept ==
    ASSUME Inv, call.pc # "twice", NumsKept, fd' = fd,
           \A t \in Ftes : fte[t].count # 0 => fte'[t].inode = fte[t].inode
    PROVE  file' = file
<1> DEFINE f(k) == IF fd[k] = NULL THEN NULL ELSE inode[fte[fd[k]].inode].num
           g(k) == IF fd'[k] = NULL THEN NULL ELSE inode'[fte'[fd'[k]].inode].num
<1>1. ASSUME NEW k \in Fds
      PROVE  f(k) = g(k)
  <2>1. CASE fd[k] = NULL
    BY <2>1
  <2>2. CASE fd[k] # NULL
    <3> DEFINE i == fte[fd[k]].inode
    <3>1. i \in Inos /\ inode[i].count >= 1 /\ fte'[fd[k]].inode = i
      BY <2>2, OpenEntry
    <3>2. inode[i].count \in Nat
      BY <3>1, CountBound
    <3>3. inode'[i].num = inode[i].num
      BY <3>1, <3>2 DEF NumsKept
    <3> QED BY <2>2, <3>1, <3>3
  <2> QED BY <2>1, <2>2
<1>2. file = [k \in Fds |-> f(k)] /\ file' = [k \in Fds |-> g(k)]
  BY DEF file
<1> HIDE DEF f, g
<1> QED BY <1>1, <1>2

(* How many files can be open in any case: every directory may be in the   *)
(* pool besides, because fs_creat() loses the references of directories.   *)
(* With more directories than inodes that is no number of files at all.    *)
CapacityFits ==
    /\ Capacity \in Nat
    /\ Capacity <= NUM_ENTRIES
    /\ Capacity # 0 => Capacity + Cardinality(DOMAIN Tree) <= IPOOL_SIZE

IsDir(i) == inode[i].num \in DOMAIN Tree

(* The root is there, and what has been lost are directories.              *)
Pinned ==
    /\ inode[icrd].num = ROOT
    /\ \A i \in Inos : lost[i] # 0 => IsDir(i)

OpenFds == {k \in Fds : fd[k] # NULL}
Crowded == Cardinality(OpenFds) >= Capacity

LEMMA OpenFdsFacts ==
    /\ IsFiniteSet(OpenFds) /\ Cardinality(OpenFds) \in Nat
    /\ Inv => {k \in Fds : file[k] # NULL} = OpenFds
<1>1. OpenFds \in SUBSET Fds
  BY DEF OpenFds
<1>2. IsFiniteSet(OpenFds) /\ Cardinality(OpenFds) \in Nat
  BY <1>1, FNodesFacts, FS_Subset, FS_CardinalityType
<1>3. ASSUME Inv PROVE {k \in Fds : file[k] # NULL} = OpenFds
  BY <1>3, FileIs DEF OpenFds
<1> QED BY <1>2, <1>3

(* If all inodes are referenced while the walk looks for a name, they are  *)
(* the directories and the open files.                                     *)
LEMMA FullCrowded ==
    ASSUME CapacityFits, Inv, Numbered, Pinned, Full,
           call.pc = "walk", call.pdir = NULL, IsDir(call.wino)
    PROVE  Crowded
<1> DEFINE D == DOMAIN Tree
           O == {file[k] : k \in OpenFds}
           f == [i \in Inos |-> inode[i].num]
           g == [k \in OpenFds |-> file[k]]
<1>1. call.new = NULL /\ call.wino \in Inos /\ call.entry = NULL
  BY INodesFacts DEF Inv, CallOK
<1>2. ASSUME NEW i \in Inos
      PROVE  inode[i].num \in D \cup O
  <2>1. inode[i].count = OpenRefs(i) + Holds(call, i) + One(i = icrd) + lost[i]
    BY DEF Inv, CountsRefs
  <2>2. /\ OpenRefs(i) \in Nat /\ Holds(call, i) \in Nat /\ lost[i] \in Nat
        /\ One(i = icrd) \in Nat
    BY OpenBounds, FNodesFacts, HoldsInt DEF Inv, LostOK, One
  <2>3. inode[i].count # 0
    BY DEF Full
  <2>4. CASE OpenRefs(i) # 0
    <3>1. PICK t \in Ftes : fte[t].count # 0 /\ fte[t].inode = i
      <4>1. OpenSet(i) # {}
        BY <2>4, OpenBounds, FS_EmptySet
      <4> QED BY <4>1 DEF OpenSet
    <3>2. fte[t].count = Cardinality(FdsOf(t)) + Pending(t) /\ Pending(t) = 0
      BY <1>1 DEF Inv, CountsFds, Pending
    <3>3. Cardinality(FdsOf(t)) # 0
      BY <3>1, <3>2
    <3>4. PICK k \in Fds : fd[k] = t
      BY <3>3, FdsBounds
    <3>5. k \in OpenFds /\ fd[k] # NULL
      BY <3>4, FNodesFacts DEF OpenFds
    <3>6. file[k] = inode[i].num
      BY <3>1, <3>4, <3>5, FileIs
    <3>7. file[k] \in O
      BY <3>5
    <3> QED BY <3>6, <3>7
  <2>5. CASE Holds(call, i) # 0
    <3>1. i = call.wino
      BY <1>1, <2>5, INodesFacts DEF Holds, One
    <3> QED BY <3>1 DEF IsDir
  <2>6. CASE One(i = icrd) # 0
    BY <2>6, FsAssumption DEF One, Pinned
  <2>7. CASE lost[i] # 0
    BY <2>7 DEF Pinned, IsDir
  <2> QED BY <2>1, <2>2, <2>3, <2>4, <2>5, <2>6, <2>7
<1>3. IsFiniteSet(D) /\ Cardinality(D) \in Nat
  <2>1. NumInodes \in Nat /\ D \in SUBSET (1..NumInodes)
    BY FsAssumption, LayoutAssumption
  <2>2. IsFiniteSet(1..NumInodes)
    BY <2>1, FS_Interval
  <2> QED BY <2>1, <2>2, FS_Subset, FS_CardinalityType
<1>4. IsFiniteSet(O) /\ Cardinality(O) \in Nat /\ Cardinality(O) <= Cardinality(OpenFds)
  <2>1. g \in Surjection(OpenFds, O)
    BY DEF Surjection
  <2> HIDE DEF g, O
  <2>2. IsFiniteSet(O) /\ Cardinality(O) <= Cardinality(OpenFds)
    BY <2>1, OpenFdsFacts, FS_Surjection
  <2> QED BY <2>2, FS_CardinalityType
<1> HIDE DEF O
<1>5. f \in Injection(Inos, D \cup O)
  <2>1. f \in [Inos -> D \cup O]
    BY <1>2
  <2>2. ASSUME NEW i \in Inos, NEW j \in Inos, f[i] = f[j]
        PROVE  i = j
    BY <1>1, <2>2 DEF Full, Numbered
  <2> QED BY <2>1, <2>2 DEF Injection, IsInjective
<1> HIDE DEF f, D
<1>6. /\ IsFiniteSet(D \cup O)
      /\ Cardinality(D \cup O) = Cardinality(D) + Cardinality(O) - Cardinality(D \cap O)
  BY <1>3, <1>4, FS_Union
<1>7. Cardinality(D \cap O) \in Nat /\ Cardinality(D \cup O) \in Nat
  BY <1>3, <1>6, FS_Intersection, FS_CardinalityType
<1>8. Cardinality(Inos) <= Cardinality(D \cup O) /\ Cardinality(Inos) = IPOOL_SIZE
  <2>1. Cardinality(Inos) <= Cardinality(D \cup O)
    BY <1>5, <1>6, FS_Injection
  <2>2. IPOOL_SIZE \in Nat /\ IPOOL_SIZE >= 1
    BY INodesFacts
  <2>3. Cardinality(Inos) = IPOOL_SIZE
    BY <2>2, FS_Interval DEF Inos
  <2> QED BY <2>1, <2>3
<1>9. /\ Capacity \in Nat /\ IPOOL_SIZE \in Nat
      /\ Capacity # 0 => Capacity + Cardinality(D) <= IPOOL_SIZE
  BY INodesFacts DEF CapacityFits, D
<1>10. Cardinality(OpenFds) >= Capacity
  BY <1>3, <1>4, <1>6, <1>7, <1>8, <1>9, OpenFdsFacts
<1> QED BY <1>10 DEF Crowded

-----------------------------------------------------------------------------
(* What the variables of a call are for the path that it was given         *)

Resolved == Files!Resolve(call.path)

(* The working inode is a new file, which no path names and nobody has.    *)
NewFile ==
    /\ Resolved = 0
    /\ inode[call.wino].num \notin Files!Named
    /\ \A k \in Fds : file[k] # inode[call.wino].num

OnItsWay ==
    /\ call.pc # "idle" => call.path \in Paths
    /\ call.pc = "root" => call.rest = FromRoot(call.path)
    /\ call.pc = "walk" => Reached(call.path, call.rest, inode[call.wino].num)
    /\ call.pc = "enter" => /\ call.rest # << >>
                            /\ Reached(call.path, rest(call.rest), inode[call.new].num)
    /\ call.pc \in {"missing", "alloci"} => Resolved = 0 \/ (Crowded /\ Full)
    /\ call.pc \in {"missing", "enter"} => IsDir(call.wino)
    /\ call.pc \in {"put_ino", "put_pdir"} /\ call.entry = NULL => Resolved = 0 \/ Crowded
    /\ call.pc \in {"seti", "linked"} => NewFile
    /\ call.pc = "found" => inode[call.wino].num = Resolved
    /\ call.pc \in {"fte", "fd"} => inode[call.wino].num = Resolved \/ NewFile
    /\ call.pdir # NULL => IsDir(call.pdir)

Means == Numbered /\ Pinned /\ OnItsWay

Follows == [Files!Next]_(Files!vars)

(* A step inside a call is no step of OpenFiles.                           *)
LEMMA Inside ==
    ASSUME file' = file, call'.path = call.path,
           call.pc # "idle", call'.pc # "idle"
    PROVE  Follows
BY DEF Follows, Files!vars, asked

(* OpenFiles has the operators of FiniteSets under names of its own.       *)
LEMMA SameCardinality == \A S : Files!Cardinality(S) = Cardinality(S)
BY DEF Files!Cardinality, Cardinality

(* A call that returns without a descriptor fails.                         *)
LEMMA Fails ==
    ASSUME Inv, OnItsWay, file' = file, call.pc # "idle", call'.pc = "idle",
           Resolved = 0 \/ Crowded
    PROVE  Follows
<1>1. asked = call.path /\ asked' = NULL /\ call.path \in Paths
  BY DEF asked, OnItsWay
<1>2. asked # NULL
  BY <1>1, PathAssumption
<1>3. Files!Resolve(asked) = 0 \/ Files!Cardinality({k \in Fds : file[k] # NULL}) >= Capacity
  BY <1>1, OpenFdsFacts, SameCardinality DEF Resolved, Crowded
<1>4. Files!Fail
  BY <1>1, <1>2, <1>3 DEF Files!Fail
<1> QED BY <1>4 DEF Follows, Files!Next

LEMMA PinnedKept ==
    ASSUME Inv, call.pc # "twice", Pinned, NumsKept, lost' = lost
    PROVE  Pinned'
<1>1. ASSUME NEW i \in Inos, lost[i] # 0 \/ i = icrd
      PROVE  inode'[i].num = inode[i].num
  <2>1. inode[i].count \in Nat /\ lost[i] \in Nat /\ lost[i] <= inode[i].count
    BY CountBound DEF Inv, LostOK
  <2>2. inode[i].count = OpenRefs(i) + Holds(call, i) + One(i = icrd) + lost[i]
    BY DEF Inv, CountsRefs
  <2>3. OpenRefs(i) \in Nat /\ Holds(call, i) \in Nat /\ One(i = icrd) \in Nat
    BY OpenBounds, FNodesFacts, HoldsInt DEF One
  <2>4. i = icrd => One(i = icrd) = 1
    BY DEF One
  <2>5. inode[i].count # 0
    BY <1>1, <2>1, <2>2, <2>3, <2>4
  <2> QED BY <2>5 DEF NumsKept
<1>2. icrd \in Inos
  BY INodesFacts
<1> QED BY <1>1, <1>2 DEF Pinned, IsDir

-----------------------------------------------------------------------------
(* Every step keeps this meaning, and is a step of OpenFiles or none       *)

EntriesKept == \A t \in Ftes : fte[t].count # 0 => fte'[t].inode = fte[t].inode

(* A step that gives no inode another number and leaves the descriptors.   *)
LEMMA SameStep ==
    ASSUME Inv, call.pc # "twice", Means, SameNums, call'.pc = "twice" \/ NoneNew,
           UNCHANGED <<fd, lost>>, EntriesKept
    PROVE  /\ Numbered' /\ Pinned' /\ file' = file
           /\ \A i \in Inos : inode'[i].num = inode[i].num
<1>1. Numbered' /\ NumsKept
  BY SameNumbered DEF Means
<1>2. Pinned'
  BY <1>1, PinnedKept DEF Means
<1>3. file' = file
  BY <1>1, FilesKept DEF EntriesKept
<1> QED BY <1>1, <1>2, <1>3 DEF SameNums

LEMMA GetiStep ==
    ASSUME Inv, call.pc # "twice", Means, NEW n \in InoNums, NEW i \in Inos,
           ipool_geti(n, i), UNCHANGED <<fvars, lost>>
    PROVE  Numbered' /\ Pinned' /\ file' = file /\ NumsKept /\ inode'[i].num = n
<1>1. Numbered' /\ NumsKept /\ inode'[i].num = n
  BY GetiNums DEF Means
<1>2. Pinned'
  BY <1>1, PinnedKept DEF Means
<1>3. file' = file
  BY <1>1, FilesKept DEF fvars
<1> QED BY <1>1, <1>2, <1>3

LEMMA TablesKept ==
    ASSUME UNCHANGED fvars
    PROVE  fd' = fd /\ fte' = fte /\ EntriesKept /\ OpenFds' = OpenFds /\ Crowded' = Crowded
BY DEF fvars, EntriesKept, OpenFds, Crowded

LEMMA StartMeans ==
    ASSUME Inv, Means, NEW op, Start(op)
    PROVE  Means' /\ Follows
<1>1. PICK p \in Paths : call' = [Idle EXCEPT !.op = op, !.pc = "root", !.path = p,
                                              !.rest = FromRoot(p)]
  BY DEF Start
<1>2. call.pc = "idle" /\ UNCHANGED <<ivars, fvars, imap, lost>>
  BY DEF Start
<1>3. call'.pc = "root" /\ call'.path = p /\ call'.rest = FromRoot(p) /\ call'.pdir = NULL
  BY <1>1 DEF Idle
<1>4. Numbered' /\ Pinned' /\ file' = file
  BY <1>2, SameStep, KeptNums, TablesKept
<1>5. OnItsWay'
  BY <1>3 DEF OnItsWay
<1>6. Files!Ask(p)
  BY <1>2, <1>3, <1>4 DEF Files!Ask, asked
<1> QED BY <1>4, <1>5, <1>6 DEF Means, Follows, Files!Next

LEMMA RootMeans ==
    ASSUME ~FaultyReads, Inv, Means, Root
    PROVE  Means' /\ Follows
<1>1. /\ call.pc = "root" /\ call.pdir = NULL /\ DOMAIN call = Fields
      /\ call.path \in Paths /\ call.rest = FromRoot(call.path)
      /\ ROOT \in InoNums /\ UNCHANGED <<fvars, imap, lost>>
  BY NumsFacts DEF Root, Inv, CallOK, Means, OnItsWay
<1>2. ASSUME NEW i \in Inos, ipool_geti(ROOT, i),
             call' = [call EXCEPT !.wino = i, !.pc = "walk"]
      PROVE  Means' /\ Follows
  <2>1. /\ call'.pc = "walk" /\ call'.wino = i /\ call'.pdir = NULL
        /\ call'.path = call.path /\ call'.rest = call.rest
    BY <1>1, <1>2 DEF Fields
  <2>2. Numbered' /\ Pinned' /\ file' = file /\ inode'[i].num = ROOT
    BY <1>1, <1>2, GetiStep
  <2>3. OnItsWay'
    BY <1>1, <2>1, <2>2, StartReached DEF OnItsWay
  <2>4. Follows
    BY <1>1, <2>1, <2>2, Inside
  <2> QED BY <2>2, <2>3, <2>4 DEF Means
<1>3. ~geti_null(ROOT)
  <2>1. geti_null(ROOT) => NoIno(ROOT)
    BY <1>1, NullIsFull
  <2> QED BY <2>1, INodesFacts DEF NoIno, Means, Pinned
<1>4. CASE geti_spins(ROOT) /\ call' = Go("spin")
  <2>1. call'.pc = "spin" /\ call'.pdir = NULL /\ call'.path = call.path
    BY <1>1, <1>4 DEF Fields, Go
  <2>2. Numbered' /\ Pinned' /\ file' = file
    BY <1>1, <1>4, SameStep, KeptNums, TablesKept DEF geti_spins
  <2>3. OnItsWay'
    BY <1>1, <2>1 DEF OnItsWay
  <2>4. Follows
    BY <1>1, <2>1, <2>2, Inside
  <2> QED BY <2>2, <2>3, <2>4 DEF Means
<1> QED BY <1>2, <1>3, <1>4 DEF Root

(* What the walk knows of its working inode and the next component.        *)
LEMMA WalkFacts ==
    ASSUME ~FaultyReads, Inv, Means, call.pc = "walk"
    PROVE  /\ DOMAIN call = Fields /\ call.path \in Paths /\ call.wino \in Inos
           /\ inode[call.wino].count >= 1
           /\ inode[call.wino].num \in InoNums
           /\ inode[call.wino].dinode = inode[call.wino].num
           /\ call.pdir \in Inos \cup {NULL}
           /\ MoreComponents => call.pdir = NULL /\ call.entry = NULL
           /\ Reached(call.path, call.rest, inode[call.wino].num)
<1>1. /\ DOMAIN call = Fields /\ call.wino \in Inos /\ call.pdir \in Inos \cup {NULL}
      /\ call.entry = NULL /\ (MoreComponents => call.pdir = NULL)
  BY DEF Inv, CallOK
<1>2. inode[call.wino].count >= 1 /\ inode[call.wino].count \in Nat
  BY <1>1, HeldCount, CountBound
<1>3. inode[call.wino].num # 0
  BY <1>1, <1>2 DEF Means, Numbered
<1>4. inode[call.wino].num \in InoNums /\ inode[call.wino].valid
  BY <1>1, <1>3 DEF Means, Numbered
<1>5. inode[call.wino].dinode = inode[call.wino].num
  BY <1>1, <1>4 DEF Inv, AllActual
<1> QED BY <1>1, <1>2, <1>4, <1>5 DEF Means, OnItsWay

LEMMA WalkEndsMeans ==
    ASSUME ~FaultyReads, Inv, Means, WalkEnds
    PROVE  Means' /\ Follows
<1>1. /\ call.pc = "walk" /\ call.rest = << >> /\ UNCHANGED <<ivars, fvars, imap, lost>>
      /\ call' = Go("found")
  BY DEF WalkEnds, MoreComponents
<1>2. /\ DOMAIN call = Fields /\ call.path \in Paths /\ call.wino \in Inos
      /\ call.pdir \in Inos \cup {NULL}
      /\ Reached(call.path, call.rest, inode[call.wino].num)
  BY <1>1, WalkFacts
<1>3. /\ call'.pc = "found" /\ call'.path = call.path /\ call'.wino = call.wino
      /\ call'.pdir = call.pdir
  BY <1>1, <1>2 DEF Go, Fields
<1>4. /\ Numbered' /\ Pinned' /\ file' = file
      /\ \A i \in Inos : inode'[i].num = inode[i].num
  BY <1>1, SameStep, KeptNums, TablesKept
<1>5. inode[call.wino].num = Resolved
  BY <1>1, <1>2, EndReached DEF Resolved
<1>6. OnItsWay'
  BY <1>1, <1>2, <1>3, <1>4, <1>5 DEF Means, OnItsWay, IsDir, Resolved
<1> QED BY <1>1, <1>3, <1>4, <1>6, Inside DEF Means

(* From a directory to what one of its names names.                        *)
LEMMA BelowIs ==
    ASSUME NEW d \in DOMAIN Tree, NEW c, c # SEP
    PROVE  Files!Below(d, c) = IF c \in DOMAIN Tree[d] THEN Tree[d][c] ELSE 0
BY PathAssumption DEF Files!Below, SEP

LEMMA BelowNoDir ==
    ASSUME NEW d, d \notin DOMAIN Tree, NEW c, c # SEP
    PROVE  Files!Below(d, c) = 0
BY FsAssumption DEF Files!Below, SEP

LEMMA WalkRefusedMeans ==
    ASSUME ~FaultyReads, Inv, Means, WalkRefused
    PROVE  Means' /\ Follows
<1> DEFINE w == call.wino
<1>1. /\ call.pc = "walk" /\ MoreComponents /\ ~Walkable
      /\ ipool_puti(w) /\ call' = Idle /\ UNCHANGED <<fvars, imap, lost>>
  BY DEF WalkRefused
<1>2. /\ call.path \in Paths /\ w \in Inos /\ inode[w].count >= 1
      /\ inode[w].dinode = inode[w].num
      /\ Reached(call.path, call.rest, inode[w].num)
  BY <1>1, WalkFacts
<1>3. Resolved = 0
  <2>1. CASE ~_component_is_valid(Component)
    BY <1>1, <1>2, <2>1, StepReached DEF Component, MoreComponents, Resolved
  <2>2. CASE _component_is_valid(Component) /\ ~inode_is_dir(w)
    <3> DEFINE c == NameOf(Component)
               e == Files!Below(inode[w].num, c)
    <3>1. c # SEP /\ (e = 0 => Resolved = 0)
      BY <1>1, <1>2, <2>2, StepReached DEF Component, MoreComponents, Resolved
    <3>2. e = 0
      BY <1>2, <2>2, <3>1, BelowNoDir DEF inode_is_dir
    <3> QED BY <3>1, <3>2
  <2> QED BY <1>1, <2>1, <2>2 DEF Walkable
<1>4. call'.pc = "idle" /\ call'.pdir = NULL
  BY <1>1 DEF Idle
<1>5. Numbered' /\ Pinned' /\ file' = file
  BY <1>1, <1>2, SameStep, PutiNums, TablesKept
<1>6. OnItsWay'
  BY <1>4 DEF OnItsWay
<1> QED BY <1>1, <1>3, <1>4, <1>5, <1>6, Fails DEF Means

LEMMA WalkStaysMeans ==
    ASSUME ~FaultyReads, Inv, Means, WalkStays
    PROVE  Means' /\ Follows
<1> DEFINE w == call.wino
           c == NameOf(Component)
<1>1. /\ call.pc = "walk" /\ MoreComponents /\ _component_is_valid(Component)
      /\ inode[w].num = ROOT /\ Component = <<"..">>
      /\ call' = [call EXCEPT !.rest = rest(@)] /\ UNCHANGED <<ivars, fvars, imap, lost>>
  BY FsAssumption DEF WalkStays, Walkable, StaysAtRoot, _component_matches_str
<1>2. /\ DOMAIN call = Fields /\ call.path \in Paths /\ w \in Inos /\ call.pdir = NULL
      /\ Reached(call.path, call.rest, inode[w].num)
  BY <1>1, WalkFacts
<1>3. Files!Below(ROOT, c) = ROOT
  <2>1. c = ".."
    BY <1>1 DEF NameOf
  <2> QED BY <2>1 DEF Files!Below
<1>4. Reached(call.path, rest(call.rest), ROOT)
  BY <1>1, <1>2, <1>3, StepReached DEF Component, MoreComponents
<1>5. /\ call'.pc = "walk" /\ call'.path = call.path /\ call'.wino = w
      /\ call'.pdir = NULL /\ call'.rest = rest(call.rest)
  BY <1>1, <1>2 DEF Fields
<1>6. /\ Numbered' /\ Pinned' /\ file' = file
      /\ \A i \in Inos : inode'[i].num = inode[i].num
  BY <1>1, SameStep, KeptNums, TablesKept
<1>7. OnItsWay'
  BY <1>1, <1>2, <1>4, <1>5, <1>6 DEF OnItsWay
<1> QED BY <1>1, <1>5, <1>6, <1>7, Inside DEF Means

LEMMA LookupMeans ==
    ASSUME ~FaultyReads, CapacityFits, Inv, Means, Lookup
    PROVE  Means' /\ Follows
<1> DEFINE w == call.wino
           d == inode[w].num
           c == NameOf(Component)
           n == Entries[Name]
<1>1. /\ call.pc = "walk" /\ MoreComponents /\ _component_is_valid(Component)
      /\ inode_is_dir(w) /\ UNCHANGED <<fvars, imap, lost>>
  BY DEF Lookup, Walkable
<1>2. /\ DOMAIN call = Fields /\ call.path \in Paths /\ w \in Inos /\ call.pdir = NULL
      /\ inode[w].count >= 1 /\ inode[w].count \in Nat /\ inode[w].dinode = d
      /\ call.entry = NULL
      /\ Reached(call.path, call.rest, d)
  BY <1>1, WalkFacts, CountBound
<1>3. d \in DOMAIN Tree /\ IsDir(w) /\ Entries = Tree[d]
  BY <1>1, <1>2 DEF inode_is_dir, IsDir, Entries
<1>4. /\ c # SEP
      /\ Files!Below(d, c) = 0 => Resolved = 0
      /\ Reached(call.path, rest(call.rest), Files!Below(d, c))
  BY <1>1, <1>2, StepReached DEF Component, MoreComponents, Resolved
<1>5. Files!Below(d, c) = IF c \in DOMAIN Tree[d] THEN Tree[d][c] ELSE 0
  BY <1>3, <1>4, BelowIs
<1>6. ASSUME call' = Go("missing"), UNCHANGED ivars, Resolved = 0 \/ (Crowded /\ Full)
      PROVE  Means' /\ Follows
  <2>1. /\ call'.pc = "missing" /\ call'.path = call.path /\ call'.wino = w
        /\ call'.pdir = NULL /\ call'.entry = NULL
    BY <1>2, <1>6 DEF Go, Fields
  <2>2. /\ Numbered' /\ Pinned' /\ file' = file
        /\ \A i \in Inos : inode'[i].num = inode[i].num
    BY <1>1, <1>6, SameStep, KeptNums, TablesKept
  <2>3. Crowded' = Crowded /\ inode' = inode
    BY <1>1, <1>6, TablesKept DEF ivars
  <2>4. OnItsWay'
    BY <1>2, <1>3, <1>6, <2>1, <2>2, <2>3 DEF OnItsWay, IsDir, Full, Resolved
  <2> QED BY <1>1, <2>1, <2>2, <2>4, Inside DEF Means
<1>7. ASSUME Name \in DOMAIN Entries, NEW i \in Inos,
             call' = [call EXCEPT !.new = i, !.pc = "enter"],
             Numbered', Pinned', file' = file, inode'[i].num = n, inode'[w].num = d
      PROVE  Means' /\ Follows
  <2>1. /\ call'.pc = "enter" /\ call'.path = call.path /\ call'.wino = w
        /\ call'.pdir = NULL /\ call'.new = i /\ call'.rest = call.rest
    BY <1>2, <1>7 DEF Fields
  <2>2. Reached(call.path, rest(call.rest), n)
    BY <1>3, <1>4, <1>5, <1>7 DEF Name
  <2>3. OnItsWay'
    BY <1>1, <1>2, <1>3, <1>7, <2>1, <2>2 DEF OnItsWay, IsDir, MoreComponents
  <2> QED BY <1>1, <1>7, <2>1, <2>3, Inside DEF Means
<1>8. CASE Name \notin DOMAIN Entries
  <2>1. call' = Go("missing") /\ UNCHANGED ivars
    BY <1>8 DEF Lookup
  <2>2. Resolved = 0
    BY <1>3, <1>4, <1>5, <1>8 DEF Name
  <2> QED BY <1>6, <2>1, <2>2
<1>9. CASE Name \in DOMAIN Entries
  <2>1. n \in InoNums
    BY <1>3, <1>9, NumsFacts
  <2>2. CASE n = d
    <3>1. /\ inode' = [inode EXCEPT ![w].count = Plus(@)]
          /\ call' = [call EXCEPT !.new = w, !.pc = "enter"]
      BY <1>9, <2>2 DEF Lookup
    <3>2. SameNums /\ NoneNew
      <4>1. \A j \in Inos : /\ inode'[j].num = inode[j].num
                            /\ inode'[j].valid = inode[j].valid
                            /\ j # w => inode'[j].count = inode[j].count
        BY <1>2, <3>1 DEF Inv, PoolType, InodeRec
      <4> QED BY <1>2, <4>1 DEF SameNums, NoneNew
    <3>3. /\ Numbered' /\ Pinned' /\ file' = file
          /\ \A i \in Inos : inode'[i].num = inode[i].num
      BY <1>1, <3>2, SameStep, TablesKept
    <3>4. inode'[w].num = n /\ inode'[w].num = d
      BY <1>2, <2>2, <3>3
    <3> QED BY <1>2, <1>7, <1>9, <3>1, <3>3, <3>4
  <2>3. ASSUME NEW i \in Inos, ipool_geti(n, i),
               call' = [call EXCEPT !.new = i, !.pc = "enter"]
        PROVE  Means' /\ Follows
    <3>1. Numbered' /\ Pinned' /\ file' = file /\ NumsKept /\ inode'[i].num = n
      BY <1>1, <2>1, <2>3, GetiStep
    <3>2. inode[w].count # 0
      BY <1>2
    <3>3. inode'[w].num = d
      BY <1>2, <3>1, <3>2 DEF NumsKept
    <3> QED BY <1>7, <1>9, <2>3, <3>1, <3>3
  <2>4. CASE geti_null(n) /\ call' = Go("missing")
    <3>1. UNCHANGED ivars /\ Full
      BY <1>1, <2>1, <2>4, NullIsFull
    <3>2. Crowded
      BY <1>1, <1>2, <1>3, <3>1, FullCrowded DEF Means
    <3> QED BY <1>6, <2>4, <3>1, <3>2
  <2>5. CASE geti_spins(n) /\ call' = Go("spin")
    <3>1. call'.pc = "spin" /\ call'.pdir = NULL /\ call'.path = call.path
      BY <1>2, <2>5 DEF Fields, Go
    <3>2. Numbered' /\ Pinned' /\ file' = file
      BY <1>1, <2>5, SameStep, KeptNums, TablesKept DEF geti_spins
    <3>3. OnItsWay'
      BY <1>2, <3>1 DEF OnItsWay
    <3>4. Follows
      BY <1>1, <3>1, <3>2, Inside
    <3> QED BY <3>2, <3>3, <3>4 DEF Means
  <2>6. \/ n = d
        \/ \E i \in Inos : /\ ipool_geti(n, i)
                           /\ call' = [call EXCEPT !.new = i, !.pc = "enter"]
        \/ geti_null(n) /\ call' = Go("missing")
        \/ geti_spins(n) /\ call' = Go("spin")
    <3> HIDE DEF n
    <3>1. n = Entries[Name]
      BY DEF n
    <3> QED BY <1>9, <3>1 DEF Lookup
  <2> QED BY <2>2, <2>3, <2>4, <2>5, <2>6
<1> QED BY <1>8, <1>9

LEMMA MissingMeans ==
    ASSUME Inv, Means, Missing
    PROVE  Means' /\ Follows
<1> DEFINE w == call.wino
<1>1. /\ call.pc = "missing" /\ DOMAIN call = Fields /\ w \in Inos
      /\ call.entry = NULL /\ call.path \in Paths /\ IsDir(w)
      /\ Resolved = 0 \/ (Crowded /\ Full)
      /\ UNCHANGED <<fvars, imap, lost>>
  BY DEF Missing, Inv, CallOK, Means, OnItsWay
<1>2. CASE keep_pdir_ino
  <2>1. /\ call' = [call EXCEPT !.pdir = w, !.wino = NULL, !.pc = "alloci"]
        /\ UNCHANGED ivars
    BY <1>2 DEF Missing
  <2>2. call'.pc = "alloci" /\ call'.path = call.path /\ call'.pdir = w
    BY <1>1, <2>1 DEF Fields
  <2>3. /\ Numbered' /\ Pinned' /\ file' = file
        /\ \A i \in Inos : inode'[i].num = inode[i].num
    BY <1>1, <2>1, SameStep, KeptNums, TablesKept
  <2>4. Crowded' = Crowded /\ inode' = inode
    BY <1>1, <2>1, TablesKept DEF ivars
  <2>5. OnItsWay'
    BY <1>1, <2>2, <2>3, <2>4 DEF OnItsWay, IsDir, Full, Resolved
  <2> QED BY <1>1, <2>2, <2>3, <2>5, Inside DEF Means
<1>3. CASE ~keep_pdir_ino
  <2>1. ipool_puti(w) /\ call' = Idle
    BY <1>3 DEF Missing
  <2>2. call'.pc = "idle" /\ call'.pdir = NULL
    BY <2>1 DEF Idle
  <2>3. inode[w].count >= 1
    BY <1>1, HeldCount
  <2>4. Numbered' /\ Pinned' /\ file' = file
    BY <1>1, <2>1, <2>3, SameStep, PutiNums, TablesKept
  <2>5. OnItsWay'
    BY <2>2 DEF OnItsWay
  <2> QED BY <1>1, <2>2, <2>4, <2>5, Fails DEF Means
<1> QED BY <1>2, <1>3

LEMMA EnterMeans ==
    ASSUME Inv, Means, Enter
    PROVE  Means' /\ Follows
<1> DEFINE w == call.wino
           i == call.new
<1>1. /\ call.pc = "enter" /\ DOMAIN call = Fields /\ w \in Inos /\ i \in Inos
      /\ call.entry = NULL /\ call.pdir = NULL /\ call.path \in Paths /\ IsDir(w)
      /\ Reached(call.path, rest(call.rest), inode[i].num)
      /\ UNCHANGED <<fvars, imap, lost>>
  BY DEF Enter, Inv, CallOK, Means, OnItsWay
<1>2. /\ call'.pc = "walk" /\ call'.path = call.path /\ call'.wino = i
      /\ call'.rest = rest(call.rest)
      /\ call'.pdir \in {w, NULL}
  BY <1>1 DEF Enter, Fields
<1>3. inode[w].count >= 1
  BY <1>1, HeldCount
<1>4. SameNums /\ NoneNew
  BY <1>1, <1>3, PutiNums, KeptNums DEF Enter
<1>5. /\ Numbered' /\ Pinned' /\ file' = file
      /\ \A j \in Inos : inode'[j].num = inode[j].num
  BY <1>1, <1>4, SameStep, TablesKept
<1>6. OnItsWay'
  BY <1>1, <1>2, <1>5 DEF OnItsWay, IsDir
<1> QED BY <1>1, <1>2, <1>5, <1>6, Inside DEF Means

(* The bitmap gives out a number that no path names and no open file has;  *)
(* and if the path names a file for which there was no inode, there is     *)
(* none for the new file either.                                           *)
LEMMA GivenOut ==
    ASSUME Inv, BitInv, Means, call.pc = "alloci",
           NEW n \in InoNums, Bit(n) \notin imap, NEW i \in Inos, ipool_geti(n, i)
    PROVE  Resolved = 0 /\ n \notin Files!Named /\ \A k \in Fds : file[k] # n
<1>1. \A j \in Inos : inode[j].count # 0 => inode[j].num # n
  BY DEF BitInv, Marked
<1>2. Resolved = 0
  <2>1. inode[i].count + 1 < UINT_MOD
    BY CountBound
  <2>2. inode[i].count # 0 => inode[i].num = n
    BY <2>1, GetiPool DEF Inv, PoolOK
  <2>3. inode[i].count = 0
    BY <1>1, <2>2
  <2> QED BY <2>3 DEF Means, OnItsWay, Full
<1>3. n \notin Files!Named
  <2>1. \A m \in Known : Bit(m) \in imap
    BY KnownBits DEF BitInv
  <2>2. Files!Named \subseteq Known
    BY PathFacts, ResolveKnown DEF Files!Named
  <2> QED BY <2>1, <2>2
<1>4. ASSUME NEW k \in Fds, file[k] = n
      PROVE  FALSE
  <2>1. fd[k] # NULL
    <3>1. n # NULL
      BY NumsFacts, INodesFacts
    <3> QED BY <1>4, <3>1, FileIs
  <2>2. fte[fd[k]].inode \in Inos /\ inode[fte[fd[k]].inode].count >= 1
    BY <2>1, OpenEntry
  <2>3. inode[fte[fd[k]].inode].count # 0
    BY <2>2
  <2>4. inode[fte[fd[k]].inode].num = n
    BY <1>4, <2>1, FileIs
  <2> QED BY <1>1, <2>2, <2>3, <2>4
<1> QED BY <1>2, <1>3, <1>4

LEMMA AllociMeans ==
    ASSUME ~FaultyReads, BYTE >= 2, NumInodes >= BLOCK_SIZE, Inv, BitInv, Means, Alloci
    PROVE  Means' /\ Follows
<1>1. /\ call.pc = "alloci" /\ DOMAIN call = Fields /\ call.pdir \in Inos
      /\ call.path \in Paths /\ IsDir(call.pdir) /\ call.entry = NULL
      /\ Resolved = 0 \/ Crowded
      /\ UNCHANGED <<fvars, imap, lost>>
  BY INodesFacts DEF Alloci, Inv, CallOK, Means, OnItsWay
<1>2. PICK n \in minix3_imap_get_free(imap, ~FaultyReads) :
        IF n = 0 THEN call' = Go("put_pdir") /\ UNCHANGED ivars
        ELSE \/ \E i \in Inos : /\ ipool_geti(n, i)
                               /\ call' = [call EXCEPT !.wino = i, !.pc = "seti"]
             \/ geti_null(n) /\ call' = Go("put_pdir")
             \/ geti_spins(n) /\ call' = Go("spin")
  BY DEF Alloci
<1>3. ASSUME n # 0
      PROVE  n \in InoNums /\ Bit(n) \notin imap
  <2>1. n \in 0..(NumInodes - 1) /\ MayBeFree(imap, n, ~FaultyReads)
    BY <1>3 DEF minix3_imap_get_free
  <2>2. InBitmap(n)
    BY <2>1, InodesInBitmap
  <2> QED BY <1>3, <2>1, <2>2, LayoutAssumption, FsAssumption DEF MayBeFree
<1>4. ASSUME UNCHANGED ivars, call' \in {Go("put_pdir"), Go("spin")}
      PROVE  Means' /\ Follows
  <2>1. /\ call'.pc \in {"put_pdir", "spin"} /\ call'.path = call.path
        /\ call'.pdir = call.pdir
    BY <1>1, <1>4 DEF Go, Fields
  <2>2. /\ Numbered' /\ Pinned' /\ file' = file
        /\ \A i \in Inos : inode'[i].num = inode[i].num
    BY <1>1, <1>4, SameStep, KeptNums, TablesKept
  <2>3. Crowded' = Crowded
    BY <1>1, TablesKept
  <2>4. OnItsWay'
    BY <1>1, <2>1, <2>2, <2>3 DEF OnItsWay, IsDir, Resolved
  <2> QED BY <1>1, <2>1, <2>2, <2>4, Inside DEF Means
<1>5. ASSUME n # 0, NEW i \in Inos, ipool_geti(n, i),
             call' = [call EXCEPT !.wino = i, !.pc = "seti"]
      PROVE  Means' /\ Follows
  <2>1. /\ call'.pc = "seti" /\ call'.path = call.path /\ call'.pdir = call.pdir
        /\ call'.wino = i
    BY <1>1, <1>5 DEF Fields
  <2>2. n \in InoNums /\ Bit(n) \notin imap
    BY <1>3, <1>5
  <2>3. Resolved = 0 /\ n \notin Files!Named /\ \A k \in Fds : file[k] # n
    BY <1>1, <1>5, <2>2, GivenOut
  <2>4. Numbered' /\ Pinned' /\ file' = file /\ NumsKept /\ inode'[i].num = n
    BY <1>1, <1>5, <2>2, GetiStep
  <2>5. inode'[call.pdir].num = inode[call.pdir].num
    <3>1. inode[call.pdir].count >= 1
      BY <1>1, HeldCount
    <3>2. inode[call.pdir].count # 0
      BY <3>1
    <3> QED BY <1>1, <2>4, <3>2 DEF NumsKept
  <2>6. NewFile'
    BY <2>1, <2>3, <2>4 DEF NewFile, Resolved
  <2>7. OnItsWay'
    BY <1>1, <2>1, <2>5, <2>6 DEF OnItsWay, IsDir
  <2> QED BY <1>1, <2>1, <2>4, <2>7, Inside DEF Means
<1>6. ASSUME n # 0, geti_null(n), call' = Go("put_pdir")
      PROVE  Means' /\ Follows
  <2>1. UNCHANGED ivars
    BY <1>1, <1>3, <1>6, NullIsFull
  <2> QED BY <1>4, <1>6, <2>1
<1> QED BY <1>2, <1>4, <1>5, <1>6 DEF geti_spins

(* A new file stays one until it has a descriptor.                         *)
LEMMA NewFileKept ==
    ASSUME NewFile, file' = file, call'.path = call.path, call'.wino = call.wino,
           inode'[call.wino].num = inode[call.wino].num
    PROVE  NewFile'
BY DEF NewFile, Resolved

LEMMA SetiMeans ==
    ASSUME Inv, Means, Seti
    PROVE  Means' /\ Follows
<1> DEFINE w == call.wino
<1>1. /\ call.pc = "seti" /\ DOMAIN call = Fields /\ w \in Inos /\ call.pdir \in Inos
      /\ call.entry = NULL /\ call.path \in Paths /\ IsDir(call.pdir) /\ NewFile
      /\ UNCHANGED <<fvars, lost>>
  BY INodesFacts DEF Seti, Inv, CallOK, Means, OnItsWay
<1>2. ASSUME NEW label \in {"abort", "linked"}, call' = Go(label), UNCHANGED ivars
      PROVE  Means' /\ Follows
  <2>1. /\ call'.pc = label /\ call'.path = call.path /\ call'.wino = w
        /\ call'.pdir = call.pdir
    BY <1>1, <1>2 DEF Go, Fields
  <2>2. /\ Numbered' /\ Pinned' /\ file' = file
        /\ \A i \in Inos : inode'[i].num = inode[i].num
    BY <1>1, <1>2, SameStep, KeptNums, TablesKept
  <2>3. NewFile'
    BY <1>1, <2>1, <2>2, NewFileKept
  <2>4. OnItsWay'
    BY <1>1, <2>1, <2>2, <2>3 DEF OnItsWay, IsDir
  <2> QED BY <1>1, <2>1, <2>2, <2>4, Inside DEF Means
<1>3. CASE ipool_puti(w) /\ call' = [call EXCEPT !.wino = NULL, !.pc = "put_pdir"]
  <2>1. /\ call'.pc = "put_pdir" /\ call'.path = call.path /\ call'.pdir = call.pdir
    BY <1>1, <1>3 DEF Fields
  <2>2. inode[w].count >= 1
    BY <1>1, HeldCount
  <2>3. /\ Numbered' /\ Pinned' /\ file' = file
        /\ \A i \in Inos : inode'[i].num = inode[i].num
    BY <1>1, <1>3, <2>2, SameStep, PutiNums, TablesKept
  <2>4. OnItsWay'
    BY <1>1, <2>1, <2>3 DEF OnItsWay, IsDir, NewFile, Resolved
  <2> QED BY <1>1, <2>1, <2>3, <2>4, Inside DEF Means
<1> QED BY <1>2, <1>3 DEF Seti

LEMMA LinkedMeans ==
    ASSUME Inv, Means, Linked
    PROVE  Means' /\ Follows
<1>1. /\ call.pc = "linked" /\ DOMAIN call = Fields /\ call.wino \in Inos
      /\ call.pdir \in Inos /\ call.entry = NULL /\ call.path \in Paths /\ NewFile
      /\ ipool_puti(call.pdir) /\ UNCHANGED <<fvars, imap, lost>>
  BY DEF Linked, Inv, CallOK, Means, OnItsWay
<1>2. /\ call'.pc = "fte" /\ call'.path = call.path /\ call'.wino = call.wino
      /\ call'.pdir = NULL
  BY <1>1 DEF Linked, Fields
<1>3. inode[call.pdir].count >= 1
  BY <1>1, HeldCount
<1>4. /\ Numbered' /\ Pinned' /\ file' = file
      /\ \A i \in Inos : inode'[i].num = inode[i].num
  BY <1>1, <1>3, SameStep, PutiNums, TablesKept
<1>5. NewFile'
  BY <1>1, <1>2, <1>4, NewFileKept
<1>6. OnItsWay'
  BY <1>1, <1>2, <1>5 DEF OnItsWay
<1> QED BY <1>1, <1>2, <1>4, <1>6, Inside DEF Means

LEMMA FoundMeans ==
    ASSUME Inv, Means, Found
    PROVE  Means' /\ Follows
<1>1. /\ call.pc = "found" /\ DOMAIN call = Fields /\ call.wino \in Inos
      /\ call.pdir \in Inos \cup {NULL} /\ call.path \in Paths
      /\ inode[call.wino].num = Resolved
      /\ call.pdir # NULL => IsDir(call.pdir)
      /\ UNCHANGED <<fvars, imap, lost>>
  BY DEF Found, Inv, CallOK, Means, OnItsWay
<1>2. /\ call'.pc = "fte" /\ call'.path = call.path /\ call'.wino = call.wino
      /\ call'.pdir = call.pdir
  BY <1>1 DEF Found, Go, Fields
<1>3. SameNums /\ NoneNew
  BY <1>1, LockNums, KeptNums DEF Found
<1>4. /\ Numbered' /\ Pinned' /\ file' = file
      /\ \A i \in Inos : inode'[i].num = inode[i].num
  BY <1>1, <1>3, SameStep, TablesKept
<1>5. OnItsWay'
  BY <1>1, <1>2, <1>4 DEF OnItsWay, IsDir, Resolved
<1> QED BY <1>1, <1>2, <1>4, <1>5, Inside DEF Means

(* If the file table is full, every entry has a descriptor of its own.     *)
LEMMA NoEntryCrowded ==
    ASSUME CapacityFits, Inv, NoFreeEntry, call.pc = "fte"
    PROVE  Crowded
<1> DEFINE f == [t \in Ftes |-> CHOOSE k \in Fds : fd[k] = t]
<1>1. FreeFtes = {}
  BY FNodesFacts, HeadMember DEF Inv, TablesOK, NoFreeEntry
<1>2. ASSUME NEW t \in Ftes
      PROVE  \E k \in Fds : fd[k] = t
  <2>1. fte[t].count = Cardinality(FdsOf(t)) + Pending(t) /\ Pending(t) = 0
    BY DEF Inv, CountsFds, Pending
  <2>2. fte[t].count # 0
    BY <1>1 DEF FreeFtes
  <2>3. Cardinality(FdsOf(t)) # 0
    BY <2>1, <2>2
  <2> QED BY <2>3, FdsBounds
<1>3. \A t \in Ftes : f[t] \in Fds /\ fd[f[t]] = t
  BY <1>2
<1>4. f \in Injection(Ftes, OpenFds)
  <2>1. \A t \in Ftes : f[t] \in OpenFds
    BY <1>3, FNodesFacts DEF OpenFds
  <2>2. f \in [Ftes -> OpenFds]
    BY <2>1
  <2> HIDE DEF f
  <2>3. \A s, t \in Ftes : f[s] = f[t] => s = t
    BY <1>3
  <2> QED BY <2>2, <2>3 DEF Injection, IsInjective
<1> HIDE DEF f
<1>5. Cardinality(Ftes) <= Cardinality(OpenFds)
  BY <1>4, OpenFdsFacts, FS_Injection
<1>6. Cardinality(OpenFds) >= Capacity
  BY <1>5, FNodesFacts, OpenFdsFacts DEF CapacityFits
<1> QED BY <1>6 DEF Crowded

LEMMA AllocFteMeans ==
    ASSUME CapacityFits, Inv, Means, AllocFte
    PROVE  Means' /\ Follows
<1> DEFINE w == call.wino
<1>1. /\ call.pc = "fte" /\ DOMAIN call = Fields /\ w \in Inos
      /\ call.pdir \in Inos \cup {NULL} /\ call.path \in Paths
      /\ inode[w].num = Resolved \/ NewFile
      /\ call.pdir # NULL => IsDir(call.pdir)
      /\ UNCHANGED <<ivars, fd, imap, lost>>
  BY DEF AllocFte, Inv, CallOK, Means, OnItsWay
<1>2. /\ call'.pc \in {"fd", "put_ino"} /\ call'.path = call.path /\ call'.wino = w
      /\ call'.pdir = call.pdir
  BY <1>1 DEF AllocFte, Go, Fields
<1>3. EntriesKept
  <2>1. ASSUME NEW t \in Ftes, file_table_alloc_entry(t, w)
        PROVE  EntriesKept
    <3>1. /\ fte[t].count = 0
          /\ \A u \in Ftes : fte'[u] = IF u = t THEN [count |-> 1, inode |-> w] ELSE fte[u]
      BY <1>1, <2>1, AllocEntry DEF Inv
    <3> QED BY <3>1 DEF EntriesKept
  <2> QED BY <2>1 DEF AllocFte, EntriesKept
<1>4. /\ Numbered' /\ Pinned' /\ file' = file
      /\ \A i \in Inos : inode'[i].num = inode[i].num
  BY <1>1, <1>3, SameStep, KeptNums
<1>5. call'.pc = "put_ino" => Crowded'
  <2>1. ASSUME call'.pc = "put_ino" PROVE NoFreeEntry
    <3>1. \A t : call' = [call EXCEPT !.entry = t, !.pc = "fd"] => call'.pc = "fd"
      BY <1>1 DEF Fields
    <3> QED BY <2>1, <3>1 DEF AllocFte
  <2>2. Crowded' = Crowded
    BY <1>1 DEF Crowded, OpenFds
  <2> QED BY <1>1, <2>1, <2>2, NoEntryCrowded
<1>6. NewFile => NewFile'
  BY <1>1, <1>2, <1>4, NewFileKept
<1>7. OnItsWay'
  BY <1>1, <1>2, <1>4, <1>5, <1>6 DEF OnItsWay, IsDir, Resolved
<1> QED BY <1>1, <1>2, <1>4, <1>7, Inside DEF Means

(* A descriptor that is set up with the entry of the call.                 *)
LEMMA FdSetMeans ==
    ASSUME Inv, Means, call.pc = "fd", NEW k \in Fds, fd_table_alloc_entry(k, call.entry),
           UNCHANGED <<fte, flink>>, SameNums, call' = Idle
    PROVE  Follows
<1> DEFINE t == call.entry
           w == call.wino
           n == inode[w].num
<1>1. /\ t \in Ftes /\ w \in Inos /\ fte[t].inode = w /\ call.path \in Paths
      /\ n = Resolved \/ NewFile
  BY DEF Inv, CallOK, EntryOK, Means, OnItsWay
<1>2. /\ fd[k] = NULL /\ \A j \in Fds : j < k => fd[j] # NULL
      /\ fd' = [fd EXCEPT ![k] = t] /\ fd \in [Fds -> Ftes \cup {NULL}] /\ t # NULL
  BY <1>1, FNodesFacts DEF fd_table_alloc_entry, IsFreeFd, Inv, TablesOK
<1>3. n \in InoNums /\ n # 0
  <2>1. inode[w].count >= 1 /\ inode[w].count \in Nat
    <3>1. fte[t].count = Cardinality(FdsOf(t)) + Pending(t) /\ Pending(t) = 1
          /\ Cardinality(FdsOf(t)) \in Nat
      BY <1>1, FdsBounds, FNodesFacts DEF Pending, Inv, CountsFds
    <3>2. fte[t].count # 0
      BY <3>1
    <3> QED BY <1>1, <3>2, EntryReferences, CountBound
  <2> QED BY <1>1, <2>1 DEF Means, Numbered
<1>4. file' = [file EXCEPT ![k] = n]
  <2> DEFINE f(j) == IF fd[j] = NULL THEN NULL ELSE inode[fte[fd[j]].inode].num
             g(j) == IF fd'[j] = NULL THEN NULL ELSE inode'[fte'[fd'[j]].inode].num
  <2>1. ASSUME NEW j \in Fds
        PROVE  g(j) = IF j = k THEN n ELSE f(j)
    <3>1. CASE j = k
      <4>1. fd'[j] = t
        BY <1>2, <3>1
      <4>2. inode'[w].num = n
        BY <1>1 DEF SameNums
      <4> QED BY <1>1, <1>2, <3>1, <4>1, <4>2
    <3>2. CASE j # k
      <4>1. fd'[j] = fd[j]
        BY <1>2, <3>2
      <4>2. fd[j] # NULL => fte[fd[j]].inode \in Inos
        BY OpenEntry
      <4> QED BY <3>2, <4>1, <4>2 DEF SameNums
    <3> QED BY <3>1, <3>2
  <2>2. file = [j \in Fds |-> f(j)] /\ file' = [j \in Fds |-> g(j)]
    BY DEF file
  <2> HIDE DEF f, g, n
  <2> QED BY <2>1, <2>2
<1>5. Files!Lowest(k)
  <2>1. file[k] = NULL /\ \A j \in Fds : j < k => file[j] # NULL
    BY <1>2, FileIs
  <2> QED BY <2>1 DEF Files!Lowest
<1>6. asked = call.path /\ asked # NULL /\ asked' = NULL
  <2>1. asked = call.path /\ asked' = NULL
    BY DEF asked, Idle
  <2> QED BY <1>1, <2>1, PathAssumption
<1> HIDE DEF n
<1>7. CASE n = Resolved
  <2>1. Files!Open(k)
    BY <1>3, <1>4, <1>5, <1>6, <1>7 DEF Files!Open, Resolved
  <2> QED BY <2>1 DEF Follows, Files!Next
<1>8. CASE NewFile
  <2>1. Resolved = 0 /\ n \notin Files!Named /\ \A j \in Fds : file[j] # n
    BY <1>8 DEF NewFile, n
  <2>2. Files!Create(k, n)
    BY <1>4, <1>5, <1>6, <2>1 DEF Files!Create, Resolved
  <2> QED BY <1>3, <2>2 DEF Follows, Files!Next
<1> QED BY <1>1, <1>7, <1>8 DEF n

LEMMA AllocFdMeans ==
    ASSUME Inv, Means, AllocFd
    PROVE  Means' /\ Follows
<1> DEFINE w == call.wino
<1>1. /\ call.pc = "fd" /\ DOMAIN call = Fields /\ w \in Inos /\ call.entry \in Ftes
      /\ call.pdir \in Inos \cup {NULL} /\ call.path \in Paths
      /\ call.pdir # NULL => IsDir(call.pdir)
      /\ UNCHANGED <<fte, flink, imap>>
  BY DEF AllocFd, Inv, CallOK, Means, OnItsWay
<1>2. CASE NoFreeFd /\ call' = Go("put_fte") /\ UNCHANGED <<fd, ivars, lost>>
  <2>1. /\ call'.pc = "put_fte" /\ call'.path = call.path /\ call'.pdir = call.pdir
    BY <1>1, <1>2 DEF Go, Fields
  <2>2. EntriesKept
    BY <1>1 DEF EntriesKept
  <2>3. /\ Numbered' /\ Pinned' /\ file' = file
        /\ \A i \in Inos : inode'[i].num = inode[i].num
    BY <1>1, <1>2, <2>2, SameStep, KeptNums
  <2>4. OnItsWay'
    BY <1>1, <2>1, <2>3 DEF OnItsWay, IsDir
  <2> QED BY <1>1, <2>1, <2>3, <2>4, Inside DEF Means
<1>3. ASSUME NEW k \in Fds, fd_table_alloc_entry(k, call.entry),
             IF call.op = "creat" THEN inode_unlock(w) ELSE UNCHANGED ivars,
             lost' = IF call.pdir = NULL THEN lost
                     ELSE [lost EXCEPT ![call.pdir] = @ + 1],
             call' = Idle
      PROVE  Means' /\ Follows
  <2>1. SameNums /\ NoneNew
    BY <1>1, <1>3, LockNums, KeptNums
  <2>2. Numbered' /\ NumsKept
    BY <1>1, <2>1, SameNumbered DEF Means
  <2>3. Pinned'
    <3>1. inode'[icrd].num = ROOT
      BY <2>1, INodesFacts DEF SameNums, Means, Pinned
    <3>2. ASSUME NEW i \in Inos, lost'[i] # 0
          PROVE  IsDir(i)'
      <4>1. lost[i] # 0 \/ i = call.pdir
        BY <1>3, <3>2 DEF Inv, LostOK
      <4>2. IsDir(i)
        BY <1>1, <4>1, INodesFacts DEF Means, Pinned
      <4> QED BY <2>1, <4>2 DEF IsDir, SameNums
    <3> QED BY <3>1, <3>2 DEF Pinned
  <2>4. OnItsWay'
    BY <1>3 DEF OnItsWay, Idle
  <2>5. Follows
    BY <1>1, <1>3, <2>1, FdSetMeans
  <2> QED BY <2>2, <2>3, <2>4, <2>5 DEF Means
<1> QED BY <1>2, <1>3 DEF AllocFd

(* An entry that is released keeps its inode, and the inode its number.    *)
LEMMA ReleaseNums ==
    ASSUME Inv, call.pc # "twice", NEW t \in Ftes, fte[t].count # 0,
           file_table_release_entry(t)
    PROVE  SameNums /\ NoneNew /\ \A u \in Ftes : fte'[u].inode = fte[u].inode
<1> DEFINE i == fte[t].inode
<1>1. i \in Inos /\ inode[i].count >= 1
  BY EntryReferences
<1>2. SameNums /\ NoneNew
  BY <1>1, PutiNums, KeptNums DEF file_table_release_entry
<1>3. \A u \in Ftes : fte'[u].inode = fte[u].inode
  BY DEF file_table_release_entry, Inv, TablesOK, FteRec
<1> QED BY <1>2, <1>3

LEMMA PutFteMeans ==
    ASSUME Inv, Means, PutFte
    PROVE  Means' /\ Follows
<1> DEFINE t == call.entry
<1>1. /\ call.pc = "put_fte" /\ DOMAIN call = Fields /\ t \in Ftes /\ t # NULL
      /\ call.pdir \in Inos \cup {NULL} /\ call.path \in Paths
      /\ call.pdir # NULL => IsDir(call.pdir)
      /\ file_table_release_entry(t) /\ UNCHANGED <<fd, imap, lost>>
  BY FNodesFacts DEF PutFte, Inv, CallOK, Means, OnItsWay
<1>2. /\ call'.pc = "put_ino" /\ call'.path = call.path /\ call'.pdir = call.pdir
      /\ call'.entry = t
  BY <1>1 DEF PutFte, Go, Fields
<1>3. fte[t].count # 0
  <2>1. fte[t].count = Cardinality(FdsOf(t)) + Pending(t) /\ Pending(t) = 1
        /\ Cardinality(FdsOf(t)) \in Nat
    BY <1>1, FdsBounds, FNodesFacts DEF Pending, Inv, CountsFds
  <2> QED BY <2>1
<1>4. SameNums /\ NoneNew /\ EntriesKept
  BY <1>1, <1>3, ReleaseNums DEF EntriesKept
<1>5. /\ Numbered' /\ Pinned' /\ file' = file
      /\ \A i \in Inos : inode'[i].num = inode[i].num
  BY <1>1, <1>4, SameStep
<1>6. OnItsWay'
  BY <1>1, <1>2, <1>5 DEF OnItsWay, IsDir
<1> QED BY <1>1, <1>2, <1>5, <1>6, Inside DEF Means

LEMMA PutInoMeans ==
    ASSUME Inv, Means, PutIno
    PROVE  Means' /\ Follows
<1> DEFINE w == call.wino
<1>1. /\ call.pc = "put_ino" /\ DOMAIN call = Fields /\ w \in Inos
      /\ call.pdir \in Inos \cup {NULL} /\ call.path \in Paths
      /\ call.pdir # NULL => IsDir(call.pdir)
      /\ call.entry = NULL => Resolved = 0 \/ Crowded
      /\ ipool_puti(w) /\ UNCHANGED <<fvars, imap, lost>>
  BY DEF PutIno, Inv, CallOK, Means, OnItsWay
<1>2. CASE call.entry # NULL
  <2>1. /\ call'.pc = "twice" /\ call'.path = call.path /\ call'.pdir = call.pdir
    BY <1>1, <1>2 DEF PutIno, Go, Fields
  <2>2. /\ Numbered' /\ Pinned' /\ file' = file
        /\ \A i \in Inos : inode'[i].num = inode[i].num
    BY <1>1, <2>1, SameStep, PutiSameNums, TablesKept
  <2>3. OnItsWay'
    BY <1>1, <2>1, <2>2 DEF OnItsWay, IsDir
  <2> QED BY <1>1, <2>1, <2>2, <2>3, Inside DEF Means
<1>3. CASE call.entry = NULL
  <2>1. inode[w].count >= 1
    BY <1>1, <1>3, HeldCount
  <2>2. /\ Numbered' /\ Pinned' /\ file' = file
        /\ \A i \in Inos : inode'[i].num = inode[i].num
    BY <1>1, <2>1, SameStep, PutiNums, TablesKept
  <2>3. CASE call.pdir = NULL
    <3>1. call'.pc = "idle" /\ call'.pdir = NULL
      BY <1>3, <2>3 DEF PutIno, Idle
    <3>2. OnItsWay'
      BY <3>1 DEF OnItsWay
    <3> QED BY <1>1, <1>3, <2>2, <3>1, <3>2, Fails DEF Means
  <2>4. CASE call.pdir # NULL
    <3>1. call' = [call EXCEPT !.wino = NULL, !.pc = "put_pdir"]
      BY <1>3, <2>4 DEF PutIno
    <3>2. call'.pc = "put_pdir" /\ call'.path = call.path /\ call'.pdir = call.pdir
      BY <1>1, <3>1 DEF Fields
    <3>3. Crowded' = Crowded
      BY <1>1, TablesKept
    <3>4. OnItsWay'
      BY <1>1, <1>3, <2>2, <3>2, <3>3 DEF OnItsWay, IsDir, Resolved
    <3> QED BY <1>1, <2>2, <3>2, <3>4, Inside DEF Means
  <2> QED BY <2>3, <2>4
<1> QED BY <1>2, <1>3

LEMMA PutPdirMeans ==
    ASSUME Inv, Means, PutPdir
    PROVE  Means' /\ Follows
<1>1. /\ call.pc = "put_pdir" /\ call.pdir \in Inos /\ call.entry = NULL
      /\ Resolved = 0 \/ Crowded
      /\ ipool_puti(call.pdir) /\ call' = Idle /\ UNCHANGED <<fvars, imap, lost>>
  BY DEF PutPdir, Inv, CallOK, Means, OnItsWay
<1>2. call'.pc = "idle" /\ call'.pdir = NULL
  BY <1>1 DEF Idle
<1>3. inode[call.pdir].count >= 1
  BY <1>1, HeldCount
<1>4. Numbered' /\ Pinned' /\ file' = file
  BY <1>1, <1>3, SameStep, PutiNums, TablesKept
<1>5. OnItsWay'
  BY <1>2 DEF OnItsWay
<1> QED BY <1>1, <1>2, <1>4, <1>5, Fails DEF Means

LEMMA CloseMeans ==
    ASSUME Inv, Means, NEW k \in Fds, fs_close(k)
    PROVE  Means' /\ Follows
<1> DEFINE t == fd[k]
<1>1. /\ call.pc = "idle" /\ call' = call /\ lost' = lost /\ call.pdir = NULL
      /\ t # NULL /\ file_table_release_entry(t) /\ fd' = [fd EXCEPT ![k] = NULL]
      /\ fd \in [Fds -> Ftes \cup {NULL}]
  BY DEF fs_close, fd_table_dealloc_entry, Inv, CallOK, TablesOK
<1>2. t \in Ftes /\ fte[t].count # 0
  BY <1>1, OpenEntry
<1>3. SameNums /\ NoneNew /\ \A u \in Ftes : fte'[u].inode = fte[u].inode
  BY <1>1, <1>2, ReleaseNums
<1>4. Numbered' /\ NumsKept
  BY <1>1, <1>3, SameNumbered DEF Means
<1>5. Pinned'
  BY <1>1, <1>4, PinnedKept DEF Means
<1>6. OnItsWay'
  BY <1>1 DEF OnItsWay
<1>7. file' = [file EXCEPT ![k] = NULL]
  <2> DEFINE f(j) == IF fd[j] = NULL THEN NULL ELSE inode[fte[fd[j]].inode].num
             g(j) == IF fd'[j] = NULL THEN NULL ELSE inode'[fte'[fd'[j]].inode].num
  <2>1. ASSUME NEW j \in Fds
        PROVE  g(j) = IF j = k THEN NULL ELSE f(j)
    <3>1. CASE j = k
      BY <1>1, <3>1
    <3>2. CASE j # k
      <4>1. fd'[j] = fd[j]
        BY <1>1, <3>2
      <4>2. fd[j] # NULL => fd[j] \in Ftes /\ fte[fd[j]].inode \in Inos
        BY OpenEntry
      <4> QED BY <1>3, <3>2, <4>1, <4>2 DEF SameNums
    <3> QED BY <3>1, <3>2
  <2>2. file = [j \in Fds |-> f(j)] /\ file' = [j \in Fds |-> g(j)]
    BY DEF file
  <2> HIDE DEF f, g
  <2> QED BY <2>1, <2>2
<1>8. file[k] # NULL
  BY <1>1, FileIs
<1>9. Files!Close(k)
  BY <1>1, <1>7, <1>8 DEF Files!Close, asked
<1> QED BY <1>4, <1>5, <1>6, <1>9 DEF Means, Follows, Files!Next

LEMMA WriteMeans ==
    ASSUME ~FaultyReads, Inv, Means, NEW k \in Fds, fs_write(k)
    PROVE  Means' /\ Follows
<1>1. /\ call.pc = "idle" /\ fd[k] # NULL /\ call.pdir = NULL
      /\ inode_unlock(fte[fd[k]].inode) /\ UNCHANGED <<fvars, imap, lost, call>>
  BY DEF fs_write, Inv, CallOK
<1>2. fte[fd[k]].inode \in Inos
  BY <1>1, OpenEntry
<1>3. Numbered' /\ Pinned' /\ file' = file
  BY <1>1, <1>2, SameStep, LockNums, TablesKept
<1>4. OnItsWay' /\ asked' = asked
  BY <1>1 DEF OnItsWay, asked
<1> QED BY <1>3, <1>4 DEF Means, Follows, Files!vars

LEMMA StillMeans ==
    ASSUME Means, UNCHANGED vars
    PROVE  Means' /\ Follows
<1>1. /\ inode' = inode /\ fte' = fte /\ fd' = fd /\ call' = call /\ lost' = lost
  BY DEF vars
<1>2. file' = file /\ asked' = asked
  BY <1>1 DEF file, asked
<1>3. Numbered' /\ Pinned'
  BY <1>1 DEF Means, Numbered, Pinned, IsDir
<1>4. Resolved' = Resolved /\ Crowded' = Crowded /\ Full' = Full /\ NewFile' = NewFile
  BY <1>1, <1>2 DEF Resolved, Crowded, OpenFds, Full, NewFile
<1>5. OnItsWay'
  BY <1>1, <1>4 DEF Means, OnItsWay, IsDir
<1> QED BY <1>2, <1>3, <1>5 DEF Means, Follows, Files!vars

LEMMA InitMeans ==
    ASSUME Init
    PROVE  Means /\ Files!Init
<1>1. ROOT \in InoNums /\ icrd \in Inos
  BY NumsFacts, INodesFacts
<1>2. Numbered
  <2>1. ROOT # 0
    BY <1>1, NumsFacts
  <2>2. \A i \in Inos : /\ inode[i].num = IF i = icrd THEN ROOT ELSE 0
                        /\ inode[i].count = IF i = icrd THEN 1 ELSE 0
                        /\ i = icrd => inode[i].valid
    BY DEF Init
  <2> QED BY <1>1, <2>1, <2>2 DEF Numbered
<1>3. Pinned
  BY <1>1 DEF Init, Pinned
<1>4. OnItsWay
  BY DEF Init, Idle, OnItsWay
<1>5. Files!Init
  <2>1. file = [k \in Fds |-> NULL]
    BY DEF Init, fd_table_init, file
  <2>2. asked = NULL
    BY DEF Init, Idle, asked
  <2> QED BY <2>1, <2>2 DEF Files!Init
<1> QED BY <1>2, <1>3, <1>4, <1>5 DEF Means

LEMMA StepMeans ==
    ASSUME ~FaultyReads, "dup" \notin Calls, CapacityFits,
           BYTE >= 2, NumInodes >= BLOCK_SIZE,
           Inv, BitInv, Means, [Next \/ Halt]_vars
    PROVE  Means' /\ Follows
<1>1. CASE fs_open \/ fs_creat
  BY <1>1, StartMeans DEF fs_open, fs_creat
<1>2. ASSUME NEW k \in Fds, fs_close(k) \/ fs_write(k) \/ dup(k)
      PROVE  Means' /\ Follows
  BY <1>2, CloseMeans, WriteMeans DEF dup
<1>3. CASE Root \/ WalkEnds \/ WalkRefused \/ WalkStays \/ Lookup \/ Missing \/ Enter
  BY <1>3, RootMeans, WalkEndsMeans, WalkRefusedMeans, WalkStaysMeans, LookupMeans,
     MissingMeans, EnterMeans
<1>4. CASE Alloci \/ Seti \/ Linked \/ Found
  BY <1>4, AllociMeans, SetiMeans, LinkedMeans, FoundMeans
<1>5. CASE AllocFte \/ AllocFd \/ PutFte \/ PutIno \/ PutPdir
  BY <1>5, AllocFteMeans, AllocFdMeans, PutFteMeans, PutInoMeans, PutPdirMeans
<1>6. CASE Halt \/ UNCHANGED vars
  BY <1>6, StillMeans DEF Halt
<1> QED BY <1>1, <1>2, <1>3, <1>4, <1>5, <1>6 DEF Next, Step

(* fs/fs.c:34-122, minix3.c:394-506: fs_open() and fs_creat() give out the *)
(* lowest free descriptor for the file that the path names, or for a new   *)
(* one if it names none; they fail only if it names none or Capacity files *)
(* are open, and a descriptor keeps its file until it is closed.  For this *)
(* every read must succeed (else an inode is found with the contents of    *)
(* another), no descriptor be duplicated (else an inode is given back      *)
(* twice), and the bitmap of inodes have a block.                          *)
THEOREM FsImplementsOpenFiles ==
    ASSUME ~FaultyReads, "dup" \notin Calls, CapacityFits,
           BYTE >= 2, NumInodes >= BLOCK_SIZE
    PROVE  Spec => ImplementsOpenFiles
<1>1. Init => BitInv
  BY InitBits
<1>2. Init => Means /\ Files!Init
  BY InitMeans
<1>3. Inv /\ BitInv /\ [Next \/ Halt]_vars => BitInv'
  BY StepBits
<1>4. Inv /\ BitInv /\ Means /\ [Next \/ Halt]_vars => Means' /\ [Files!Next]_(Files!vars)
  BY StepMeans DEF Follows
<1>5. Spec => Init /\ [][Next \/ Halt]_vars /\ []Inv
  BY FsInductive DEF Spec
<1> QED BY <1>1, <1>2, <1>3, <1>4, <1>5, PTL DEF ImplementsOpenFiles, Files!Spec

-----------------------------------------------------------------------------
(* Every step of fs_open() and fs_creat() brings the call nearer to its    *)
(* end: the walk takes at least one token for every inode that it enters.  *)

Rank == [idle |-> 0, spin |-> 0, abort |-> 0, twice |-> 0, put_pdir |-> 1, put_ino |-> 2,
         put_fte |-> 3, fd |-> 4, fte |-> 5, found |-> 6, linked |-> 6, seti |-> 7,
         alloci |-> 8, missing |-> 9, enter |-> 10, walk |-> 11, root |-> 12]

StepsLeft == Rank[call.pc] + 2 * Len(call.rest)

RestInv ==
    /\ call.rest \in Seq(STRING)
    /\ call.pc = "enter" => call.rest # << >>
    /\ call.pc = "root" => Len(call.rest) <= Len(call.path)

LEMMA RestShorter ==
    ASSUME NEW r \in Seq(STRING), r # << >>
    PROVE  rest(r) \in Seq(STRING) /\ Len(rest(r)) < Len(r)
<1> DEFINE k == FirstSep(r)
<1>1. Len(r) \in Nat /\ Len(r) > 0
  OBVIOUS
<1>2. CASE IsLastComponent(r)
  BY <1>1, <1>2 DEF rest
<1>3. CASE ~IsLastComponent(r)
  <2>1. Separators(r) # {} /\ k # Len(r)
    BY <1>3 DEF IsLastComponent
  <2>2. Separators(r) \in SUBSET Nat
    BY <1>1 DEF Separators
  <2>3. \E j \in Separators(r) : \A i \in Separators(r) : j <= i
    BY <2>1, <2>2, LeastNumber
  <2>4. k \in Separators(r)
    BY <2>3 DEF FirstSep
  <2>5. k \in 2..Len(r)
    BY <2>4 DEF Separators
  <2>6. rest(r) = SubSeq(r, k + 1, Len(r))
    BY <1>3 DEF rest
  <2> HIDE DEF k
  <2>7. k \in Nat /\ k >= 2 /\ k <= Len(r)
    BY <1>1, <2>5
  <2> QED BY <1>1, <2>6, <2>7
<1> QED BY <1>2, <1>3

LEMMA StepRest ==
    ASSUME Inv, RestInv, [Next \/ Halt]_vars
    PROVE  RestInv'
<1>1. DOMAIN call = Fields
  BY DEF Inv, CallOK
<1>2. CASE fs_open \/ fs_creat
  <2>1. PICK op \in {"open", "creat"} : Start(op)
    BY <1>2 DEF fs_open, fs_creat
  <2>2. PICK p \in Paths : call' = [Idle EXCEPT !.op = op, !.pc = "root", !.path = p,
                                                !.rest = FromRoot(p)]
    BY <2>1 DEF Start
  <2>3. call'.pc = "root" /\ call'.path = p /\ call'.rest = FromRoot(p)
    BY <2>2 DEF Idle
  <2>4. FromRoot(p) \in Seq(STRING) /\ Len(FromRoot(p)) <= Len(p)
    <3>1. p \in Seq(STRING) /\ p # << >> /\ Len(p) \in Nat
      BY PathAssumption
    <3>2. CASE p[1] = SEP
      <4>1. FromRoot(p) = Tail(p)
        BY <3>2 DEF FromRoot
      <4> QED BY <3>1, <4>1
    <3>3. CASE p[1] # SEP
      BY <3>1, <3>3 DEF FromRoot
    <3> QED BY <3>2, <3>3
  <2> QED BY <2>3, <2>4 DEF RestInv
<1>3. ASSUME call'.rest = call.rest, call'.pc \notin {"root", "enter"}
      PROVE  RestInv'
  BY <1>3 DEF RestInv
<1>4. ASSUME call' = Idle
      PROVE  RestInv'
  BY <1>4 DEF RestInv, Idle
<1>5. ASSUME call' = call
      PROVE  RestInv'
  BY <1>5 DEF RestInv
<1>6. ASSUME call.rest # << >>, call'.rest = rest(call.rest), call'.pc = "walk"
      PROVE  RestInv'
  BY <1>6, RestShorter DEF RestInv
<1>7. ASSUME call.rest # << >>, call'.rest = call.rest, call'.pc = "enter"
      PROVE  RestInv'
  BY <1>7 DEF RestInv
<1>8. CASE Root \/ WalkEnds \/ WalkRefused \/ Missing
  BY <1>1, <1>3, <1>4, <1>8 DEF Root, WalkEnds, WalkRefused, Missing, Go, Fields
<1>9. CASE WalkStays \/ Enter
  BY <1>1, <1>6, <1>9 DEF WalkStays, Enter, MoreComponents, RestInv, Fields
<1>10. CASE Lookup
  <2>1. call.rest # << >> /\ call'.rest = call.rest /\ call'.pc \in {"missing", "enter", "spin"}
    BY <1>1, <1>10 DEF Lookup, MoreComponents, Go, Fields
  <2> QED BY <1>3, <1>7, <2>1
<1>11. CASE Alloci \/ Seti \/ Linked \/ Found
  BY <1>1, <1>3, <1>11 DEF Alloci, Seti, Linked, Found, Go, Fields
<1>12. CASE AllocFte \/ AllocFd \/ PutFte \/ PutIno \/ PutPdir
  BY <1>1, <1>3, <1>4, <1>12 DEF AllocFte, AllocFd, PutFte, PutIno, PutPdir, Go, Fields
<1>13. CASE (\E k \in Fds : fs_close(k) \/ fs_write(k) \/ dup(k)) \/ Halt \/ UNCHANGED vars
  BY <1>5, <1>13 DEF fs_close, fs_write, dup, Halt, vars
<1> QED BY <1>2, <1>8, <1>9, <1>10, <1>11, <1>12, <1>13 DEF Next, Step

(* A step as it changes the place and what is left of the path.            *)
LEMMA StepPlaces ==
    ASSUME Inv, RestInv, Step
    PROVE  \/ /\ call'.rest = call.rest \/ call'.rest = << >>
              /\ Rank[call'.pc] < Rank[call.pc]
           \/ /\ call'.pc = "walk" /\ call.pc \in {"enter", "walk"}
              /\ call.rest # << >> /\ call'.rest = rest(call.rest)
<1>1. DOMAIN call = Fields
  BY DEF Inv, CallOK
<1> DEFINE Nearer(from, to) == /\ call.pc = from /\ call'.pc \in to
                               /\ call'.rest = call.rest \/ call'.rest = << >>
<1>2. Idle.pc = "idle" /\ Idle.rest = << >>
  BY DEF Idle
<1>3. CASE WalkStays \/ Enter
  BY <1>1, <1>3 DEF WalkStays, Enter, MoreComponents, RestInv, Fields
<1>4. CASE Root
  <2>1. Nearer("root", {"walk", "idle", "spin"})
    BY <1>1, <1>4, <1>2 DEF Root, Go, Fields
  <2> QED BY <2>1 DEF Rank
<1>5. CASE WalkEnds \/ WalkRefused \/ Lookup
  <2>1. Nearer("walk", {"found", "idle", "missing", "enter", "spin"})
    BY <1>1, <1>5, <1>2 DEF WalkEnds, WalkRefused, Lookup, Go, Fields
  <2> QED BY <2>1 DEF Rank
<1>6. CASE Missing
  <2>1. Nearer("missing", {"alloci", "idle"})
    BY <1>1, <1>6, <1>2 DEF Missing, Fields
  <2> QED BY <2>1 DEF Rank
<1>7. CASE Alloci
  <2>1. Nearer("alloci", {"put_pdir", "seti", "spin"})
    BY <1>1, <1>7, <1>2 DEF Alloci, Go, Fields
  <2> QED BY <2>1 DEF Rank
<1>8. CASE Seti
  <2>1. Nearer("seti", {"abort", "linked", "put_pdir"})
    BY <1>1, <1>8, <1>2 DEF Seti, Go, Fields
  <2> QED BY <2>1 DEF Rank
<1>9. CASE Linked \/ Found
  <2>1. Nearer("linked", {"fte"}) \/ Nearer("found", {"fte"})
    BY <1>1, <1>9, <1>2 DEF Linked, Found, Go, Fields
  <2> QED BY <2>1 DEF Rank
<1>10. CASE AllocFte
  <2>1. Nearer("fte", {"fd", "put_ino"})
    BY <1>1, <1>10, <1>2 DEF AllocFte, Go, Fields
  <2> QED BY <2>1 DEF Rank
<1>11. CASE AllocFd
  <2>1. Nearer("fd", {"idle", "put_fte"})
    BY <1>1, <1>11, <1>2 DEF AllocFd, Go, Fields
  <2> QED BY <2>1 DEF Rank
<1>12. CASE PutFte
  <2>1. Nearer("put_fte", {"put_ino"})
    BY <1>1, <1>12, <1>2 DEF PutFte, Go, Fields
  <2> QED BY <2>1 DEF Rank
<1>13. CASE PutIno
  <2>1. Nearer("put_ino", {"twice", "idle", "put_pdir"})
    BY <1>1, <1>13, <1>2 DEF PutIno, Go, Fields
  <2> QED BY <2>1 DEF Rank
<1>14. CASE PutPdir
  <2>1. Nearer("put_pdir", {"idle"})
    BY <1>14, <1>2 DEF PutPdir
  <2> QED BY <2>1 DEF Rank
<1> QED BY <1>3, <1>4, <1>5, <1>6, <1>7, <1>8, <1>9, <1>10, <1>11, <1>12, <1>13, <1>14 DEF Step

LEMMA StepsLeftType ==
    ASSUME Inv, RestInv
    PROVE  StepsLeft \in Nat /\ Rank[call.pc] \in 0..12 /\ Len(call.rest) \in Nat
<1>1. call.pc \in Labels
  BY DEF Inv, CallOK
<1>2. Rank[call.pc] \in 0..12
  BY <1>1 DEF Rank, Labels
<1>3. Len(call.rest) \in Nat
  BY DEF RestInv
<1>4. \A a \in 0..12, l \in Nat : a + 2 * l \in Nat
  OBVIOUS
<1> QED BY <1>2, <1>3, <1>4, Zenon DEF StepsLeft

LEMMA StepCounts ==
    ASSUME Inv, RestInv, Inv', RestInv', Step
    PROVE  StepsLeft' < StepsLeft
<1> DEFINE a == Rank[call.pc]
           b == Rank[call'.pc]
           l == Len(call.rest)
           m == Len(call'.rest)
<1>1. a \in 0..12 /\ l \in Nat /\ b \in 0..12 /\ m \in Nat
  <2>1. call.pc \in Labels /\ call'.pc \in Labels
    BY DEF Inv, CallOK
  <2>2. Rank[call.pc] \in 0..12 /\ Rank[call'.pc] \in 0..12
    BY <2>1 DEF Rank, Labels
  <2> QED BY <2>2 DEF RestInv
<1>2. StepsLeft = a + 2 * l /\ StepsLeft' = b + 2 * m
  BY DEF StepsLeft
<1>3. \/ m <= l /\ b < a
      \/ m < l /\ b <= a + 1
  <2>1. CASE /\ call'.rest = call.rest \/ call'.rest = << >>
             /\ Rank[call'.pc] < Rank[call.pc]
    <3>1. m = l \/ m = 0
      BY <2>1
    <3> HIDE DEF m, l
    <3> QED BY <1>1, <2>1, <3>1
  <2>2. CASE /\ call'.pc = "walk" /\ call.pc \in {"enter", "walk"}
             /\ call.rest # << >> /\ call'.rest = rest(call.rest)
    <3>1. m < l
      BY <2>2, RestShorter DEF RestInv
    <3>2. b = 11 /\ a \in {10, 11}
      BY <2>2 DEF Rank
    <3> QED BY <3>1, <3>2
  <2> QED BY <2>1, <2>2, StepPlaces
<1> HIDE DEF a, b, l, m
<1> QED BY <1>1, <1>2, <1>3

(* One thread runs a call to its end: every step of fs_open() or fs_creat()*)
(* leaves fewer steps to go.                                               *)
EveryStepCounts == [][Step => StepsLeft \in Nat /\ StepsLeft' < StepsLeft]_vars

THEOREM FsEveryStepCounts == Spec => EveryStepCounts
<1>1. Init => RestInv
  <2>1. << >> \in Seq(STRING)
    OBVIOUS
  <2> QED BY <2>1 DEF Init, Idle, RestInv
<1>2. Inv /\ RestInv /\ [Next \/ Halt]_vars => RestInv'
  BY StepRest
<1>3. Inv /\ RestInv /\ Inv' /\ RestInv' => [Step => StepsLeft \in Nat /\ StepsLeft' < StepsLeft]_vars
  BY StepsLeftType, StepCounts
<1> QED BY <1>1, <1>2, <1>3, FsInductive, PTL DEF Spec, EveryStepCounts
=============================================================================
