----------------------------- MODULE MCBlkPool ------------------------------
(***************************************************************************)
(* Small instances of BlkPool.                                             *)
(***************************************************************************)
EXTENDS BlkPool, SequencesExt

(* BlkPool states the free list that blkpool_init() builds; this is        *)
(* blkpool_init() step by step: list_init(), then node_init() and          *)
(* list_insert() on every buffer in the order of the array.                *)
FirstLinks(n) ==
    LET null     == [prev |-> Dummy, next |-> Dummy]
        _init(l, b) == list_insert(node_init(l, b), Dummy, b)
    IN  FoldLeft(_init, list_init([b \in 0..n |-> null], Dummy), [b \in 1..n |-> b])

ASSUME InitLinkAssumption == InitLink = FirstLinks(POOL_SIZE)

-----------------------------------------------------------------------------
(* What is left of a free list of n buffers when blkpool_get_any() drops   *)
(* some of them, for callers that hold one buffer at a time.  A dropped    *)
(* buffer is not locked, so a search may still find it by its number, and  *)
(* node_remove() then follows its stale pointers into the list.            *)
UsedOne(S, n) ==
    {list_insert(node_remove(l, b), Dummy, b) : l \in S, b \in 1..n}
DroppedOne(S) == {node_remove(l, list_get_head_node(l, Dummy)) : l \in S}

RECURSIVE AnyUse(_, _)
AnyUse(S, n) ==
    LET T == S \cup UsedOne(S, n) IN IF T = S THEN S ELSE AnyUse(T, n)

(* The lists after so many drops.                                          *)
RECURSIVE AfterDrops(_, _)
AfterDrops(drops, n) ==
    IF drops = 0 THEN AnyUse({FirstLinks(n)}, n)
    ELSE AnyUse(DroppedOne(AfterDrops(drops - 1, n)), n)

(* A list that is empty makes _get_free() wait (blkpool.c:69); one that is *)
(* not, but whose head is the dummy node, makes it take the dummy node for *)
(* a buffer (blkpool.c:75-76).                                             *)
Empty(l)  == list_is_empty(l, Dummy)
Broken(l) == ~Empty(l) /\ l[Dummy].next = Dummy

(* Two drops never harm these pools.  The third may leave an empty list,   *)
(* or one that the next use breaks.  This is the number TooMany of         *)
(* FileData.                                                               *)
ASSUME DropsAssumption ==
    /\ \A n \in 3..4 : \A l \in AfterDrops(2, n) : ~Empty(l) /\ ~Broken(l)
    /\ LET third == DroppedOne(AfterDrops(2, 4))
       IN  (\E l \in third : Empty(l)) /\ (\E l \in UsedOne(third, 4) : Broken(l))
=============================================================================
