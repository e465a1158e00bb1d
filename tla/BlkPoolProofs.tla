--------------------------- MODULE BlkPoolProofs ---------------------------
(***************************************************************************)
(* The invariants of the buffer cache, for any number of buffers and       *)
(* blocks, any contents, any set of bad blocks and any number of callers.  *)
(***************************************************************************)
EXTENDS BlkPool, ListProofs, FiniteSetTheorems

-----------------------------------------------------------------------------
(* The free list                                                           *)

(* The memory l has a free list of exactly the buffers outside of locked.  *)
FreeListOf(l, locked) ==
    \E s \in Seq(Bufs) :
        /\ IsList(l, Dummy, s)
        /\ Distinct(s)
        /\ \A b \in Bufs : (\E i \in 1..Len(s) : s[i] = b) <=> b \notin locked

Locked == {b \in Bufs : buf[b].locked}

LEMMA NodesFacts ==
    /\ POOL_SIZE \in Nat /\ POOL_SIZE >= 1
    /\ Dummy \in Nodes /\ Dummy \notin Bufs /\ Bufs = Nodes \ {Dummy}
    /\ NULL \notin Nodes
BY PoolAssumption DEF Nodes, Bufs, Dummy

(* A list without repetition is no longer than the pool.                   *)
LEMMA FreeSeqsFacts ==
    /\ FreeSeqs \subseteq Seq(Bufs)
    /\ \A s \in Seq(Bufs) : Distinct(s) => s \in FreeSeqs
<1>1. FreeSeqs \subseteq Seq(Bufs)
  <2>1. ASSUME NEW s \in FreeSeqs
        PROVE  s \in Seq(Bufs)
    <3>1. PICK k \in 0..POOL_SIZE : s \in [1..k -> Bufs]
      BY DEF FreeSeqs
    <3>2. k \in Nat
      BY NodesFacts
    <3> QED BY <3>1, <3>2
  <2> QED BY <2>1
<1>2. ASSUME NEW s \in Seq(Bufs), Distinct(s)
      PROVE  s \in FreeSeqs
  <2>1. Len(s) \in Nat /\ s \in [1..Len(s) -> Bufs]
    OBVIOUS
  <2>2. s \in Injection(1..Len(s), Bufs)
    BY <1>2, <2>1 DEF Injection, IsInjective, Distinct
  <2>3. IsFiniteSet(Bufs) /\ Cardinality(Bufs) = POOL_SIZE
    BY NodesFacts, FS_Interval DEF Bufs
  <2>4. Cardinality(1..Len(s)) <= POOL_SIZE
    BY <2>2, <2>3, FS_Injection
  <2>5. Cardinality(1..Len(s)) = Len(s)
    BY <2>1, FS_Interval
  <2>6. Len(s) \in 0..POOL_SIZE
    BY <2>1, <2>4, <2>5, NodesFacts
  <2> QED BY <2>1, <2>6 DEF FreeSeqs
<1> QED BY <1>1, <1>2

LEMMA FreeListForms ==
    /\ FreeIffUnlocked <=> FreeListOf(link, Locked)
    /\ FreeIffUnlocked' <=> FreeListOf(link', Locked')
BY FreeSeqsFacts DEF FreeIffUnlocked, IsFreeList, FreeListOf, Locked

(* node_remove of a free buffer, as in blkpool.c:74 and 99.                *)
LEMMA Take ==
    ASSUME NEW l \in Links(Nodes), NEW L, FreeListOf(l, L), NEW b \in Bufs \ L
    PROVE  FreeListOf(node_remove(l, b), L \cup {b})
<1>1. PICK s \in Seq(Bufs) :
        /\ IsList(l, Dummy, s)
        /\ Distinct(s)
        /\ \A c \in Bufs : (\E i \in 1..Len(s) : s[i] = c) <=> c \notin L
  BY DEF FreeListOf
<1>2. PICK k \in 1..Len(s) : s[k] = b
  BY <1>1
<1>3. /\ Without(s, k) \in Seq(Bufs)
      /\ Distinct(Without(s, k))
      /\ IsList(node_remove(l, b), Dummy, Without(s, k))
      /\ \A m : (\E j \in 1..Len(Without(s, k)) : Without(s, k)[j] = m)
                  <=> m # b /\ \E j \in 1..Len(s) : s[j] = m
  <2>1. s \in Seq(Nodes \ {Dummy}) /\ Dummy \in Nodes
    BY <1>1, NodesFacts
  <2>2. /\ Without(s, k) \in Seq(Nodes \ {Dummy})
        /\ Distinct(Without(s, k))
        /\ IsList(node_remove(l, s[k]), Dummy, Without(s, k))
        /\ \A m : (\E j \in 1..Len(Without(s, k)) : Without(s, k)[j] = m)
                    <=> m # s[k] /\ \E j \in 1..Len(s) : s[j] = m
    BY <1>1, <2>1, RemoveDeletes
  <2> QED BY <1>2, <2>2, NodesFacts
<1> QED BY <1>1, <1>3 DEF FreeListOf

(* list_insert of a buffer that is not free, as in blkpool.c:137.          *)
LEMMA Release ==
    ASSUME NEW l \in Links(Nodes), NEW L, FreeListOf(l, L), NEW b \in Bufs, b \in L
    PROVE  FreeListOf(list_insert(l, Dummy, b), L \ {b})
<1>1. PICK s \in Seq(Bufs) :
        /\ IsList(l, Dummy, s)
        /\ Distinct(s)
        /\ \A c \in Bufs : (\E i \in 1..Len(s) : s[i] = c) <=> c \notin L
  BY DEF FreeListOf
<1>2. \A i \in 1..Len(s) : s[i] # b
  BY <1>1
<1>3. /\ Append(s, b) \in Seq(Bufs)
      /\ Distinct(Append(s, b))
      /\ IsList(list_insert(l, Dummy, b), Dummy, Append(s, b))
  BY <1>1, <1>2, NodesFacts, InsertAppends
<1>4. ASSUME NEW c \in Bufs
      PROVE  (\E i \in 1..Len(Append(s, b)) : Append(s, b)[i] = c)
                <=> c = b \/ \E i \in 1..Len(s) : s[i] = c
  <2>1. /\ Len(Append(s, b)) = Len(s) + 1 /\ Len(s) \in Nat
        /\ Append(s, b)[Len(s) + 1] = b
        /\ \A i \in 1..Len(s) : Append(s, b)[i] = s[i]
    OBVIOUS
  <2> QED BY <2>1
<1> QED BY <1>1, <1>3, <1>4 DEF FreeListOf

(* The head node is a free buffer; there is none only if no buffer is.     *)
LEMMA FirstFree ==
    ASSUME NEW l \in Links(Nodes), NEW L, FreeListOf(l, L)
    PROVE  /\ \A b \in Bufs : b = list_get_head_node(l, Dummy) => b \notin L
           /\ list_is_empty(l, Dummy) => \A b \in Bufs : b \in L
<1>1. PICK s \in Seq(Bufs) :
        /\ IsList(l, Dummy, s)
        /\ Distinct(s)
        /\ \A c \in Bufs : (\E i \in 1..Len(s) : s[i] = c) <=> c \notin L
  BY DEF FreeListOf
<1>2. /\ list_is_empty(l, Dummy) <=> s = << >>
      /\ s # << >> => list_get_head_node(l, Dummy) = s[1]
      /\ s = << >> => list_get_head_node(l, Dummy) = NULL
  BY <1>1, NodesFacts, HeadOfList
<1>3. ASSUME NEW b \in Bufs, b = list_get_head_node(l, Dummy)
      PROVE  b \notin L
  <2>1. s # << >>
    BY <1>2, <1>3, NodesFacts
  <2>2. 1 \in 1..Len(s) /\ s[1] = b
    BY <1>2, <1>3, <2>1
  <2> QED BY <1>1, <2>2
<1>4. ASSUME list_is_empty(l, Dummy), NEW b \in Bufs
      PROVE  b \in L
  BY <1>1, <1>2, <1>4
<1> QED BY <1>3, <1>4

-----------------------------------------------------------------------------
(* The invariant                                                           *)

LEMMA InitInv == Init => Inv
<1> SUFFICES ASSUME Init PROVE Inv
  OBVIOUS
<1> USE NodesFacts DEF Init, blkpool_init
<1>1. InitLink \in Links(Nodes)
  BY DEF InitLink, Links, Nodes, Bufs, Dummy
<1>2. TypeOK
  BY <1>1, PoolAssumption DEF TypeOK, Buffers
<1>3. FreeIffUnlocked
  <2> DEFINE s == [i \in 1..POOL_SIZE |-> i]
  <2>1. /\ s \in Seq(Bufs) /\ Len(s) = POOL_SIZE
        /\ \A i \in 1..POOL_SIZE : s[i] = i
    BY DEF Bufs
  <2>2. \A i \in 0..POOL_SIZE : NodeAt(Dummy, s, i) = i
    BY <2>1 DEF NodeAt, Dummy
  <2>3. NodeAt(Dummy, s, POOL_SIZE + 1) = Dummy
    BY <2>1 DEF NodeAt
  <2>4. ASSUME NEW i \in 0..POOL_SIZE
        PROVE  /\ link[NodeAt(Dummy, s, i)].next = NodeAt(Dummy, s, i + 1)
               /\ link[NodeAt(Dummy, s, i + 1)].prev = NodeAt(Dummy, s, i)
    <3>1. \A j \in 0..POOL_SIZE : j \in Nodes
      BY DEF Nodes, Bufs, Dummy
    <3>2. CASE i = POOL_SIZE
      BY <2>2, <2>3, <3>1, <3>2 DEF InitLink, Dummy
    <3>3. CASE i # POOL_SIZE
      <4>1. i + 1 \in 1..POOL_SIZE /\ (i + 1) - 1 = i
        BY <3>3
      <4> QED BY <2>2, <3>1, <3>3, <4>1 DEF InitLink, Dummy
    <3> QED BY <3>2, <3>3
  <2>5. IsList(link, Dummy, s)
    BY <2>1, <2>4 DEF IsList
  <2>6. Distinct(s)
    BY <2>1 DEF Distinct
  <2>7. \A b \in Bufs : (\E i \in 1..Len(s) : s[i] = b) <=> ~buf[b].locked
    BY <2>1 DEF Bufs
  <2> HIDE DEF s
  <2> QED BY <2>1, <2>5, <2>6, <2>7, FreeSeqsFacts DEF FreeIffUnlocked, IsFreeList
<1>4. HandlesExclusive /\ OneBufferPerBlock /\ CacheCoherent /\ LockedIsHeld /\ HeldIsMatch
  BY DEF HandlesExclusive, OneBufferPerBlock, CacheCoherent, LockedIsHeld,
         HeldIsMatch
<1>5. ValidNumber /\ WaitsOnlyForHolders
  BY DEF ValidNumber, WaitsOnlyForHolders
<1> QED BY <1>2, <1>3, <1>4, <1>5 DEF Inv

LEMMA HitInv ==
    ASSUME Inv, spinning = NULL, NEW n \in Blocks, getblk_hit(n)
    PROVE  Inv'
<1> USE DEF Inv
<1>1. PICK b \in Bufs :
        /\ IsMatch(b, n)
        /\ ~buf[b].locked
        /\ link' = node_remove(link, b)
        /\ buf' = [buf EXCEPT ![b].locked = TRUE]
        /\ held' = held \cup {<<b, n>>}
        /\ UNCHANGED <<disk, spinning>>
  BY DEF getblk_hit, OnFreeList
<1>2. buf[b].num = n /\ b \in Nodes
  BY <1>1, NodesFacts DEF IsMatch
<1>3. /\ buf'[b].locked /\ buf'[b].num = n
      /\ buf'[b].valid = buf[b].valid
      /\ \A c \in Bufs \ {b} : buf'[c] = buf[c]
      /\ \A c \in Bufs : buf'[c].num = buf[c].num /\ buf'[c].valid = buf[c].valid
  BY <1>1, <1>2 DEF TypeOK, Buffers
<1>4. TypeOK'
  <2>1. link' \in Links(Nodes)
    BY <1>1, <1>2, RemoveType DEF TypeOK
  <2>2. buf' \in [Bufs -> Buffers]
    BY <1>1 DEF TypeOK, Buffers
  <2>3. held' \subseteq Bufs \X Blocks
    BY <1>1 DEF TypeOK
  <2> QED BY <1>1, <2>1, <2>2, <2>3 DEF TypeOK
<1>5. FreeIffUnlocked'
  <2>1. Locked' = Locked \cup {b} /\ b \in Bufs \ Locked
    BY <1>1, <1>3 DEF Locked
  <2>2. FreeListOf(link', Locked')
    BY <1>1, <2>1, FreeListForms, Take DEF TypeOK
  <2> QED BY <2>2, FreeListForms
<1>6. \A h \in held : h[1] # b /\ h[2] # n
  <2>1. ASSUME NEW h \in held
        PROVE  h[1] # b /\ h[2] # n
    <3>1. h[1] \in Bufs /\ h[1] # b
      BY <1>1 DEF HandlesExclusive, TypeOK
    <3>2. h[1] < b \/ b < h[1]
      BY <3>1 DEF Bufs
    <3> QED BY <1>1, <3>1, <3>2 DEF HeldIsMatch, IsMatch
  <2> QED BY <2>1
<1>7. HandlesExclusive'
  BY <1>1, <1>3, <1>6 DEF HandlesExclusive, TypeOK
<1>8. OneBufferPerBlock'
  BY <1>3 DEF OneBufferPerBlock
<1>9. CacheCoherent'
  BY <1>1, <1>3 DEF CacheCoherent
<1>10. LockedIsHeld'
  <2>1. <<b, n>> \in held' /\ held \subseteq held' /\ <<b, n>>[1] = b
    BY <1>1
  <2> QED BY <1>3, <2>1 DEF LockedIsHeld
<1>11. HeldIsMatch'
  BY <1>1, <1>3 DEF HeldIsMatch, IsMatch, TypeOK
<1>12. ValidNumber' /\ WaitsOnlyForHolders'
  BY <1>1, <1>3 DEF ValidNumber, WaitsOnlyForHolders
<1> QED BY <1>4, <1>5, <1>7, <1>8, <1>9, <1>10, <1>11, <1>12

LEMMA MissInv ==
    ASSUME Inv, spinning = NULL, NEW n \in Blocks, getblk_miss(n)
    PROVE  Inv'
<1> USE DEF Inv
<1>1. PICK b \in Bufs :
        /\ NoMatch(n)
        /\ IsFree(b)
        /\ link' = node_remove(link, b)
        /\ buf' = [buf EXCEPT ![b] = [num |-> n, valid |-> TRUE,
                                      locked |-> TRUE, block |-> disk[n]]]
        /\ held' = held \cup {<<b, n>>}
        /\ UNCHANGED <<disk, spinning>>
  BY DEF getblk_miss
<1>2. ~buf[b].locked /\ b \in Nodes
  <2>1. b \notin Locked
    BY <1>1, FreeListForms, FirstFree DEF IsFree, TypeOK
  <2> QED BY <2>1, NodesFacts DEF Locked
<1>3. /\ buf'[b].locked /\ buf'[b].num = n /\ buf'[b].valid
      /\ \A c \in Bufs \ {b} : buf'[c] = buf[c]
  BY <1>1 DEF TypeOK
<1>4. TypeOK'
  <2>1. link' \in Links(Nodes)
    BY <1>1, <1>2, RemoveType DEF TypeOK
  <2>2. buf' \in [Bufs -> Buffers]
    BY <1>1, PoolAssumption DEF TypeOK, Buffers
  <2>3. held' \subseteq Bufs \X Blocks
    BY <1>1 DEF TypeOK
  <2> QED BY <1>1, <2>1, <2>2, <2>3 DEF TypeOK
<1>5. FreeIffUnlocked'
  <2>1. Locked' = Locked \cup {b} /\ b \in Bufs \ Locked
    BY <1>2, <1>3 DEF Locked
  <2>2. FreeListOf(link', Locked')
    BY <1>1, <2>1, FreeListForms, Take DEF TypeOK
  <2> QED BY <2>2, FreeListForms
<1>6. \A h \in held : h[1] # b /\ h[2] # n /\ h[1] \in Bufs
  BY <1>1, <1>2 DEF HandlesExclusive, TypeOK, NoMatch
<1>7. HandlesExclusive'
  BY <1>1, <1>3, <1>6 DEF HandlesExclusive, TypeOK
<1>8. OneBufferPerBlock'
  BY <1>1, <1>3 DEF OneBufferPerBlock, NoMatch
<1>9. CacheCoherent'
  BY <1>1, <1>3 DEF CacheCoherent
<1>10. LockedIsHeld'
  <2>1. <<b, n>> \in held' /\ held \subseteq held' /\ <<b, n>>[1] = b
    BY <1>1
  <2> QED BY <1>3, <2>1 DEF LockedIsHeld
<1>11. HeldIsMatch'
  <2>1. ASSUME NEW h \in held
        PROVE  IsMatch(h[1], h[2])'
    BY <1>1, <1>3, <1>6, <2>1 DEF HeldIsMatch, IsMatch
  <2>2. IsMatch(b, n)'
    <3>1. \A c \in Bufs : c < b => c # b
      BY DEF Bufs
    <3> QED BY <1>1, <1>3, <3>1 DEF IsMatch, NoMatch
  <2>3. \A h \in held' : h \in held \/ (h[1] = b /\ h[2] = n)
    BY <1>1
  <2> QED BY <2>1, <2>2, <2>3 DEF HeldIsMatch, IsMatch
<1>12. ValidNumber' /\ WaitsOnlyForHolders'
  BY <1>1, <1>3 DEF ValidNumber, WaitsOnlyForHolders
<1> QED BY <1>4, <1>5, <1>7, <1>8, <1>9, <1>10, <1>11, <1>12

LEMMA FailInv ==
    ASSUME Inv, spinning = NULL, NEW n \in Blocks, getblk_fails(n)
    PROVE  Inv'
<1> USE DEF Inv
<1>1. PICK b \in Bufs, d \in Data :
        /\ NoMatch(n)
        /\ IsFree(b)
        /\ ReadFails(n)
        /\ link' = list_insert(node_remove(link, b), Dummy, b)
        /\ buf' = [buf EXCEPT ![b] = [num |-> n, valid |-> FALSE,
                                      locked |-> FALSE, block |-> d]]
        /\ UNCHANGED <<disk, held, spinning>>
  BY DEF getblk_fails
<1>2. ~buf[b].locked /\ b \in Nodes
  <2>1. b \notin Locked
    BY <1>1, FreeListForms, FirstFree DEF IsFree, TypeOK
  <2> QED BY <2>1, NodesFacts DEF Locked
<1>3. /\ ~buf'[b].locked /\ buf'[b].num = n /\ ~buf'[b].valid
      /\ \A c \in Bufs \ {b} : buf'[c] = buf[c]
  BY <1>1 DEF TypeOK
<1>4. node_remove(link, b) \in Links(Nodes)
  BY <1>2, RemoveType DEF TypeOK
<1>5. TypeOK'
  <2>1. link' \in Links(Nodes)
    BY <1>1, <1>2, <1>4, NodesFacts, InsertType
  <2>2. buf' \in [Bufs -> Buffers]
    BY <1>1, PoolAssumption DEF TypeOK, Buffers
  <2> QED BY <1>1, <2>1, <2>2 DEF TypeOK
<1>6. FreeIffUnlocked'
  <2>1. /\ Locked' = (Locked \cup {b}) \ {b}
        /\ b \in Bufs \ Locked /\ b \in Locked \cup {b}
    BY <1>2, <1>3 DEF Locked
  <2>2. FreeListOf(node_remove(link, b), Locked \cup {b})
    BY <2>1, FreeListForms, Take DEF TypeOK
  <2>3. FreeListOf(link', (Locked \cup {b}) \ {b})
    BY <1>1, <1>4, <2>1, <2>2, Release
  <2> QED BY <2>1, <2>3, FreeListForms
<1>7. \A h \in held : h[1] # b /\ h[2] # n /\ h[1] \in Bufs
  BY <1>1, <1>2 DEF HandlesExclusive, TypeOK, NoMatch
<1>8. HandlesExclusive'
  BY <1>1, <1>3, <1>7 DEF HandlesExclusive
<1>9. OneBufferPerBlock'
  BY <1>1, <1>3 DEF OneBufferPerBlock, NoMatch
<1>10. CacheCoherent' /\ LockedIsHeld'
  BY <1>1, <1>3 DEF CacheCoherent, LockedIsHeld
<1>11. HeldIsMatch'
  BY <1>1, <1>3, <1>7 DEF HeldIsMatch, IsMatch
<1>12. ValidNumber' /\ WaitsOnlyForHolders'
  BY <1>1, <1>3 DEF ValidNumber, WaitsOnlyForHolders, ReadFails
<1> QED BY <1>5, <1>6, <1>8, <1>9, <1>10, <1>11, <1>12

LEMMA SpinInv ==
    ASSUME Inv, spinning = NULL, NEW n \in Blocks, getblk_spins(n)
    PROVE  Inv'
<1> USE DEF Inv
<1>1. /\ spinning' = n
      /\ UNCHANGED <<disk, buf, link, held>>
  BY DEF getblk_spins
<1>2. WaitsOnlyForHolders'
  <2>1. CASE \E b \in Bufs : IsMatch(b, n) /\ buf[b].locked
    <3>1. PICK b \in Bufs : buf[b].num = n /\ buf[b].locked
      BY <2>1 DEF IsMatch
    <3>2. PICK h \in held : h[1] = b
      BY <3>1 DEF LockedIsHeld
    <3>3. h[2] = n
      BY <3>1, <3>2 DEF HandlesExclusive
    <3> QED BY <1>1, <3>2, <3>3 DEF WaitsOnlyForHolders
  <2>2. CASE list_is_empty(link, Dummy)
    <3>1. \A b \in Bufs : buf[b].locked
      BY <2>2, FreeListForms, FirstFree DEF TypeOK, Locked
    <3> QED BY <1>1, <3>1 DEF WaitsOnlyForHolders, LockedIsHeld
  <2> QED BY <2>1, <2>2 DEF getblk_spins
<1>3. TypeOK'
  BY <1>1 DEF TypeOK
<1>4. FreeIffUnlocked'
  BY <1>1, FreeListForms DEF Locked
<1>5. HandlesExclusive' /\ OneBufferPerBlock' /\ CacheCoherent'
  BY <1>1 DEF HandlesExclusive, OneBufferPerBlock, CacheCoherent
<1>6. LockedIsHeld' /\ HeldIsMatch' /\ ValidNumber'
  BY <1>1 DEF LockedIsHeld, HeldIsMatch, IsMatch, ValidNumber
<1> QED BY <1>2, <1>3, <1>4, <1>5, <1>6

LEMMA PutInv ==
    ASSUME Inv, spinning = NULL, NEW b, NEW n, blkpool_putblk(b, n)
    PROVE  Inv'
<1> USE DEF Inv
<1>1. /\ <<b, n>> \in held
      /\ disk' \in IF buf[b].valid THEN AfterWrite(buf[b].num, buf[b].block)
                                   ELSE {disk}
      /\ buf' = [buf EXCEPT ![b].locked = FALSE]
      /\ link' = list_insert(link, Dummy, b)
      /\ held' = held \ {<<b, n>>}
      /\ UNCHANGED spinning
  BY DEF blkpool_putblk
<1>2. /\ b \in Bufs /\ n \in Blocks /\ b \in Nodes
      /\ buf[b].locked /\ buf[b].num = n /\ buf[b].block \in Data
  BY <1>1, NodesFacts DEF TypeOK, HandlesExclusive, Buffers
<1>3. /\ ~buf'[b].locked
      /\ \A c \in Bufs \ {b} : buf'[c] = buf[c]
      /\ \A c \in Bufs : /\ buf'[c].num = buf[c].num
                         /\ buf'[c].valid = buf[c].valid
                         /\ buf'[c].block = buf[c].block
  BY <1>1, <1>2 DEF TypeOK, Buffers
<1>4. /\ disk' \in [Blocks -> Data]
      /\ \A m \in Blocks \ {n} : disk'[m] = disk[m]
      /\ buf[b].valid /\ n \notin BadBlocks => disk'[n] = buf[b].block
      /\ ~buf[b].valid => disk' = disk
  BY <1>1, <1>2 DEF AfterWrite, TypeOK
<1>5. TypeOK'
  <2>1. link' \in Links(Nodes)
    BY <1>1, <1>2, NodesFacts, InsertType DEF TypeOK
  <2>2. buf' \in [Bufs -> Buffers]
    BY <1>1, <1>2 DEF TypeOK, Buffers
  <2> QED BY <1>1, <1>4, <2>1, <2>2 DEF TypeOK
<1>6. FreeIffUnlocked'
  <2>1. Locked' = Locked \ {b} /\ b \in Locked
    BY <1>2, <1>3 DEF Locked
  <2>2. FreeListOf(link', Locked')
    BY <1>1, <1>2, <2>1, FreeListForms, Release DEF TypeOK
  <2> QED BY <2>2, FreeListForms
<1>7. \A h \in held' : h[1] # b /\ h[2] # n /\ h[1] \in Bufs /\ h \in held
  BY <1>1 DEF HandlesExclusive, TypeOK
<1>8. HandlesExclusive'
  BY <1>3, <1>7 DEF HandlesExclusive
<1>9. OneBufferPerBlock'
  BY <1>3 DEF OneBufferPerBlock
<1>10. CacheCoherent'
  <2>1. ASSUME NEW c \in Bufs, buf'[c].valid, ~buf'[c].locked,
               buf'[c].num \notin BadBlocks
        PROVE  buf'[c].block = disk'[buf'[c].num]
    <3>1. CASE c = b
      BY <1>2, <1>3, <1>4, <2>1, <3>1
    <3>2. CASE c # b
      <4>1. buf'[c] = buf[c] /\ buf[c].block = disk[buf[c].num]
        BY <1>3, <2>1, <3>2 DEF CacheCoherent
      <4>2. buf[c].num \in Blocks \ {n}
        BY <1>2, <2>1, <3>2, <4>1 DEF OneBufferPerBlock, ValidNumber
      <4> QED BY <1>4, <4>1, <4>2
    <3> QED BY <3>1, <3>2
  <2> QED BY <2>1 DEF CacheCoherent
<1>11. LockedIsHeld'
  <2>1. ASSUME NEW c \in Bufs, buf'[c].locked
        PROVE  \E h \in held' : h[1] = c
    <3>1. c # b /\ buf[c].locked
      BY <1>3, <2>1
    <3>2. PICK h \in held : h[1] = c
      BY <3>1 DEF LockedIsHeld
    <3>3. h # <<b, n>>
      BY <3>1, <3>2
    <3> QED BY <1>1, <3>2, <3>3
  <2> QED BY <2>1 DEF LockedIsHeld
<1>12. HeldIsMatch'
  BY <1>3, <1>7 DEF HeldIsMatch, IsMatch
<1>13. ValidNumber' /\ WaitsOnlyForHolders'
  BY <1>1, <1>3 DEF ValidNumber, WaitsOnlyForHolders
<1> QED BY <1>5, <1>6, <1>8, <1>9, <1>10, <1>11, <1>12, <1>13

LEMMA StoreInv ==
    ASSUME Inv, spinning = NULL, NEW b, NEW n, StoreInto(b, n)
    PROVE  Inv'
<1> USE DEF Inv
<1>1. PICK d \in Data :
        /\ <<b, n>> \in held
        /\ buf' = [buf EXCEPT ![b].block = d]
        /\ UNCHANGED <<disk, link, held, spinning>>
  BY DEF StoreInto
<1>2. b \in Bufs /\ buf[b].locked
  BY <1>1 DEF TypeOK, HandlesExclusive
<1>3. /\ \A c \in Bufs \ {b} : buf'[c] = buf[c]
      /\ \A c \in Bufs : /\ buf'[c].num = buf[c].num
                         /\ buf'[c].valid = buf[c].valid
                         /\ buf'[c].locked = buf[c].locked
  BY <1>1, <1>2 DEF TypeOK, Buffers
<1>4. TypeOK'
  <2>1. buf' \in [Bufs -> Buffers]
    BY <1>1, <1>2 DEF TypeOK, Buffers
  <2> QED BY <1>1, <2>1 DEF TypeOK
<1>5. FreeIffUnlocked'
  <2>1. Locked' = Locked /\ link' = link
    BY <1>1, <1>3 DEF Locked
  <2> QED BY <2>1, FreeListForms
<1>6. HandlesExclusive'
  BY <1>1, <1>3 DEF HandlesExclusive, TypeOK
<1>7. OneBufferPerBlock'
  BY <1>3 DEF OneBufferPerBlock
<1>8. CacheCoherent'
  BY <1>1, <1>2, <1>3 DEF CacheCoherent
<1>9. LockedIsHeld' /\ ValidNumber'
  BY <1>1, <1>3 DEF LockedIsHeld, ValidNumber
<1>10. HeldIsMatch'
  BY <1>1, <1>3 DEF HeldIsMatch, IsMatch, TypeOK
<1>11. WaitsOnlyForHolders'
  BY <1>1 DEF WaitsOnlyForHolders
<1> QED BY <1>4, <1>5, <1>6, <1>7, <1>8, <1>9, <1>10, <1>11

LEMMA StutterInv == Inv /\ UNCHANGED vars => Inv'
<1> SUFFICES ASSUME Inv, UNCHANGED vars
             PROVE  Inv'
  OBVIOUS
<1> USE DEF Inv, vars
<1>1. TypeOK' /\ HandlesExclusive' /\ OneBufferPerBlock' /\ CacheCoherent'
  BY DEF TypeOK, HandlesExclusive, OneBufferPerBlock, CacheCoherent
<1>2. FreeIffUnlocked'
  BY FreeListForms DEF Locked
<1>3. LockedIsHeld' /\ HeldIsMatch' /\ ValidNumber' /\ WaitsOnlyForHolders'
  BY DEF LockedIsHeld, HeldIsMatch, IsMatch, ValidNumber, WaitsOnlyForHolders
<1> QED BY <1>1, <1>2, <1>3

LEMMA NextInv == Inv /\ [Next \/ Spin]_vars => Inv'
<1> SUFFICES ASSUME Inv, [Next \/ Spin]_vars
             PROVE  Inv'
  OBVIOUS
<1>1. ASSUME spinning = NULL, NEW n \in Blocks, blkpool_getblk(n)
      PROVE  Inv'
  BY <1>1, HitInv, MissInv, FailInv, SpinInv DEF blkpool_getblk
<1>2. ASSUME spinning = NULL, NEW h \in held, blkpool_putblk(h[1], h[2])
      PROVE  Inv'
  BY <1>2, PutInv
<1>3. ASSUME spinning = NULL, NEW h \in held, StoreInto(h[1], h[2])
      PROVE  Inv'
  BY <1>3, StoreInv
<1>4. CASE UNCHANGED vars
  BY <1>4, StutterInv
<1> QED BY <1>1, <1>2, <1>3, <1>4 DEF Next, Spin

(* The calls of the file system keep the whole invariant of the cache.     *)
THEOREM PoolInvariant == Spec => []Inv
<1> QED BY InitInv, NextInv, PTL DEF Spec

(* Type correctness of the buffer cache.                                   *)
THEOREM PoolTypeOK == Spec => []TypeOK
<1>1. Inv => TypeOK
  BY DEF Inv
<1> QED BY <1>1, PoolInvariant, PTL

(* blkpool.c:81 holds of a pool of any size, as long as blkpool_get_any()  *)
(* is not called: the free list has exactly the buffers not locked.        *)
THEOREM PoolFreeIffUnlocked == Spec => []FreeIffUnlocked
<1>1. Inv => FreeIffUnlocked
  BY DEF Inv
<1> QED BY <1>1, PoolInvariant, PTL

(* No buffer is ever in the hands of two callers, or taken from one.       *)
THEOREM PoolHandlesExclusive == Spec => []HandlesExclusive
<1>1. Inv => HandlesExclusive
  BY DEF Inv
<1> QED BY <1>1, PoolInvariant, PTL

(* No two buffers in use stand for one block, so that the search of       *)
(* blkpool_getblk() never has a choice.                                    *)
THEOREM PoolOneBufferPerBlock == Spec => []OneBufferPerBlock
<1>1. Inv => OneBufferPerBlock
  BY DEF Inv
<1> QED BY <1>1, PoolInvariant, PTL

(* The cache never answers a hit with contents that the disk does not have *)
(* (of a block whose transfers do not fail).                               *)
THEOREM PoolCacheCoherent == Spec => []CacheCoherent
<1>1. Inv => CacheCoherent
  BY DEF Inv
<1> QED BY <1>1, PoolInvariant, PTL

(* A call that never returns waits for buffers that callers hold.          *)
THEOREM PoolWaitsOnlyForHolders == Spec => []WaitsOnlyForHolders
<1>1. Inv => WaitsOnlyForHolders
  BY DEF Inv
<1> QED BY <1>1, PoolInvariant, PTL

-----------------------------------------------------------------------------
(* The refinement                                                          *)

(* The buffer whose contents are the working copy of a block is the one    *)
(* that the caller holds.                                                  *)
LEMMA CopyOfHeld ==
    ASSUME HandlesExclusive, held \subseteq Bufs \X Blocks,
           NEW b, NEW n, <<b, n>> \in held
    PROVE  /\ n \in HeldBlocks /\ b \in Bufs /\ n \in Blocks
           /\ CopyOf(n) = [good |-> buf[b].valid, data |-> buf[b].block]
<1>1. b \in Bufs /\ n \in Blocks
  OBVIOUS
<1>2. \A c \in Bufs : <<c, n>> \in held => c = b
  BY DEF HandlesExclusive
<1>3. n \in HeldBlocks
  BY DEF HeldBlocks
<1> QED BY <1>1, <1>2, <1>3 DEF CopyOf

LEMMA CopyOfHeldNext ==
    ASSUME HandlesExclusive', held' \subseteq Bufs \X Blocks,
           NEW b, NEW n, <<b, n>> \in held'
    PROVE  /\ n \in HeldBlocks' /\ b \in Bufs /\ n \in Blocks
           /\ CopyOf(n)' = [good |-> buf'[b].valid, data |-> buf'[b].block]
<1>1. b \in Bufs /\ n \in Blocks
  OBVIOUS
<1>2. \A c \in Bufs : <<c, n>> \in held' => c = b
  BY DEF HandlesExclusive
<1>3. n \in HeldBlocks'
  BY DEF HeldBlocks
<1> QED BY <1>1, <1>2, <1>3 DEF CopyOf

(* A block that is held has one buffer.                                    *)
LEMMA HeldBlockHasBuffer ==
    ASSUME held \subseteq Bufs \X Blocks, NEW n \in HeldBlocks
    PROVE  \E b \in Bufs : <<b, n>> \in held
BY DEF HeldBlocks

LEMMA InitStore == Init => Store!Init
BY DEF Init, Store!Init, HeldBlocks

OpenMap == [n \in HeldBlocks |-> CopyOf(n)]

(* Steps that leave the buffers of the callers alone leave their copies.   *)
LEMMA SameCopies ==
    ASSUME Inv, Inv', NEW m \in HeldBlocks,
           \A h \in held : h[2] = m => h \in held' /\ buf'[h[1]] = buf[h[1]]
    PROVE  m \in HeldBlocks' /\ CopyOf(m)' = CopyOf(m)
<1>1. PICK b \in Bufs : <<b, m>> \in held
  BY HeldBlockHasBuffer DEF Inv, TypeOK
<1>2. <<b, m>> \in held' /\ buf'[b] = buf[b]
  BY <1>1
<1>3. CopyOf(m) = [good |-> buf[b].valid, data |-> buf[b].block]
  BY <1>1, CopyOfHeld DEF Inv, TypeOK
<1>4. /\ m \in HeldBlocks'
      /\ CopyOf(m)' = [good |-> buf'[b].valid, data |-> buf'[b].block]
  BY <1>2, CopyOfHeldNext DEF Inv, TypeOK
<1> QED BY <1>2, <1>3, <1>4

(* Handing out a buffer checks out the block.                              *)
LEMMA HandOut ==
    ASSUME Inv, Inv', NEW b \in Bufs, NEW n \in Blocks,
           ~buf[b].locked, held' = held \cup {<<b, n>>}, disk' = disk,
           \A c \in Bufs \ {b} : buf'[c] = buf[c]
    PROVE  Store!CheckOutAs(n, [good |-> buf'[b].valid, data |-> buf'[b].block])
<1> DEFINE copy == [good |-> buf'[b].valid, data |-> buf'[b].block]
<1>1. <<b, n>> \notin held
  BY DEF Inv, HandlesExclusive
<1>2. \A h \in held : h[1] # b /\ h[2] # n /\ h[1] \in Bufs
  BY <1>1 DEF Inv, HandlesExclusive, TypeOK
<1>3. n \notin HeldBlocks /\ HeldBlocks' = HeldBlocks \cup {n}
  <2>1. n \notin HeldBlocks
    BY <1>2 DEF HeldBlocks
  <2>2. \A m : (\E h \in held' : h[2] = m) <=> m = n \/ \E h \in held : h[2] = m
    <3>1. <<b, n>> \in held' /\ <<b, n>>[2] = n
      OBVIOUS
    <3> QED BY <3>1
  <2> QED BY <2>1, <2>2 DEF HeldBlocks
<1>4. CopyOf(n)' = copy
  BY CopyOfHeldNext DEF Inv, TypeOK
<1>5. \A m \in HeldBlocks : CopyOf(m)' = CopyOf(m)
  BY <1>2, SameCopies
<1>6. OpenMap' = [m \in DOMAIN OpenMap \cup {n} |-> IF m = n THEN copy ELSE OpenMap[m]]
  <2>1. DOMAIN OpenMap = HeldBlocks
    BY DEF OpenMap
  <2>2. OpenMap' = [m \in HeldBlocks \cup {n} |-> CopyOf(m)']
    BY <1>3 DEF OpenMap
  <2>3. \A m \in HeldBlocks \cup {n} :
          CopyOf(m)' = IF m = n THEN copy ELSE OpenMap[m]
    BY <1>3, <1>4, <1>5 DEF OpenMap
  <2> HIDE DEF copy
  <2> QED BY <2>1, <2>2, <2>3
<1> QED BY <1>3, <1>6 DEF Store!CheckOutAs, OpenMap

LEMMA HitStore ==
    ASSUME Inv, Inv', NEW n \in Blocks, getblk_hit(n)
    PROVE  Store!Next
<1>1. PICK b \in Bufs :
        /\ IsMatch(b, n)
        /\ ~buf[b].locked
        /\ buf' = [buf EXCEPT ![b].locked = TRUE]
        /\ held' = held \cup {<<b, n>>}
        /\ UNCHANGED <<disk, spinning>>
  BY DEF getblk_hit
<1>2. /\ buf[b].num = n /\ buf'[b].valid = buf[b].valid
      /\ buf'[b].block = buf[b].block
      /\ buf[b].block \in Data /\ buf[b].valid \in BOOLEAN
      /\ \A c \in Bufs \ {b} : buf'[c] = buf[c]
  BY <1>1 DEF IsMatch, Inv, TypeOK, Buffers
<1>3. Store!CheckOutAs(n, [good |-> buf[b].valid, data |-> buf[b].block])
  <2>1. Store!CheckOutAs(n, [good |-> buf'[b].valid, data |-> buf'[b].block])
    BY <1>1, <1>2, HandOut
  <2> QED BY <1>2, <2>1
<1>4. CASE n \in BadBlocks \cup {0}
  <2>1. [good |-> buf[b].valid, data |-> buf[b].block] \in Store!Copies
    BY <1>2 DEF Store!Copies
  <2>2. Store!CheckOutUnreliable(n, [good |-> buf[b].valid, data |-> buf[b].block])
    BY <1>3, <1>4 DEF Store!CheckOutUnreliable
  <2> QED BY <2>1, <2>2 DEF Store!Next
<1>5. CASE n \notin BadBlocks \cup {0}
  <2>1. buf[b].valid = TRUE /\ buf[b].block = disk[n]
    BY <1>1, <1>2, <1>5 DEF Inv, ValidNumber, CacheCoherent
  <2>2. Store!CheckOut(n)
    BY <1>3, <2>1 DEF Store!CheckOut
  <2> QED BY <2>2 DEF Store!Next
<1> QED BY <1>4, <1>5

LEMMA MissStore ==
    ASSUME Inv, Inv', NEW n \in Blocks, getblk_miss(n)
    PROVE  Store!Next
<1>1. PICK b \in Bufs :
        /\ IsFree(b)
        /\ buf' = [buf EXCEPT ![b] = [num |-> n, valid |-> TRUE,
                                      locked |-> TRUE, block |-> disk[n]]]
        /\ held' = held \cup {<<b, n>>}
        /\ UNCHANGED <<disk, spinning>>
  BY DEF getblk_miss
<1>2. ~buf[b].locked
  BY <1>1, FreeListForms, FirstFree DEF IsFree, Inv, TypeOK, Locked
<1>3. /\ buf'[b].valid = TRUE /\ buf'[b].block = disk[n]
      /\ \A c \in Bufs \ {b} : buf'[c] = buf[c]
  BY <1>1 DEF Inv, TypeOK
<1>4. Store!CheckOutAs(n, [good |-> buf'[b].valid, data |-> buf'[b].block])
  BY <1>1, <1>2, <1>3, HandOut
<1>5. Store!CheckOut(n)
  BY <1>3, <1>4 DEF Store!CheckOut
<1> QED BY <1>5 DEF Store!Next

LEMMA FailStore ==
    ASSUME Inv, Inv', NEW n \in Blocks, getblk_fails(n)
    PROVE  UNCHANGED Store!vars
<1>1. PICK b \in Bufs, d \in Data :
        /\ IsFree(b)
        /\ buf' = [buf EXCEPT ![b] = [num |-> n, valid |-> FALSE,
                                      locked |-> FALSE, block |-> d]]
        /\ UNCHANGED <<disk, held, spinning>>
  BY DEF getblk_fails
<1>2. ~buf[b].locked
  BY <1>1, FreeListForms, FirstFree DEF IsFree, Inv, TypeOK, Locked
<1>3. \A h \in held : h \in held' /\ buf'[h[1]] = buf[h[1]]
  BY <1>1, <1>2 DEF Inv, TypeOK, HandlesExclusive
<1>4. HeldBlocks' = HeldBlocks
  BY <1>1 DEF HeldBlocks
<1>5. \A m \in HeldBlocks : CopyOf(m)' = CopyOf(m)
  BY <1>3, SameCopies
<1>6. OpenMap' = OpenMap
  BY <1>4, <1>5 DEF OpenMap
<1> QED BY <1>1, <1>6 DEF Store!vars, OpenMap

LEMMA PutStore ==
    ASSUME Inv, Inv', NEW b, NEW n, blkpool_putblk(b, n)
    PROVE  Store!Next
<1>1. /\ <<b, n>> \in held
      /\ disk' \in IF buf[b].valid THEN AfterWrite(buf[b].num, buf[b].block)
                                   ELSE {disk}
      /\ buf' = [buf EXCEPT ![b].locked = FALSE]
      /\ held' = held \ {<<b, n>>}
  BY DEF blkpool_putblk
<1>2. /\ b \in Bufs /\ n \in Blocks /\ buf[b].num = n
      /\ n \in HeldBlocks
      /\ CopyOf(n) = [good |-> buf[b].valid, data |-> buf[b].block]
  BY <1>1, CopyOfHeld DEF Inv, TypeOK, HandlesExclusive
<1>3. \A h \in held : h # <<b, n>> =>
        h[1] # b /\ h[2] # n /\ h \in held' /\ buf'[h[1]] = buf[h[1]]
  BY <1>1, <1>2 DEF Inv, TypeOK, HandlesExclusive
<1>4. HeldBlocks' = HeldBlocks \ {n}
  BY <1>1, <1>2, <1>3 DEF HeldBlocks
<1>5. \A m \in HeldBlocks \ {n} : CopyOf(m)' = CopyOf(m)
  BY <1>3, SameCopies
<1>6. OpenMap' = [m \in DOMAIN OpenMap \ {n} |-> OpenMap[m]]
  BY <1>4, <1>5 DEF OpenMap
<1>7. Store!Leave(n) /\ n \in DOMAIN OpenMap /\ OpenMap[n] = CopyOf(n)
  BY <1>2, <1>6 DEF Store!Leave, OpenMap
<1>8. \/ disk' = IF buf[b].valid THEN [disk EXCEPT ![n] = buf[b].block] ELSE disk
      \/ disk' = disk /\ n \in BadBlocks
  BY <1>1, <1>2 DEF AfterWrite
<1>9. Store!CheckIn(n) \/ Store!LoseCheckIn(n)
  BY <1>2, <1>7, <1>8 DEF Store!CheckIn, Store!LoseCheckIn, OpenMap
<1> QED BY <1>2, <1>9 DEF Store!Next

LEMMA StoreIntoStore ==
    ASSUME Inv, Inv', NEW b, NEW n, StoreInto(b, n)
    PROVE  Store!Next
<1>1. PICK d \in Data :
        /\ <<b, n>> \in held
        /\ buf' = [buf EXCEPT ![b].block = d]
        /\ UNCHANGED <<disk, link, held, spinning>>
  BY DEF StoreInto
<1>2. /\ b \in Bufs /\ n \in Blocks /\ n \in HeldBlocks
      /\ CopyOf(n) = [good |-> buf[b].valid, data |-> buf[b].block]
  BY <1>1, CopyOfHeld DEF Inv, TypeOK
<1>3. buf'[b].valid = buf[b].valid /\ buf'[b].block = d
  BY <1>1, <1>2 DEF Inv, TypeOK, Buffers
<1>4. CopyOf(n)' = [good |-> buf[b].valid, data |-> d]
  BY <1>1, <1>2, <1>3, CopyOfHeldNext DEF Inv, TypeOK
<1>5. \A h \in held : h[2] # n => h \in held' /\ buf'[h[1]] = buf[h[1]]
  BY <1>1, <1>2 DEF Inv, TypeOK, HandlesExclusive
<1>6. \A m \in HeldBlocks \ {n} : CopyOf(m)' = CopyOf(m)
  BY <1>5, SameCopies
<1>7. HeldBlocks' = HeldBlocks
  BY <1>1 DEF HeldBlocks
<1>8. OpenMap' = [OpenMap EXCEPT ![n].data = d]
  <2>1. OpenMap' = [m \in HeldBlocks |-> CopyOf(m)']
    BY <1>7 DEF OpenMap
  <2>2. \A m \in HeldBlocks : CopyOf(m)' =
          IF m = n THEN [good |-> buf[b].valid, data |-> d] ELSE CopyOf(m)
    BY <1>4, <1>6
  <2>3. [OpenMap EXCEPT ![n].data = d] =
          [m \in HeldBlocks |->
             IF m = n THEN [good |-> buf[b].valid, data |-> d] ELSE CopyOf(m)]
    <3>1. [CopyOf(n) EXCEPT !.data = d] = [good |-> buf[b].valid, data |-> d]
      BY <1>2
    <3> QED BY <1>2, <3>1 DEF OpenMap
  <2> QED BY <2>1, <2>2, <2>3
<1>9. Store!Modify(n, d)
  BY <1>1, <1>2, <1>8 DEF Store!Modify, OpenMap
<1> QED BY <1>2, <1>9 DEF Store!Next

LEMMA NextStore ==
    Inv /\ Inv' /\ [Next \/ Spin]_vars => [Store!Next]_Store!vars
<1> SUFFICES ASSUME Inv, Inv', [Next \/ Spin]_vars
             PROVE  [Store!Next]_Store!vars
  OBVIOUS
<1>1. ASSUME NEW n \in Blocks, blkpool_getblk(n)
      PROVE  [Store!Next]_Store!vars
  <2>1. CASE getblk_spins(n)
    BY <2>1 DEF getblk_spins, Store!vars, HeldBlocks, CopyOf
  <2> QED BY <1>1, <2>1, HitStore, MissStore, FailStore DEF blkpool_getblk
<1>2. ASSUME NEW h \in held, blkpool_putblk(h[1], h[2])
      PROVE  [Store!Next]_Store!vars
  BY <1>2, PutStore
<1>3. ASSUME NEW h \in held, StoreInto(h[1], h[2])
      PROVE  [Store!Next]_Store!vars
  BY <1>3, StoreIntoStore
<1>4. CASE UNCHANGED vars
  BY <1>4 DEF vars, Store!vars, HeldBlocks, CopyOf
<1> QED BY <1>1, <1>2, <1>3, <1>4 DEF Next, Spin

(* fs/blkpool.c implements a store of blocks: whatever the callers do with *)
(* it, a check-out gives them the stored contents and a check-in stores    *)
(* theirs, for every block but the bad ones and block 0.                   *)
THEOREM PoolImplementsBlockStore == Spec => ImplementsBlockStore
<1> QED BY InitStore, NextStore, PoolInvariant, PTL
        DEF Spec, ImplementsBlockStore, Store!Spec
=============================================================================
