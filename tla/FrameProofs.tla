---------------------------- MODULE FrameProofs -----------------------------
(***************************************************************************)
(* The allocator of page frames agrees with its callers, for a bitmap of   *)
(* any size, wherever the frames begin, if they free page addresses.       *)
(***************************************************************************)
EXTENDS Frame, WellFoundedInduction, NaturalsInduction, TLAPS

-----------------------------------------------------------------------------
(* Arithmetic                                                              *)

LEMMA DivMod ==
    ASSUME NEW n \in Int, NEW k \in Nat \ {0}
    PROVE  /\ n \div k \in Int /\ n % k \in 0..(k - 1)
           /\ n = (n \div k) * k + (n % k)
OBVIOUS

(* There is one quotient and one remainder.                                *)
LEMMA OneQuotient ==
    ASSUME NEW k \in Nat \ {0}, NEW n \in Int, NEW p \in Int, NEW r \in 0..(k - 1),
           n = p * k + r
    PROVE  n \div k = p /\ n % k = r
<1> DEFINE q == n \div k
           s == n % k
<1>1. q \in Int /\ s \in 0..(k - 1) /\ n = q * k + s
  BY DivMod
<1> HIDE DEF q, s
<1>2. ASSUME q < p PROVE FALSE
  <2>1. (p - q) * k >= k
    BY <1>1, <1>2
  <2> QED BY <1>1, <2>1
<1>3. ASSUME p < q PROVE FALSE
  <2>1. (q - p) * k >= k
    BY <1>1, <1>3
  <2> QED BY <1>1, <2>1
<1>4. q = p /\ s = r
  <2>1. q = p
    BY <1>1, <1>2, <1>3
  <2> QED BY <1>1, <2>1
<1> QED BY <1>4 DEF q, s

LEMMA Times ==
    ASSUME NEW a \in Int, NEW b \in Int, a <= b, NEW c \in Nat
    PROVE  c * a <= c * b
<1>1. c * (b - a) >= 0
  OBVIOUS
<1> QED BY <1>1

Below == {p \in Nat \X Nat : p[1] < p[2]}

(* A set of numbers has a least one, and Min is it.                        *)
LEMMA MinIn ==
    ASSUME NEW T \in SUBSET Nat, T # {}
    PROVE  Min(T) \in T
<1>1. IsWellFoundedOn(Below, Nat)
  BY NatLessThanWellFounded DEF OpToRel, Below
<1>2. PICK x \in T : \A y \in T : ~(<<y, x>> \in Below)
  BY <1>1, WFMin
<1>3. ASSUME NEW y \in T PROVE x <= y
  <2>1. x \in Nat /\ y \in Nat
    OBVIOUS
  <2>2. ~(y < x)
    <3>1. ~(<<y, x>> \in Below)
      BY <1>2
    <3>2. <<y, x>> \in Nat \X Nat /\ <<y, x>>[1] = y /\ <<y, x>>[2] = x
      BY <2>1
    <3> QED BY <3>1, <3>2 DEF Below
  <2> QED BY <2>1, <2>2
<1> QED BY <1>3 DEF Min

-----------------------------------------------------------------------------
(* Frames and their numbers                                                *)

LEMMA Sizes ==
    /\ ADDRS \in Nat \ {0} /\ PAGE_SIZE \in Nat \ {0} /\ PADDR_MIN \in Nat \ {0}
    /\ LEN \in Nat \ {0} /\ WORD \in Nat \ {0} /\ UNIT \in Nat \ {0}
    /\ PADDR_MIN + PAGE_SIZE * (WORD * LEN) < ADDRS
    /\ PADDR_MIN % PAGE_SIZE = 0
<1>1. /\ ADDRS \in Nat \ {0} /\ PAGE_SIZE \in Nat \ {0} /\ PADDR_MIN \in Nat \ {0}
      /\ LEN \in Nat \ {0} /\ WORD \in Nat \ {0} /\ UNIT \in Nat \ {0}
  BY FrameAssumption
<1>2. PAGE_SIZE * WORD * LEN = PAGE_SIZE * (WORD * LEN)
  BY <1>1
<1> QED BY <1>1, <1>2, FrameAssumption

(* A frame of the bitmap and the number of its page.                       *)
LEMMA FrameNumber ==
    ASSUME NEW i \in Words, NEW j \in Bits
    PROVE  /\ WORD * i + j \in Nat /\ WORD * i + j < WORD * LEN
           /\ _idx2paddr(i, j) = PADDR_MIN + PAGE_SIZE * (WORD * i + j)
           /\ _idx2paddr(i, j) \in 1..(ADDRS - 1)
           /\ _page_num(_idx2paddr(i, j)) = WORD * i + j
           /\ _page_num(_idx2paddr(i, j)) \div WORD = i
           /\ _page_num(_idx2paddr(i, j)) % WORD = j
<1> DEFINE m == WORD * i + j
           d == PAGE_SIZE * m
<1>1. i \in Nat /\ i + 1 <= LEN /\ j \in 0..(WORD - 1) /\ m \in Nat
  BY Sizes DEF Words, Bits
<1>2. m < WORD * LEN
  <2>1. WORD * (i + 1) <= WORD * LEN
    BY <1>1, Sizes, Times
  <2>2. WORD * (i + 1) = WORD * i + WORD /\ WORD * i \in Nat /\ WORD * LEN \in Nat
    BY <1>1, Sizes
  <2> QED BY <1>1, <2>1, <2>2, Sizes
<1>3. m \div WORD = i /\ m % WORD = j
  <2>1. m = i * WORD + j /\ m \in Int /\ i \in Int
    BY <1>1, Sizes
  <2> HIDE DEF m
  <2> QED BY <1>1, <2>1, Sizes, OneQuotient
<1>4. _idx2paddr(i, j) = PADDR_MIN + d
  BY DEF _idx2paddr
<1> HIDE DEF m
<1>5. d \in Nat /\ PADDR_MIN + d < ADDRS /\ d < ADDRS
  <2>1. WORD * LEN \in Nat /\ m <= WORD * LEN
    BY <1>1, <1>2, Sizes
  <2>2. d <= PAGE_SIZE * (WORD * LEN)
    BY <1>1, <2>1, Sizes, Times
  <2>3. d \in Nat /\ PAGE_SIZE * (WORD * LEN) \in Nat
    BY <1>1, <2>1, Sizes
  <2> HIDE DEF d
  <2> QED BY <2>2, <2>3, Sizes
<1>6. d \div PAGE_SIZE = m
  <2>1. d = m * PAGE_SIZE + 0 /\ 0 \in 0..(PAGE_SIZE - 1) /\ m \in Int /\ d \in Int
    BY <1>1, <1>5, Sizes
  <2> HIDE DEF d
  <2> QED BY <2>1, Sizes, OneQuotient
<1> HIDE DEF d
<1>7. (PADDR_MIN + d - PADDR_MIN) % ADDRS = d
  <2>1. PADDR_MIN + d - PADDR_MIN = d /\ d \in Int /\ 0 \in Int
        /\ d = 0 * ADDRS + d /\ d \in 0..(ADDRS - 1)
    BY <1>5, Sizes
  <2> QED BY <2>1, Sizes, OneQuotient
<1>8. _page_num(_idx2paddr(i, j)) = m
  <2>1. _page_num(PADDR_MIN + d) = ((PADDR_MIN + d - PADDR_MIN) % ADDRS) \div PAGE_SIZE
    BY <1>5, Sizes DEF _page_num
  <2>2. _page_num(PADDR_MIN + d) = m
    BY <1>6, <1>7, <2>1, Zenon
  <2> QED BY <1>4, <2>2, Zenon
<1>9. _idx2paddr(i, j) \in 1..(ADDRS - 1)
  BY <1>4, <1>5, Sizes
<1> QED BY <1>1, <1>2, <1>3, <1>4, <1>8, <1>9 DEF m, d

(* A page whose number is in the bitmap is a frame: below the first frame  *)
(* the subtraction wraps to a number that is not.                          *)
LEMMA PageIsFrame ==
    ASSUME NEW paddr \in 0..(ADDRS - 1), paddr % PAGE_SIZE = 0,
           _page_num(paddr) \div WORD < LEN
    PROVE  /\ _page_num(paddr) \div WORD \in Words
           /\ _page_num(paddr) % WORD \in Bits
           /\ paddr = _idx2paddr(_page_num(paddr) \div WORD, _page_num(paddr) % WORD)
<1> DEFINE d == (paddr - PADDR_MIN) % ADDRS
           k == d \div PAGE_SIZE
           i == k \div WORD
           j == k % WORD
<1>1. _page_num(paddr) = k /\ i < LEN
  BY DEF _page_num
<1>2. paddr \in Int /\ paddr >= 0 /\ paddr - PADDR_MIN \in Int /\ d \in 0..(ADDRS - 1)
  <2>1. paddr \in Int /\ paddr >= 0 /\ paddr - PADDR_MIN \in Int
    BY Sizes
  <2> QED BY <2>1, Sizes, DivMod
<1>3. k \in Nat /\ d % PAGE_SIZE \in 0..(PAGE_SIZE - 1)
      /\ d = k * PAGE_SIZE + (d % PAGE_SIZE)
  <2>1. d \in Int /\ d >= 0
    BY <1>2, Sizes
  <2> HIDE DEF d
  <2> QED BY <2>1, Sizes
<1> HIDE DEF d
<1>4. i \in Nat /\ j \in 0..(WORD - 1) /\ k = i * WORD + j
  <2> HIDE DEF k
  <2> QED BY <1>3, Sizes
<1>5. i \in Words /\ j \in Bits
  <2> HIDE DEF i, j
  <2> QED BY <1>1, <1>4, Sizes DEF Words, Bits
<1> HIDE DEF i, j
<1>6. k < WORD * LEN
  <2> HIDE DEF k
  <2>1. i + 1 <= LEN
    BY <1>1, <1>4, Sizes
  <2>2. WORD * (i + 1) <= WORD * LEN
    BY <1>4, <2>1, Sizes, Times
  <2>3. WORD * (i + 1) = i * WORD + WORD /\ WORD * LEN \in Nat /\ i * WORD \in Nat
    BY <1>4, Sizes
  <2> QED BY <1>4, <2>2, <2>3, Sizes
<1> HIDE DEF k
<1>7. d < PAGE_SIZE * (WORD * LEN)
  <2>1. k + 1 <= WORD * LEN /\ WORD * LEN \in Nat
    BY <1>3, <1>6, Sizes
  <2>2. PAGE_SIZE * (k + 1) <= PAGE_SIZE * (WORD * LEN)
    BY <1>3, <2>1, Sizes, Times
  <2>3. PAGE_SIZE * (k + 1) = k * PAGE_SIZE + PAGE_SIZE
        /\ k * PAGE_SIZE \in Nat /\ PAGE_SIZE * (WORD * LEN) \in Nat
    BY <1>3, <2>1, Sizes
  <2>4. d < k * PAGE_SIZE + PAGE_SIZE
    BY <1>3, <2>3, Sizes
  <2> QED BY <1>2, <2>2, <2>3, <2>4, Sizes
<1>8. paddr >= PADDR_MIN
  <2> SUFFICES ASSUME paddr < PADDR_MIN PROVE FALSE
    BY <1>2, Sizes
  <2> DEFINE w == paddr - PADDR_MIN + ADDRS
  <2>1. PAGE_SIZE * (WORD * LEN) \in Nat
    BY Sizes
  <2>2. w \in 0..(ADDRS - 1) /\ w > PAGE_SIZE * (WORD * LEN)
        /\ paddr - PADDR_MIN = (-1) * ADDRS + w /\ -1 \in Int
    BY <1>2, <2>1, Sizes
  <2> HIDE DEF w
  <2>3. d = w
    BY <1>2, <2>2, Sizes, OneQuotient DEF d
  <2> QED BY <1>7, <2>1, <2>2, <2>3
<1>9. d = paddr - PADDR_MIN
  <2>1. /\ paddr - PADDR_MIN \in 0..(ADDRS - 1) /\ 0 \in Int
        /\ paddr - PADDR_MIN = 0 * ADDRS + (paddr - PADDR_MIN)
    BY <1>2, <1>8, Sizes
  <2> QED BY <1>2, <2>1, Sizes, OneQuotient DEF d
<1>10. d % PAGE_SIZE = 0
  <2> DEFINE p == paddr \div PAGE_SIZE
             b == PADDR_MIN \div PAGE_SIZE
  <2>1. /\ p \in Int /\ paddr = p * PAGE_SIZE + 0
        /\ b \in Int /\ PADDR_MIN = b * PAGE_SIZE + 0
    <3>1. paddr = p * PAGE_SIZE + (paddr % PAGE_SIZE) /\ p \in Int
      BY <1>2, Sizes, DivMod
    <3>2. PADDR_MIN = b * PAGE_SIZE + (PADDR_MIN % PAGE_SIZE) /\ b \in Int
          /\ PADDR_MIN % PAGE_SIZE = 0
      BY Sizes, DivMod
    <3> QED BY <3>1, <3>2
  <2> HIDE DEF p, b
  <2>2. d \in Int /\ p - b \in Int /\ d = (p - b) * PAGE_SIZE + 0
        /\ 0 \in 0..(PAGE_SIZE - 1)
    BY <1>2, <1>9, <2>1, Sizes
  <2> QED BY <2>2, Sizes, OneQuotient
<1>11. paddr = PADDR_MIN + PAGE_SIZE * (WORD * i + j)
  <2>1. d = k * PAGE_SIZE
    BY <1>3, <1>10, Sizes
  <2>2. k = WORD * i + j
    BY <1>4, Sizes
  <2>3. k * PAGE_SIZE = PAGE_SIZE * k
    BY <1>3, Sizes
  <2> QED BY <1>2, <1>9, <2>1, <2>2, <2>3, Sizes
<1> QED BY <1>1, <1>5, <1>11 DEF _idx2paddr, i, j
-----------------------------------------------------------------------------
(* The inductive invariant                                                 *)

(* What the callers free is the address of a page, and frame_dealloc()     *)
(* takes the address of every page: 4096 is a multiple of 1024.            *)
PagesFreed ==
    /\ PAGE_SIZE % UNIT = 0
    /\ \A paddr \in Freed : paddr % PAGE_SIZE = 0

BitmapOK == bitmap \in [Words -> SUBSET Bits]

Inv == BitmapOK /\ UsedIffOwned

LEMMA InitInv == Init => Inv
BY DEF Init, Inv, BitmapOK, UsedIffOwned

LEMMA OneAddress ==
    ASSUME NEW i \in Words, NEW j \in Bits, NEW k \in Words, NEW l \in Bits,
           _idx2paddr(i, j) = _idx2paddr(k, l)
    PROVE  i = k /\ j = l
<1>1. _page_num(_idx2paddr(i, j)) = _page_num(_idx2paddr(k, l))
  OBVIOUS
<1>2. i = _page_num(_idx2paddr(i, j)) \div WORD /\ j = _page_num(_idx2paddr(i, j)) % WORD
  BY FrameNumber
<1>3. k = _page_num(_idx2paddr(k, l)) \div WORD /\ l = _page_num(_idx2paddr(k, l)) % WORD
  BY FrameNumber
<1> QED BY <1>1, <1>2, <1>3, Zenon

(* frame_alloc() takes the first bit that is 0.                            *)
LEMMA AllocStep ==
    ASSUME Inv, frame_alloc
    PROVE  /\ Inv'
           /\ ret'.call = "alloc"
           /\ \/ ret'.paddr \in Frames \ owned
              \/ ret'.paddr = 0 /\ owned = Frames
<1> DEFINE free == {i \in Words : _has_free_frame(bitmap[i])}
<1>1. CASE free = {}
  <2>1. ret' = [call |-> "alloc", paddr |-> 0] /\ UNCHANGED <<bitmap, owned>>
    BY <1>1 DEF frame_alloc
  <2>2. \A i \in Words : bitmap[i] = Bits
    BY <1>1 DEF _has_free_frame
  <2>3. owned = Frames
    BY <2>2 DEF Inv, UsedIffOwned, Frames
  <2>4. Inv'
    BY <2>1 DEF Inv, BitmapOK, UsedIffOwned
  <2> QED BY <2>1, <2>3, <2>4
<1>2. CASE free # {}
  <2> DEFINE i == Min(free)
             j == _get_clear_bit_num(bitmap[i])
  <2>1. i \in free
    <3>1. free \in SUBSET Nat
      BY Sizes DEF Words
    <3> HIDE DEF free
    <3> QED BY <1>2, <3>1, MinIn
  <2>2. i \in Words /\ bitmap[i] # Bits /\ bitmap[i] \in SUBSET Bits
    <3>1. i \in Words /\ bitmap[i] # Bits
      BY <2>1 DEF _has_free_frame
    <3> HIDE DEF i
    <3> QED BY <3>1 DEF Inv, BitmapOK
  <2>3. /\ bitmap' = [bitmap EXCEPT ![i] = @ \cup {j}]
        /\ owned' = owned \cup {_idx2paddr(i, j)}
        /\ ret' = [call |-> "alloc", paddr |-> _idx2paddr(i, j)]
    BY <1>2 DEF frame_alloc
  <2> HIDE DEF free, i
  <2>4. j \in Bits \ bitmap[i]
    <3> DEFINE T == Bits \ bitmap[i]
    <3>1. T \in SUBSET Nat /\ T # {}
      <4>1. T # {}
        BY <2>2
      <4>2. Bits \in SUBSET Nat
        BY Sizes DEF Bits
      <4> QED BY <4>1, <4>2
    <3>2. j = Min(T)
      BY DEF _get_clear_bit_num
    <3> HIDE DEF T, j
    <3>3. j \in T
      BY <3>1, <3>2, MinIn
    <3> QED BY <3>3 DEF T
  <2> HIDE DEF j
  <2>5. _idx2paddr(i, j) \in Frames \ owned
    BY <2>2, <2>4 DEF Inv, UsedIffOwned, Frames
  <2>6. BitmapOK'
    BY <2>2, <2>3, <2>4 DEF Inv, BitmapOK
  <2>7. UsedIffOwned'
    <3>1. owned' \subseteq Frames
      BY <2>3, <2>5 DEF Inv, UsedIffOwned
    <3>2. ASSUME NEW k \in Words, NEW l \in Bits
          PROVE  l \in bitmap'[k] <=> _idx2paddr(k, l) \in owned'
      <4>1. l \in bitmap[k] <=> _idx2paddr(k, l) \in owned
        BY DEF Inv, UsedIffOwned
      <4>2. _idx2paddr(k, l) = _idx2paddr(i, j) => k = i /\ l = j
        BY <2>2, <2>4, OneAddress
      <4>3. l \in bitmap'[k] <=> l \in bitmap[k] \/ (k = i /\ l = j)
        BY <2>2, <2>3 DEF Inv, BitmapOK
      <4> QED BY <2>3, <4>1, <4>2, <4>3
    <3> QED BY <3>1, <3>2 DEF UsedIffOwned, Frames
  <2>8. ret'.call = "alloc" /\ ret'.paddr = _idx2paddr(i, j)
    BY <2>3
  <2> QED BY <2>5, <2>6, <2>7, <2>8 DEF Inv
<1> QED BY <1>1, <1>2

(* frame_dealloc() accepts a page if and only if it is a frame in use.     *)
LEMMA FreesOwned ==
    ASSUME Inv, PagesFreed, NEW paddr \in Freed
    PROVE  Frees(paddr) <=> paddr \in owned
<1>1. paddr \in 0..(ADDRS - 1) /\ paddr % PAGE_SIZE = 0
  BY FrameAssumption DEF PagesFreed
<1>2. ASSUME Frees(paddr) PROVE paddr \in owned
  <2> DEFINE i == _page_num(paddr) \div WORD
             j == _page_num(paddr) % WORD
  <2>1. i < LEN /\ j \in bitmap[i]
    BY <1>2 DEF Frees
  <2>2. i \in Words /\ j \in Bits /\ paddr = _idx2paddr(i, j)
    BY <1>1, <2>1, PageIsFrame
  <2> HIDE DEF i, j
  <2> QED BY <2>1, <2>2 DEF Inv, UsedIffOwned
<1>3. ASSUME paddr \in owned PROVE Frees(paddr)
  <2>1. PICK i \in Words, j \in Bits : paddr = _idx2paddr(i, j)
    BY <1>3 DEF Inv, UsedIffOwned, Frames
  <2>2. _page_num(paddr) \div WORD = i /\ _page_num(paddr) % WORD = j
    BY <2>1, FrameNumber
  <2>3. i < LEN /\ j \in bitmap[i]
    BY <1>3, <2>1, Sizes DEF Inv, UsedIffOwned, Words
  <2>4. paddr % UNIT = 0
    <3> DEFINE p == paddr \div PAGE_SIZE
               u == PAGE_SIZE \div UNIT
    <3>1. paddr \in Int
      BY <1>1, Sizes
    <3>2. p \in Int /\ paddr = p * PAGE_SIZE + (paddr % PAGE_SIZE)
      BY <3>1, Sizes, DivMod
    <3>3. u \in Int /\ PAGE_SIZE = u * UNIT + (PAGE_SIZE % UNIT)
      BY Sizes, DivMod
    <3>4. paddr % PAGE_SIZE = 0 /\ PAGE_SIZE % UNIT = 0
      BY <1>1 DEF PagesFreed
    <3> HIDE DEF p, u
    <3>5. paddr = p * PAGE_SIZE /\ PAGE_SIZE = u * UNIT
      BY <3>1, <3>2, <3>3, <3>4, Sizes
    <3>6. p * (u * UNIT) = (p * u) * UNIT + 0 /\ p * u \in Int /\ 0 \in 0..(UNIT - 1)
      BY <3>2, <3>3, Sizes
    <3>7. paddr = (p * u) * UNIT + 0
      BY <3>5, <3>6
    <3> QED BY <3>1, <3>6, <3>7, Sizes, OneQuotient
  <2> QED BY <2>2, <2>3, <2>4 DEF Frees
<1> QED BY <1>2, <1>3

LEMMA DeallocStep ==
    ASSUME Inv, PagesFreed, NEW paddr \in Freed, frame_dealloc(paddr)
    PROVE  /\ Inv'
           /\ ret'.call = "dealloc"
           /\ ret'.failed <=> ret'.paddr \notin owned
           /\ ret'.failed => UNCHANGED bitmap
<1> DEFINE i == _page_num(paddr) \div WORD
           j == _page_num(paddr) % WORD
<1>1. ret'.call = "dealloc" /\ ret'.paddr = paddr /\ ret'.failed = ~Frees(paddr)
  BY DEF frame_dealloc
<1>2. CASE ~Frees(paddr)
  <2>1. UNCHANGED <<bitmap, owned>>
    BY <1>2 DEF frame_dealloc
  <2>2. Inv'
    BY <2>1 DEF Inv, BitmapOK, UsedIffOwned
  <2> QED BY <1>1, <1>2, <2>1, <2>2, FreesOwned
<1>3. CASE Frees(paddr)
  <2>1. paddr \in 0..(ADDRS - 1) /\ paddr % PAGE_SIZE = 0 /\ i < LEN
    BY <1>3, FrameAssumption DEF PagesFreed, Frees
  <2>2. i \in Words /\ j \in Bits /\ paddr = _idx2paddr(i, j)
    BY <2>1, PageIsFrame
  <2>3. bitmap' = [bitmap EXCEPT ![i] = @ \ {j}] /\ owned' = owned \ {paddr}
    BY <1>3 DEF frame_dealloc
  <2> HIDE DEF i, j
  <2>4. BitmapOK'
    BY <2>2, <2>3 DEF Inv, BitmapOK
  <2>5. ASSUME NEW k \in Words, NEW l \in Bits
        PROVE  l \in bitmap'[k] <=> _idx2paddr(k, l) \in owned'
    <3>1. l \in bitmap[k] <=> _idx2paddr(k, l) \in owned
      BY DEF Inv, UsedIffOwned
    <3>2. _idx2paddr(k, l) = _idx2paddr(i, j) => k = i /\ l = j
      BY <2>2, OneAddress
    <3>3. l \in bitmap'[k] <=> l \in bitmap[k] /\ ~(k = i /\ l = j)
      BY <2>2, <2>3 DEF Inv, BitmapOK
    <3> QED BY <2>2, <2>3, <3>1, <3>2, <3>3
  <2>6. UsedIffOwned'
    BY <2>3, <2>5 DEF Inv, UsedIffOwned, Frames
  <2> QED BY <1>1, <1>3, <2>4, <2>6, FreesOwned DEF Inv
<1> QED BY <1>2, <1>3

LEMMA NextInv ==
    ASSUME Inv, PagesFreed, [Next]_vars
    PROVE  Inv'
<1>1. CASE UNCHANGED vars
  BY <1>1 DEF Inv, BitmapOK, UsedIffOwned, vars
<1> QED BY <1>1, AllocStep, DeallocStep DEF Next

(* The invariant is kept by every step.                                    *)
LEMMA Inductive ==
    ASSUME PagesFreed
    PROVE  Spec => []Inv
<1>1. Inv /\ [Next]_vars => Inv'
  BY NextInv
<1> QED BY InitInv, <1>1, PTL DEF Spec

(* If addresses of pages are freed, the frames of the callers and no other *)
(* ones have their bit set, whatever page it is: below the first frame,    *)
(* after the last, or free already (frame.c:15-17, 96-118).                *)
THEOREM FrameUsedIffOwned ==
    ASSUME PagesFreed
    PROVE  Spec => []UsedIffOwned
<1>1. Inv => UsedIffOwned
  BY DEF Inv
<1> QED BY Inductive, <1>1, PTL

(* frame_alloc() returns a frame that nobody has, and 0, which is not the  *)
(* address of a frame, only if all are in use (frame.c:75-93).             *)
THEOREM FrameAllocFresh ==
    ASSUME PagesFreed
    PROVE  Spec => AllocFresh
<1>1. Inv /\ [Next]_vars
      => [ret'.call = "alloc" =>
            \/ ret'.paddr \in Frames \ owned
            \/ ret'.paddr = 0 /\ owned = Frames]_vars
  <2> SUFFICES ASSUME Inv, Next, ret'.call = "alloc"
               PROVE  \/ ret'.paddr \in Frames \ owned
                      \/ ret'.paddr = 0 /\ owned = Frames
    OBVIOUS
  <2> QED BY AllocStep, DeallocStep DEF Next
<1> QED BY Inductive, <1>1, PTL DEF Spec, AllocFresh

(* frame_dealloc() succeeds for the frames in use and for nothing else,    *)
(* and changes nothing when it fails (frame.c:96-118).                     *)
THEOREM FrameDeallocOwned ==
    ASSUME PagesFreed
    PROVE  Spec => DeallocOwned
<1>1. Inv /\ [Next]_vars
      => [ret'.call = "dealloc" =>
            /\ ret'.failed <=> ret'.paddr \notin owned
            /\ ret'.failed => UNCHANGED bitmap]_vars
  <2> SUFFICES ASSUME Inv, Next, ret'.call = "dealloc"
               PROVE  /\ ret'.failed <=> ret'.paddr \notin owned
                      /\ ret'.failed => UNCHANGED bitmap
    OBVIOUS
  <2>1. CASE frame_alloc
    BY <2>1, AllocStep
  <2>2. CASE \E paddr \in Freed : frame_dealloc(paddr)
    BY <2>2, DeallocStep
  <2> QED BY <2>1, <2>2 DEF Next
<1> QED BY Inductive, <1>1, PTL DEF Spec, DeallocOwned
=============================================================================
