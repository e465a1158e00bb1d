--------------------------- MODULE ConsoleProofs ----------------------------
(***************************************************************************)
(* The safety properties of the console, for an input buffer and a screen  *)
(* of any size, and any keys.                                              *)
(***************************************************************************)
EXTENDS Console, WellFoundedInduction, NaturalsInduction, TLAPS

-----------------------------------------------------------------------------
(* Counting in a byte                                                      *)

Up(a)   == IF a = UINT8_MOD - 1 THEN 0 ELSE a + 1
Down(a) == IF a = 0 THEN UINT8_MOD - 1 ELSE a - 1

LEMMA OneRemainder ==
    ASSUME NEW k \in Nat \ {0}, NEW n \in Int, NEW p \in Int, NEW r \in 0..(k - 1),
           n = p * k + r
    PROVE  n % k = r
<1> DEFINE q == n \div k
           s == n % k
<1>1. q \in Int /\ s \in 0..(k - 1) /\ n = q * k + s
  OBVIOUS
<1> HIDE DEF q, s
<1>2. ASSUME q < p PROVE FALSE
  <2>1. (p - q) * k >= k
    BY <1>1, <1>2
  <2> QED BY <1>1, <2>1
<1>3. ASSUME p < q PROVE FALSE
  <2>1. (q - p) * k >= k
    BY <1>1, <1>3
  <2> QED BY <1>1, <2>1
<1>4. q = p
  BY <1>1, <1>2, <1>3
<1>5. s = r
  BY <1>1, <1>4
<1> QED BY <1>5 DEF s

LEMMA Sizes ==
    /\ UINT8_MOD \in Nat /\ UINT8_MOD > 3
    /\ VGA_NUM_COLS \in Nat /\ VGA_NUM_COLS >= 2 /\ VGA_NUM_COLS <= UINT8_MOD - 2
    /\ VGA_NUM_ROWS \in Nat /\ VGA_NUM_ROWS >= 2 /\ VGA_NUM_ROWS <= UINT8_MOD - 2
    /\ IBUF_SIZE \in Nat /\ IBUF_SIZE >= 1 /\ BUF_LEN \in Nat
BY ConsoleAssumption

LEMMA ByteCounts ==
    \A a \in 0..(UINT8_MOD - 1) :
        /\ (a + 1) % UINT8_MOD = Up(a) /\ (a - 1) % UINT8_MOD = Down(a)
        /\ Up(a) \in 0..(UINT8_MOD - 1) /\ Down(a) \in 0..(UINT8_MOD - 1)
<1>1. /\ UINT8_MOD \in Nat /\ UINT8_MOD > 3
  BY Sizes
<1>2. ASSUME NEW a \in 0..(UINT8_MOD - 1)
      PROVE  (a + 1) % UINT8_MOD = Up(a)
  <2>1. CASE a = UINT8_MOD - 1
    <3>1. a + 1 = 1 * UINT8_MOD + 0 /\ 0 \in 0..(UINT8_MOD - 1) /\ a + 1 \in Int
      BY <1>1, <2>1
    <3>2. (a + 1) % UINT8_MOD = 0
      BY <1>1, <3>1, OneRemainder
    <3> QED BY <2>1, <3>2 DEF Up
  <2>2. CASE a # UINT8_MOD - 1
    <3>1. a + 1 = 0 * UINT8_MOD + (a + 1) /\ a + 1 \in 0..(UINT8_MOD - 1)
      BY <1>1, <2>2
    <3>2. (a + 1) % UINT8_MOD = a + 1
      BY <1>1, <3>1, OneRemainder
    <3> QED BY <2>2, <3>2 DEF Up
  <2> QED BY <2>1, <2>2
<1>3. ASSUME NEW a \in 0..(UINT8_MOD - 1)
      PROVE  (a - 1) % UINT8_MOD = Down(a)
  <2>1. CASE a = 0
    <3>1. /\ a - 1 = (-1) * UINT8_MOD + (UINT8_MOD - 1)
          /\ UINT8_MOD - 1 \in 0..(UINT8_MOD - 1) /\ a - 1 \in Int
      BY <1>1, <2>1
    <3>2. (a - 1) % UINT8_MOD = UINT8_MOD - 1
      BY <1>1, <3>1, OneRemainder
    <3> QED BY <2>1, <3>2 DEF Down
  <2>2. CASE a # 0
    <3>1. a - 1 = 0 * UINT8_MOD + (a - 1) /\ a - 1 \in 0..(UINT8_MOD - 1)
      BY <1>1, <2>2
    <3>2. (a - 1) % UINT8_MOD = a - 1
      BY <1>1, <3>1, OneRemainder
    <3> QED BY <2>2, <3>2 DEF Down
  <2> QED BY <2>1, <2>2
<1>4. ASSUME NEW a \in 0..(UINT8_MOD - 1)
      PROVE  Up(a) \in 0..(UINT8_MOD - 1) /\ Down(a) \in 0..(UINT8_MOD - 1)
  BY <1>1 DEF Up, Down
<1> QED BY <1>1, <1>2, <1>3, <1>4

-----------------------------------------------------------------------------
(* The cursor                                                              *)

CursorType == [x : 0..(UINT8_MOD - 1), y : 0..(UINT8_MOD - 1), fault : BOOLEAN]

(* A move from c to d stays in the columns and in the rows, if it begins   *)
(* in them.                                                                *)
Stays(c, d) ==
    /\ d \in CursorType
    /\ c.fault => d.fault
    /\ c.x < VGA_NUM_COLS => d.x < VGA_NUM_COLS
    /\ c.y < VGA_NUM_ROWS /\ ~d.fault => d.y < VGA_NUM_ROWS

LEMMA LineFeedFields ==
    ASSUME NEW c \in CursorType
    PROVE  /\ _line_feed(c) \in CursorType
           /\ _line_feed(c).x = 0 /\ _line_feed(c).fault = c.fault
           /\ _line_feed(c).y = IF Up(c.y) = VGA_NUM_ROWS THEN VGA_NUM_ROWS - 1 ELSE Up(c.y)
<1> DEFINE y == IF Up(c.y) = VGA_NUM_ROWS THEN VGA_NUM_ROWS - 1 ELSE Up(c.y)
<1>1. /\ c.y \in 0..(UINT8_MOD - 1)
      /\ (c.y + 1) % UINT8_MOD = Up(c.y)
      /\ y \in 0..(UINT8_MOD - 1) /\ 0 \in 0..(UINT8_MOD - 1)
  <2>1. /\ c.y \in 0..(UINT8_MOD - 1)
        /\ (c.y + 1) % UINT8_MOD = Up(c.y) /\ Up(c.y) \in 0..(UINT8_MOD - 1)
    BY ByteCounts DEF CursorType
  <2>2. VGA_NUM_ROWS - 1 \in 0..(UINT8_MOD - 1) /\ 0 \in 0..(UINT8_MOD - 1)
    BY Sizes
  <2> QED BY <2>1, <2>2
<1>2. _line_feed(c) = [c EXCEPT !.x = 0, !.y = y]
  BY <1>1 DEF _line_feed
<1> HIDE DEF y
<1>3. /\ _line_feed(c) \in CursorType
      /\ _line_feed(c).x = 0 /\ _line_feed(c).fault = c.fault /\ _line_feed(c).y = y
  BY <1>1, <1>2 DEF CursorType
<1> QED BY <1>3 DEF y

LEMMA ForwardFields ==
    ASSUME NEW c \in CursorType
    PROVE  /\ _curs_forward(c) \in CursorType
           /\ _curs_forward(c).fault = c.fault
           /\ IF Up(c.x) = VGA_NUM_COLS
              THEN _curs_forward(c).x = 0 /\ _curs_forward(c).y = _line_feed(c).y
              ELSE _curs_forward(c).x = Up(c.x) /\ _curs_forward(c).y = c.y
<1>1. /\ c.x \in 0..(UINT8_MOD - 1)
      /\ (c.x + 1) % UINT8_MOD = Up(c.x) /\ Up(c.x) \in 0..(UINT8_MOD - 1)
  BY ByteCounts DEF CursorType
<1>2. CASE Up(c.x) = VGA_NUM_COLS
  <2>1. _curs_forward(c) = _line_feed(c)
    BY <1>1, <1>2 DEF _curs_forward
  <2> QED BY <1>2, <2>1, LineFeedFields
<1>3. CASE Up(c.x) # VGA_NUM_COLS
  <2>1. _curs_forward(c) = [c EXCEPT !.x = Up(c.x)]
    BY <1>1, <1>3 DEF _curs_forward
  <2> QED BY <1>1, <1>3, <2>1 DEF CursorType
<1> QED BY <1>2, <1>3

LEMMA BackwardFields ==
    ASSUME NEW c \in CursorType
    PROVE  /\ _curs_backward(c) \in CursorType
           /\ _curs_backward(c).fault = c.fault
           /\ IF c.x = 0
              THEN _curs_backward(c).x = VGA_NUM_COLS - 1 /\ _curs_backward(c).y = Down(c.y)
              ELSE _curs_backward(c).x = c.x - 1 /\ _curs_backward(c).y = c.y
<1>1. /\ c.x \in 0..(UINT8_MOD - 1) /\ c.y \in 0..(UINT8_MOD - 1)
      /\ (c.y - 1) % UINT8_MOD = Down(c.y) /\ Down(c.y) \in 0..(UINT8_MOD - 1)
      /\ VGA_NUM_COLS - 1 \in 0..(UINT8_MOD - 1)
  <2>1. VGA_NUM_COLS - 1 \in 0..(UINT8_MOD - 1)
    BY Sizes
  <2> QED BY <2>1, ByteCounts DEF CursorType
<1>2. CASE c.x = 0
  <2>1. _curs_backward(c) = [c EXCEPT !.x = VGA_NUM_COLS - 1, !.y = Down(c.y)]
    BY <1>1, <1>2 DEF _curs_backward
  <2> QED BY <1>1, <1>2, <2>1 DEF CursorType
<1>3. CASE c.x # 0
  <2>1. _curs_backward(c) = [c EXCEPT !.x = c.x - 1]
    BY <1>3 DEF _curs_backward
  <2>2. c.x - 1 \in 0..(UINT8_MOD - 1)
    BY <1>1, <1>3, Sizes
  <2> QED BY <1>3, <2>1, <2>2 DEF CursorType
<1> QED BY <1>2, <1>3

LEMMA PutFields ==
    ASSUME NEW c \in CursorType
    PROVE  /\ Put(c) \in CursorType
           /\ Put(c).fault <=> c.fault \/ c.y > VGA_NUM_ROWS
           /\ IF Up(c.x) = VGA_NUM_COLS
              THEN /\ Put(c).x = 0
                   /\ Put(c).y = IF Up(c.y) = VGA_NUM_ROWS THEN VGA_NUM_ROWS - 1 ELSE Up(c.y)
              ELSE Put(c).x = Up(c.x) /\ Put(c).y = c.y
<1> DEFINE f == c.fault \/ c.y > VGA_NUM_ROWS
           d == [c EXCEPT !.fault = f]
<1>1. Put(c) = _curs_forward(d)
  BY DEF Put
<1>2. f \in BOOLEAN
  BY DEF CursorType
<1> HIDE DEF f
<1>3. d \in CursorType /\ d.x = c.x /\ d.y = c.y /\ d.fault = f
  BY <1>2 DEF CursorType
<1> HIDE DEF d
<1>4. Put(c) \in CursorType /\ Put(c).fault = f
  BY <1>1, <1>3, ForwardFields
<1>5. IF Up(c.x) = VGA_NUM_COLS
      THEN /\ Put(c).x = 0
           /\ Put(c).y = IF Up(c.y) = VGA_NUM_ROWS THEN VGA_NUM_ROWS - 1 ELSE Up(c.y)
      ELSE Put(c).x = Up(c.x) /\ Put(c).y = c.y
  BY <1>1, <1>3, ForwardFields, LineFeedFields
<1> QED BY <1>4, <1>5 DEF f

LEMMA LineFeedStays == \A c \in CursorType : Stays(c, _line_feed(c))
<1> SUFFICES ASSUME NEW c \in CursorType PROVE Stays(c, _line_feed(c))
  OBVIOUS
<1>1. c.y \in 0..(UINT8_MOD - 1)
  BY DEF CursorType
<1> QED BY <1>1, LineFeedFields, Sizes DEF Stays, Up

LEMMA PutStays == \A c \in CursorType : Stays(c, Put(c))
<1> SUFFICES ASSUME NEW c \in CursorType PROVE Stays(c, Put(c))
  OBVIOUS
<1>1. c.x \in 0..(UINT8_MOD - 1) /\ c.y \in 0..(UINT8_MOD - 1)
  BY DEF CursorType
<1>2. Put(c).x < VGA_NUM_COLS \/ ~(c.x < VGA_NUM_COLS)
  BY <1>1, PutFields, Sizes DEF Up
<1>3. Put(c).y < VGA_NUM_ROWS \/ ~(c.y < VGA_NUM_ROWS)
  BY <1>1, PutFields, Sizes DEF Up
<1> QED BY <1>2, <1>3, PutFields DEF Stays

(* Going back, writing a blank and going back again.                       *)
LEMMA ErasedStays == \A c \in CursorType : Stays(c, Erased(c))
<1> SUFFICES ASSUME NEW c \in CursorType PROVE Stays(c, Erased(c))
  OBVIOUS
<1> DEFINE b == _curs_backward(c)
           p == Put(b)
           e == _curs_backward(p)
<1>1. Erased(c) = e
  BY DEF Erased
<1>2. c.x \in 0..(UINT8_MOD - 1) /\ c.y \in 0..(UINT8_MOD - 1)
  BY DEF CursorType
<1>3. /\ b \in CursorType /\ b.fault = c.fault
      /\ IF c.x = 0 THEN b.x = VGA_NUM_COLS - 1 /\ b.y = Down(c.y)
                    ELSE b.x = c.x - 1 /\ b.y = c.y
  BY BackwardFields
<1> HIDE DEF b
<1>4. /\ p \in CursorType
      /\ p.fault <=> b.fault \/ b.y > VGA_NUM_ROWS
      /\ IF Up(b.x) = VGA_NUM_COLS
         THEN /\ p.x = 0
              /\ p.y = IF Up(b.y) = VGA_NUM_ROWS THEN VGA_NUM_ROWS - 1 ELSE Up(b.y)
         ELSE p.x = Up(b.x) /\ p.y = b.y
  BY <1>3, PutFields
<1> HIDE DEF p
<1>5. /\ e \in CursorType /\ e.fault = p.fault
      /\ IF p.x = 0 THEN e.x = VGA_NUM_COLS - 1 /\ e.y = Down(p.y)
                    ELSE e.x = p.x - 1 /\ e.y = p.y
  BY <1>4, BackwardFields
<1> HIDE DEF e
<1>6. CASE c.x = 0
  <2>1. b.x = VGA_NUM_COLS - 1 /\ b.y = Down(c.y) /\ Up(b.x) = VGA_NUM_COLS
    BY <1>3, <1>6, Sizes DEF Up
  <2>2. Up(b.y) = c.y
    BY <1>2, <2>1, Sizes DEF Up, Down
  <2>3. e.x = VGA_NUM_COLS - 1 /\ p.x = 0
        /\ p.y = (IF c.y = VGA_NUM_ROWS THEN VGA_NUM_ROWS - 1 ELSE c.y)
        /\ e.y = Down(p.y)
    BY <1>4, <1>5, <2>1, <2>2
  <2>4. c.y < VGA_NUM_ROWS /\ ~e.fault => e.y < VGA_NUM_ROWS
    <3>1. CASE c.y = 0
      <4>1. b.y > VGA_NUM_ROWS
        BY <2>1, <3>1, Sizes DEF Down
      <4> QED BY <1>4, <1>5, <4>1
    <3>2. CASE c.y # 0
      BY <1>2, <2>3, <3>2, Sizes DEF Down
    <3> QED BY <3>1, <3>2
  <2>5. e.x < VGA_NUM_COLS
    BY <2>3, Sizes
  <2> QED BY <1>1, <1>3, <1>4, <1>5, <2>4, <2>5 DEF Stays
<1>7. CASE c.x # 0
  <2>1. b.x = c.x - 1 /\ b.y = c.y /\ Up(b.x) = c.x
    BY <1>2, <1>3, <1>7, Sizes DEF Up
  <2>2. CASE c.x = VGA_NUM_COLS
    <3>1. e.x = VGA_NUM_COLS - 1 /\ e.y = Down(p.y)
          /\ p.y = (IF Up(c.y) = VGA_NUM_ROWS THEN VGA_NUM_ROWS - 1 ELSE Up(c.y))
      BY <1>4, <1>5, <2>1, <2>2
    <3>2. c.y < VGA_NUM_ROWS => e.y < VGA_NUM_ROWS
      BY <1>2, <3>1, Sizes DEF Up, Down
    <3>3. ~(c.x < VGA_NUM_COLS)
      BY <2>2, Sizes
    <3> QED BY <1>1, <1>3, <1>4, <1>5, <3>2, <3>3 DEF Stays
  <2>3. CASE c.x # VGA_NUM_COLS
    <3>1. e.x = c.x - 1 /\ e.y = c.y
      BY <1>4, <1>5, <1>7, <2>1, <2>3
    <3>2. c.x < VGA_NUM_COLS => e.x < VGA_NUM_COLS
      BY <1>2, <3>1, Sizes
    <3> QED BY <1>1, <1>3, <1>4, <1>5, <3>1, <3>2 DEF Stays
  <2> QED BY <2>2, <2>3
<1> QED BY <1>6, <1>7

LEMMA StaysOn ==
    ASSUME NEW c \in CursorType, NEW d, NEW e, Stays(c, d), Stays(d, e)
    PROVE  Stays(c, e)
BY DEF Stays, CursorType

-----------------------------------------------------------------------------
(* _kill: how the cursor gets from one character to the one before it.     *)

Erasing(f, c, n) == f = [k \in 0..n |-> IF k = 0 THEN c ELSE Erased(f[k - 1])]

Below == {p \in Nat \X Nat : p[1] < p[2]}

(* A set of numbers has a least one.                                       *)
LEMMA Least ==
    ASSUME NEW T \in SUBSET Nat, T # {}
    PROVE  \E x \in T : \A y \in T : x <= y
<1>1. IsWellFoundedOn(Below, Nat)
  BY NatLessThanWellFounded DEF OpToRel, Below
<1>2. \E x \in T : \A y \in T : ~(<<y, x>> \in Below)
  BY <1>1, WFMin
<1>3. PICK x \in T : \A y \in T : ~(<<y, x>> \in Below)
  BY <1>2
<1>4. ASSUME NEW y \in T PROVE x <= y
  <2>1. x \in Nat /\ y \in Nat
    OBVIOUS
  <2>2. ~(y < x)
    <3>1. ~(<<y, x>> \in Below)
      BY <1>3
    <3>2. <<y, x>> \in Nat \X Nat /\ <<y, x>>[1] = y /\ <<y, x>>[2] = x
      BY <2>1
    <3> QED BY <3>1, <3>2 DEF Below
  <2> QED BY <2>1, <2>2
<1> QED BY <1>4

(* The recursive definition has a value.                                   *)
LEMMA ErasingExists ==
    ASSUME NEW c, NEW n \in Nat
    PROVE  \E f : Erasing(f, c, n)
<1> DEFINE T == {m \in Nat : ~ \E f : Erasing(f, c, m)}
<1>1. SUFFICES ASSUME T # {} PROVE FALSE
  OBVIOUS
<1>2. PICK m \in T : \A y \in T : m <= y
  <2>1. T \in SUBSET Nat
    OBVIOUS
  <2> HIDE DEF T
  <2> QED BY <1>1, <2>1, Least
<1>3. m \in Nat /\ ~ \E f : Erasing(f, c, m)
  OBVIOUS
<1>4. CASE m = 0
  <2> DEFINE f == [k \in 0..0 |-> c]
  <2>1. f = [k \in 0..0 |-> IF k = 0 THEN c ELSE Erased(f[k - 1])]
    OBVIOUS
  <2> QED BY <1>3, <1>4, <2>1 DEF Erasing
<1>5. CASE m # 0
  <2>1. m - 1 \in Nat /\ m - 1 \notin T
    BY <1>2, <1>3, <1>5
  <2>2. PICK g : Erasing(g, c, m - 1)
    BY <2>1
  <2>3. g = [k \in 0..(m - 1) |-> IF k = 0 THEN c ELSE Erased(g[k - 1])]
    BY <2>2 DEF Erasing
  <2> DEFINE f == [k \in 0..m |-> IF k = m THEN Erased(g[m - 1]) ELSE g[k]]
  <2>4. ASSUME NEW k \in 0..m
        PROVE  f[k] = IF k = 0 THEN c ELSE Erased(f[k - 1])
    <3>1. CASE k = m
      <4>1. m - 1 \in 0..m /\ m - 1 # m
        BY <1>3, <2>1
      <4> QED BY <1>5, <3>1, <4>1
    <3>2. CASE k # m
      <4>1. k \in 0..(m - 1) /\ (k # 0 => k - 1 \in 0..m /\ k - 1 # m)
        BY <1>3, <3>2
      <4>2. g[k] = IF k = 0 THEN c ELSE Erased(g[k - 1])
        BY <2>3, <4>1
      <4> QED BY <3>2, <4>1, <4>2
    <3> QED BY <3>1, <3>2
  <2>5. f = [k \in 0..m |-> f[k]]
    OBVIOUS
  <2> HIDE DEF f
  <2>6. f = [k \in 0..m |-> IF k = 0 THEN c ELSE Erased(f[k - 1])]
    BY <2>4, <2>5
  <2> QED BY <1>3, <2>6 DEF Erasing
<1> QED BY <1>4, <1>5

LEMMA KilledStays ==
    ASSUME Cursor \in CursorType, NEW n \in 0..IBUF_SIZE
    PROVE  Stays(Cursor, Killed[n])
<1>1. Erasing(Killed, Cursor, IBUF_SIZE)
  <2>1. \E f : f = [k \in 0..IBUF_SIZE |-> IF k = 0 THEN Cursor ELSE Erased(f[k - 1])]
    <3>1. \A c : \A n_1 \in Nat : \E f : Erasing(f, c, n_1)
      BY ErasingExists
    <3>2. IBUF_SIZE \in Nat
      BY Sizes
    <3>3. \E f : Erasing(f, Cursor, IBUF_SIZE)
      BY <3>1, <3>2
    <3> QED BY <3>3 DEF Erasing
  <2> QED BY <2>1 DEF Killed, Erasing
<1>2. \A k \in 0..IBUF_SIZE : Killed[k] = IF k = 0 THEN Cursor ELSE Erased(Killed[k - 1])
  BY <1>1 DEF Erasing
<1> DEFINE T == {m \in 0..IBUF_SIZE : ~Stays(Cursor, Killed[m])}
<1>3. SUFFICES ASSUME T # {} PROVE FALSE
  OBVIOUS
<1>4. PICK m \in T : \A y \in T : m <= y
  <2>1. T \in SUBSET Nat
    BY Sizes
  <2> HIDE DEF T
  <2> QED BY <1>3, <2>1, Least
<1>5. m \in 0..IBUF_SIZE /\ ~Stays(Cursor, Killed[m])
  OBVIOUS
<1>6. CASE m = 0
  <2>1. Killed[0] = Cursor
    BY <1>2, Sizes
  <2>2. Stays(Cursor, Cursor)
    BY DEF Stays
  <2> QED BY <1>5, <1>6, <2>1, <2>2
<1>7. CASE m # 0
  <2>1. m - 1 \in 0..IBUF_SIZE /\ ~(m <= m - 1)
    BY <1>5, <1>7, Sizes
  <2>2. Stays(Cursor, Killed[m - 1])
    BY <1>4, <2>1
  <2>3. Killed[m - 1] \in CursorType
    BY <2>2 DEF Stays
  <2>4. Stays(Killed[m - 1], Killed[m])
    BY <1>2, <1>5, <1>7, <2>3, ErasedStays
  <2> QED BY <1>5, <2>2, <2>3, <2>4, StaysOn
<1> QED BY <1>6, <1>7
-----------------------------------------------------------------------------
(* The inductive invariant                                                 *)

(* What the caller of console_get_line() is to get.                        *)
Taken == SubSeq(Ibuf, 1, IF BUF_LEN < widx THEN BUF_LEN ELSE widx)

(* The column and the row are in the screen except for an instant, and so  *)
(* is what the program has loaded and will store.                          *)
CursorInv ==
    ~fault =>
        /\ moving # "feed" => curs_x < VGA_NUM_COLS
        /\ moving # "scroll" => curs_y < VGA_NUM_ROWS
        /\ moving = "forward" => reg \in 1..VGA_NUM_COLS
        /\ moving = "store" => reg \in 1..VGA_NUM_ROWS

(* From the test to the reset the keyboard line is masked.                 *)
LineInv ==
    /\ \A k \in 0..(widx - 1) : ibuf[k] \in Printable
    /\ pc \in {"copy", "reset"} => line_completed
    /\ pc \in {"test", "return", "enable", "copy", "reset"} => masked
    /\ pc = "reset" => buf = Taken
    /\ pc = "display_char" => i < IBUF_SIZE

Inv == TypeOK /\ CursorInv /\ LineInv

LEMMA InitInv == Init => Inv
<1> SUFFICES ASSUME Init PROVE Inv
  OBVIOUS
<1> USE Sizes
<1>1. TypeOK
  <2>1. /\ {shift, lshift, rshift, ctrl} \subseteq BOOLEAN
        /\ {line_completed, cleared, masked, prompted, fault} \subseteq BOOLEAN
        /\ pc \in Places /\ moving = "not"
    BY DEF Init, keyboard_init, Places
  <2>2. widx \in 0..IBUF_SIZE /\ i \in 0..IBUF_SIZE
        /\ {curs_x, curs_y, reg} \subseteq 0..(UINT8_MOD - 1)
    BY DEF Init
  <2>3. ibuf \in [0..(IBUF_SIZE - 1) -> Printable \cup {NUL}]
    BY DEF Init
  <2>4. buf \in Seq(Printable) /\ shown \in Seq(Printable \cup {NUL})
    BY DEF Init
  <2> QED BY <2>1, <2>2, <2>3, <2>4 DEF TypeOK
<1>2. CursorInv
  BY DEF Init, CursorInv
<1>3. LineInv
  BY DEF Init, LineInv
<1> QED BY <1>1, <1>2, <1>3 DEF Inv

LEMMA IbufIs ==
    ASSUME TypeOK, LineInv
    PROVE  /\ Ibuf = [k \in 1..widx |-> ibuf[k - 1]]
           /\ Ibuf \in Seq(Printable) /\ Len(Ibuf) = widx
           /\ Taken \in Seq(Printable)
<1> DEFINE all == [k \in 1..IBUF_SIZE |-> ibuf[k - 1]]
<1>1. widx \in 0..IBUF_SIZE /\ widx \in Nat /\ IBUF_SIZE \in Nat
  BY Sizes DEF TypeOK
<1>2. all \in Seq(Printable \cup {NUL}) /\ Len(all) = IBUF_SIZE
  <2>1. \A k \in 1..IBUF_SIZE : ibuf[k - 1] \in Printable \cup {NUL}
    BY <1>1 DEF TypeOK
  <2> QED BY <1>1, <2>1
<1>3. Ibuf = [k \in 1..widx |-> all[k]]
  <2>1. Ibuf = SubSeq(all, 1, widx)
    BY DEF Ibuf
  <2> HIDE DEF all
  <2> QED BY <1>1, <1>2, <2>1
<1>4. Ibuf = [k \in 1..widx |-> ibuf[k - 1]]
  BY <1>1, <1>3
<1>5. \A k \in 1..widx : ibuf[k - 1] \in Printable
  BY <1>1 DEF LineInv
<1>6. Ibuf \in Seq(Printable) /\ Len(Ibuf) = widx
  BY <1>1, <1>4, <1>5
<1>7. Taken \in Seq(Printable)
  BY <1>1, <1>6, Sizes DEF Taken
<1> QED BY <1>4, <1>6, <1>7

-----------------------------------------------------------------------------
(* The interrupt                                                           *)

LEMMA Characters ==
    ASSUME NEW key \in Keys, key \notin Modifiers
    PROVE  Char(key) \in Printable \cup {LF, KILL, ERASE, CLEAR, NUL}
<1>1. key \in {"a", "u", "l", "enter", "backspace"}
  BY KeyboardAssumption DEF Modifiers
<1>2. _keymap(key, shift) \in Printable \cup {LF, CLEAR, NUL}
  BY <1>1 DEF _keymap, Printable, LF, CLEAR, NUL
<1> QED BY <1>2 DEF Char, Printable, LF, KILL, ERASE, CLEAR, NUL

LEMMA CursorOf ==
    ASSUME TypeOK
    PROVE  /\ Cursor \in CursorType
           /\ Cursor.x = curs_x /\ Cursor.y = curs_y /\ Cursor.fault = fault
BY DEF TypeOK, Cursor, CursorType

LEMMA Moved ==
    ASSUME NEW d \in CursorType, MoveTo(d), Stays(Cursor, d)
    PROVE  Stays(Cursor, Cursor')
<1>1. Cursor' = d
  BY DEF MoveTo, Cursor, CursorType
<1> QED BY <1>1

(* A key that is handled keeps the cursor where it may be.                 *)
LEMMA CursorStays ==
    ASSUME TypeOK, NEW c \in Printable \cup {LF, KILL, ERASE, CLEAR}, console_put_ibuf(c)
    PROVE  Stays(Cursor, Cursor')
<1>1. Cursor \in CursorType
  BY CursorOf
<1>2. Stays(Cursor, Cursor)
  BY <1>1 DEF Stays
<1>3. UNCHANGED cursor => Stays(Cursor, Cursor')
  BY <1>2 DEF cursor, Cursor
<1>4. ASSUME NEW d, MoveTo(d), Stays(Cursor, d) PROVE Stays(Cursor, Cursor')
  <2>1. d \in CursorType
    BY <1>4 DEF Stays
  <2> QED BY <1>4, <2>1, Moved
<1>5. CASE Complete
  BY <1>1, <1>4, <1>5, LineFeedStays DEF Complete
<1>6. CASE _kill
  <2>1. widx \in 0..IBUF_SIZE
    BY DEF TypeOK
  <2>2. Stays(Cursor, Killed[widx])
    BY <1>1, <2>1, KilledStays
  <2> QED BY <1>3, <1>4, <1>6, <2>2 DEF _kill
<1>7. CASE _del_ibuf
  <2>1. CASE ~line_completed /\ widx > 0
    <3>1. MoveTo(Erased(Cursor))
      BY <1>7, <2>1 DEF _del_ibuf
    <3> QED BY <1>1, <1>4, <3>1, ErasedStays
  <2>2. CASE ~(~line_completed /\ widx > 0)
    <3>1. MoveTo(Cursor)
      BY <1>7, <2>2 DEF _del_ibuf
    <3> QED BY <1>2, <1>4, <3>1
  <2> QED BY <2>1, <2>2
<1>8. CASE console_clear
  <2> DEFINE d == [Cursor EXCEPT !.x = 0, !.y = 0]
  <2>1. d \in CursorType /\ d.x = 0 /\ d.y = 0 /\ d.fault = Cursor.fault
    <3>1. \A e \in CursorType : LET f == [e EXCEPT !.x = 0, !.y = 0]
                              IN  f \in CursorType /\ f.x = 0 /\ f.y = 0 /\ f.fault = e.fault
      <4>1. 0 \in 0..(UINT8_MOD - 1)
        BY Sizes
      <4> QED BY <4>1 DEF CursorType
    <3> QED BY <1>1, <3>1
  <2>2. MoveTo(d)
    BY <1>8 DEF console_clear
  <2> HIDE DEF d
  <2>3. Stays(Cursor, d)
    BY <2>1, Sizes DEF Stays
  <2> QED BY <1>4, <2>2, <2>3
<1>9. CASE Store(c)
  BY <1>1, <1>3, <1>4, <1>9, PutStays DEF Store
<1> QED BY <1>5, <1>6, <1>7, <1>8, <1>9 DEF console_put_ibuf
(* A key that is handled leaves a completed line in the buffer.            *)
LineStays ==
    /\ ibuf' \in [0..(IBUF_SIZE - 1) -> Printable \cup {NUL}]
    /\ widx' \in 0..IBUF_SIZE
    /\ {line_completed', cleared', prompted'} \subseteq BOOLEAN
    /\ shown' \in Seq(Printable \cup {NUL})
    /\ \A k \in 0..(widx' - 1) : ibuf'[k] \in Printable
    /\ line_completed =>
        /\ line_completed'
        /\ widx <= widx'
        /\ \A k \in 0..(widx - 1) : ibuf'[k] = ibuf[k]

LEMMA Shorter ==
    ASSUME NEW S, NEW s \in Seq(S), NEW k \in Int, k <= Len(s)
    PROVE  SubSeq(s, 1, k) \in Seq(S)
<1>1. CASE k <= 0
  <2>1. SubSeq(s, 1, k) = << >>
    BY <1>1
  <2> QED BY <2>1
<1>2. CASE k > 0
  BY <1>2
<1> QED BY <1>1, <1>2

LEMMA KeyLine ==
    ASSUME TypeOK, LineInv, NEW c \in Printable \cup {LF, KILL, ERASE, CLEAR},
           console_put_ibuf(c)
    PROVE  LineStays
<1>1. /\ ibuf \in [0..(IBUF_SIZE - 1) -> Printable \cup {NUL}]
      /\ widx \in 0..IBUF_SIZE /\ IBUF_SIZE \in Nat
      /\ line_completed \in BOOLEAN /\ cleared \in BOOLEAN /\ prompted \in BOOLEAN
      /\ shown \in Seq(Printable \cup {NUL})
      /\ \A k \in 0..(widx - 1) : ibuf[k] \in Printable
  BY Sizes DEF TypeOK, LineInv
<1>2. CASE Complete
  BY <1>1, <1>2 DEF Complete, LineStays, screen
<1>3. CASE _kill
  <2>1. CASE line_completed
    BY <1>1, <1>3, <2>1 DEF _kill, LineStays
  <2>2. CASE ~line_completed
    <3>1. Len(shown) - widx \in Int /\ Len(shown) - widx <= Len(shown)
      BY <1>1
    <3>2. SubSeq(shown, 1, Len(shown) - widx) \in Seq(Printable \cup {NUL})
      BY <1>1, <3>1, Shorter
    <3>3. /\ widx' = 0 /\ shown' \in Seq(Printable \cup {NUL})
          /\ UNCHANGED <<ibuf, line_completed, cleared, prompted>>
      BY <1>3, <2>2, <3>2 DEF _kill
    <3> QED BY <1>1, <2>2, <3>3 DEF LineStays
  <2> QED BY <2>1, <2>2
<1>4. CASE _del_ibuf
  <2>1. CASE ~line_completed /\ widx > 0
    <3>1. DropLast(shown) \in Seq(Printable \cup {NUL})
      <4>1. CASE shown = << >>
        BY <1>1, <4>1 DEF DropLast
      <4>2. CASE shown # << >>
        <5>1. Len(shown) - 1 \in Int /\ Len(shown) - 1 <= Len(shown)
          BY <1>1
        <5> QED BY <1>1, <4>2, <5>1, Shorter DEF DropLast, Front
      <4> QED BY <4>1, <4>2
    <3>2. /\ widx' = widx - 1 /\ shown' \in Seq(Printable \cup {NUL})
          /\ UNCHANGED <<ibuf, line_completed, cleared, prompted>>
      BY <1>4, <2>1, <3>1 DEF _del_ibuf
    <3> QED BY <1>1, <2>1, <3>2 DEF LineStays
  <2>2. CASE ~(~line_completed /\ widx > 0)
    BY <1>1, <1>4, <2>2 DEF _del_ibuf, LineStays
  <2> QED BY <2>1, <2>2
<1>5. CASE console_clear
  <2>1. /\ UNCHANGED <<ibuf, widx, line_completed>>
        /\ cleared' = TRUE /\ prompted' = FALSE /\ shown' = << >>
    BY <1>5 DEF console_clear, input
  <2>2. /\ shown' \in Seq(Printable \cup {NUL})
        /\ line_completed' \in BOOLEAN /\ cleared' \in BOOLEAN /\ prompted' \in BOOLEAN
    <3>1. shown' \in Seq(Printable \cup {NUL})
      BY <2>1
    <3>2. line_completed' \in BOOLEAN
      BY <1>1, <2>1
    <3>3. cleared' \in BOOLEAN /\ prompted' \in BOOLEAN
      BY <2>1
    <3> QED BY <3>1, <3>2, <3>3
  <2>3. /\ ibuf' = ibuf /\ widx' = widx /\ line_completed' = line_completed
    BY <2>1
  <2> QED BY <1>1, <2>2, <2>3 DEF LineStays
<1>6. CASE c \in Printable /\ Store(c)
  <2>1. CASE _ibuf_is_full
    BY <1>1, <1>6, <2>1 DEF Store, LineStays
  <2>2. CASE ~_ibuf_is_full
    <3>1. widx < IBUF_SIZE
      BY <1>1, <2>2 DEF _ibuf_is_full
    <3>2. /\ ibuf' = [ibuf EXCEPT ![widx] = c] /\ widx' = widx + 1
          /\ shown' = Append(shown, c)
          /\ UNCHANGED <<line_completed, cleared, prompted>>
      BY <1>6, <2>2 DEF Store
    <3>3. shown' \in Seq(Printable \cup {NUL})
      BY <1>1, <1>6, <3>2
    <3> QED BY <1>1, <1>6, <3>1, <3>2, <3>3 DEF LineStays
  <2> QED BY <2>1, <2>2
<1> QED
  <2>1. c \notin Printable => c \in {LF, KILL, ERASE, CLEAR}
    OBVIOUS
  <2> QED BY <1>2, <1>3, <1>4, <1>5, <1>6, <2>1
          DEF console_put_ibuf, Printable, LF, KILL, ERASE, CLEAR

LEMMA InterruptInv ==
    ASSUME Inv, ~fault, NEW key \in Keys, NEW make \in BOOLEAN, keyboard_isr(key, make)
    PROVE  Inv' /\ LineStays /\ UNCHANGED buf
<1>1. /\ TypeOK /\ LineInv /\ CursorInv
      /\ ~masked /\ TrackModifiers(key, make)
      /\ pc' = IF pc = "halted" THEN "loop" ELSE pc
      /\ UNCHANGED <<masked, i, buf, moving, reg>>
  BY DEF Inv, keyboard_isr
<1>2. LineStays /\ Stays(Cursor, Cursor')
  <2>1. CASE make /\ key \notin Modifiers /\ Char(key) # NUL
    <3>1. Char(key) \in Printable \cup {LF, KILL, ERASE, CLEAR}
      BY <2>1, Characters
    <3>2. console_put_ibuf(Char(key))
      BY <2>1 DEF keyboard_isr
    <3> QED BY <1>1, <3>1, <3>2, KeyLine, CursorStays
  <2>2. CASE ~(make /\ key \notin Modifiers /\ Char(key) # NUL)
    <3>1. UNCHANGED <<input, cleared, screen, cursor>>
      BY <2>2 DEF keyboard_isr
    <3>2. LineStays
      BY <1>1, <3>1, Sizes DEF TypeOK, LineInv, LineStays, input, screen
    <3>3. Stays(Cursor, Cursor')
      BY <1>1, <3>1, CursorOf DEF Stays, cursor, Cursor
    <3> QED BY <3>2, <3>3
  <2> QED BY <2>1, <2>2
<1>3. /\ curs_x' \in 0..(UINT8_MOD - 1) /\ curs_y' \in 0..(UINT8_MOD - 1)
      /\ fault' \in BOOLEAN
      /\ curs_x < VGA_NUM_COLS => curs_x' < VGA_NUM_COLS
      /\ curs_y < VGA_NUM_ROWS /\ ~fault' => curs_y' < VGA_NUM_ROWS
  <2>1. Cursor'.x = curs_x' /\ Cursor'.y = curs_y' /\ Cursor'.fault = fault'
    BY DEF Cursor
  <2>2. Cursor' \in CursorType
    BY <1>2 DEF Stays
  <2>3. curs_x' \in 0..(UINT8_MOD - 1) /\ curs_y' \in 0..(UINT8_MOD - 1)
        /\ fault' \in BOOLEAN
    BY <2>1, <2>2 DEF CursorType
  <2> QED BY <1>1, <1>2, <2>1, <2>3, CursorOf DEF Stays
<1>4. {shift, lshift, rshift, ctrl}' \subseteq BOOLEAN
  BY <1>1 DEF TrackModifiers, TypeOK
<1>5. TypeOK'
  <2>1. pc' \in Places
    BY <1>1 DEF TypeOK, Places
  <2>2. /\ i' \in 0..IBUF_SIZE /\ buf' \in Seq(Printable) /\ masked' \in BOOLEAN
        /\ reg' \in 0..(UINT8_MOD - 1)
        /\ moving' \in {"not", "forward", "feed", "row", "store", "scroll"}
    BY <1>1 DEF TypeOK
  <2> QED BY <1>2, <1>3, <1>4, <2>1, <2>2 DEF TypeOK, LineStays
<1>6. CursorInv'
  BY <1>1, <1>3 DEF CursorInv
<1>7. LineInv'
  <2>1. pc \notin {"test", "return", "enable", "copy", "reset"}
    BY <1>1 DEF LineInv
  <2>2. /\ pc' \notin {"test", "return", "enable", "copy", "reset"}
        /\ pc' = "display_char" => pc = "display_char"
    BY <1>1, <2>1
  <2>3. \A k \in 0..(widx' - 1) : ibuf'[k] \in Printable
    BY <1>2 DEF LineStays
  <2>4. pc' = "display_char" => i' < IBUF_SIZE
    BY <1>1, <2>2 DEF LineInv
  <2> QED BY <2>2, <2>3, <2>4 DEF LineInv
<1> QED BY <1>1, <1>2, <1>5, <1>6, <1>7 DEF Inv
-----------------------------------------------------------------------------
(* The program                                                             *)

(* The types of what the program and the keyboard have of the line.        *)
LineTypes ==
    /\ {shift, lshift, rshift, ctrl} \subseteq BOOLEAN
    /\ ibuf \in [0..(IBUF_SIZE - 1) -> Printable \cup {NUL}]
    /\ widx \in 0..IBUF_SIZE
    /\ {line_completed, cleared, masked, prompted} \subseteq BOOLEAN
    /\ pc \in Places
    /\ i \in 0..IBUF_SIZE
    /\ buf \in Seq(Printable)
    /\ shown \in Seq(Printable \cup {NUL})

CursorTypes ==
    /\ {curs_x, curs_y, reg} \subseteq 0..(UINT8_MOD - 1)
    /\ fault \in BOOLEAN
    /\ moving \in {"not", "forward", "feed", "row", "store", "scroll"}

LEMMA Types ==
    /\ TypeOK <=> LineTypes /\ CursorTypes
    /\ TypeOK' <=> LineTypes' /\ CursorTypes'
BY DEF TypeOK, LineTypes, CursorTypes

LEMMA MoveCursorInv ==
    ASSUME Inv, ~fault, MoveCursor
    PROVE  Inv'
<1>1. /\ CursorTypes /\ LineTypes /\ CursorInv /\ LineInv
      /\ UNCHANGED <<shift, lshift, rshift, ctrl, ibuf, widx, line_completed, cleared,
                    prompted, shown, masked, pc, i, buf>>
  BY Types DEF Inv, MoveCursor, kvars, input, screen
<1>2. LineTypes' /\ LineInv'
  <2>1. Taken' = Taken
    BY <1>1 DEF Taken, Ibuf
  <2> QED BY <1>1, <2>1 DEF LineTypes, LineInv
<1>3. /\ curs_x \in 0..(UINT8_MOD - 1) /\ curs_y \in 0..(UINT8_MOD - 1)
      /\ reg \in 0..(UINT8_MOD - 1) /\ fault \in BOOLEAN
  BY <1>1 DEF CursorTypes
<1>4. CursorTypes' /\ CursorInv'
  <2>1. CASE Forward
    BY <1>1, <1>3, <2>1, Sizes DEF Forward, CursorTypes, CursorInv
  <2>2. CASE FeedColumn
    BY <1>1, <1>3, <2>2, Sizes DEF FeedColumn, CursorTypes, CursorInv
  <2>3. CASE FeedRow
    <3>1. /\ (curs_y + 1) % UINT8_MOD = Up(curs_y) /\ Up(curs_y) \in 0..(UINT8_MOD - 1)
      BY <1>3, ByteCounts
    <3>2. /\ reg' = Up(curs_y) /\ moving = "row" /\ moving' = "store"
          /\ UNCHANGED <<curs_x, curs_y, fault>>
      BY <2>3, <3>1 DEF FeedRow, cursor
    <3>3. curs_x < VGA_NUM_COLS /\ curs_y < VGA_NUM_ROWS
      BY <1>1, <3>2 DEF CursorInv
    <3>4. reg' \in 1..VGA_NUM_ROWS
      BY <1>3, <3>2, <3>3, Sizes DEF Up
    <3>5. CursorTypes'
      BY <1>3, <3>1, <3>2 DEF CursorTypes
    <3> QED BY <3>2, <3>3, <3>4, <3>5 DEF CursorInv
  <2>4. CASE FeedStore
    BY <1>1, <1>3, <2>4, Sizes DEF FeedStore, CursorTypes, CursorInv
  <2>5. CASE Scroll
    BY <1>1, <1>3, <2>5, Sizes DEF Scroll, CursorTypes, CursorInv
  <2> QED BY <2>1, <2>2, <2>3, <2>4, <2>5 DEF MoveCursor
<1> QED BY <1>2, <1>4, Types DEF Inv

(* A step that leaves the cursor alone, and one that begins to move it.    *)
LEMMA StillInv ==
    ASSUME Inv, Still
    PROVE  CursorTypes' /\ CursorInv'
BY Types DEF Inv, Still, cursor, CursorTypes, CursorInv

LEMMA AdvanceInv ==
    ASSUME Inv, ~fault, moving = "not", Advance
    PROVE  CursorTypes' /\ CursorInv'
<1>1. /\ curs_x \in 0..(UINT8_MOD - 1) /\ curs_y \in 0..(UINT8_MOD - 1)
      /\ fault \in BOOLEAN
      /\ curs_x < VGA_NUM_COLS /\ curs_y < VGA_NUM_ROWS
  BY Types DEF Inv, CursorTypes, CursorInv
<1>2. (curs_x + 1) % UINT8_MOD = Up(curs_x) /\ Up(curs_x) \in 0..(UINT8_MOD - 1)
  BY <1>1, ByteCounts
<1>3. reg' = Up(curs_x) /\ moving' = "forward" /\ UNCHANGED <<curs_x, curs_y, fault>>
  BY <1>2 DEF Advance, cursor
<1>4. reg' \in 1..VGA_NUM_COLS
  BY <1>1, <1>3, Sizes DEF Up
<1> QED BY <1>1, <1>2, <1>3, <1>4 DEF CursorTypes, CursorInv

LEMMA ProgramInv ==
    ASSUME Inv, ~fault, Program
    PROVE  /\ Inv'
           /\ line_completed' # line_completed => pc = "reset"
           /\ pc # "reset" => UNCHANGED <<ibuf, widx>>
<1>1. /\ LineTypes /\ LineInv /\ Taken \in Seq(Printable)
  BY Types, IbufIs DEF Inv
<1>2. UNCHANGED <<ibuf, widx>> => Taken' = Taken
  BY DEF Taken, Ibuf
<1> DEFINE Goal == /\ LineTypes' /\ LineInv' /\ CursorTypes' /\ CursorInv'
                   /\ line_completed' # line_completed => pc = "reset"
                   /\ pc # "reset" => UNCHANGED <<ibuf, widx>>
<1>3. SUFFICES Goal
  BY Types DEF Inv
<1> USE DEF kvars, input, screen, LineTypes, LineInv, Places
<1>4. CASE MoveCursor
  BY <1>4, MoveCursorInv, Types DEF Inv, MoveCursor
<1>5. CASE Prompt
  BY <1>1, <1>2, <1>5, AdvanceInv DEF Prompt, At
<1>6. CASE GetLine
  BY <1>1, <1>2, <1>6, StillInv, Sizes DEF GetLine
<1>7. CASE DisplayTest
  BY <1>1, <1>2, <1>7, StillInv, Sizes DEF DisplayTest
<1>8. CASE DisplayChar
  <2>1. CursorTypes' /\ CursorInv'
    BY <1>8, AdvanceInv DEF DisplayChar, At
  <2>2. i < IBUF_SIZE /\ i \in 0..IBUF_SIZE
    BY <1>1, <1>8 DEF DisplayChar, At
  <2>3. i' \in 0..IBUF_SIZE /\ shown' \in Seq(Printable \cup {NUL})
    <3>1. ibuf[i] \in Printable \cup {NUL}
      BY <1>1, <2>2, Sizes
    <3> QED BY <1>1, <1>8, <2>2, <3>1, Sizes DEF DisplayChar
  <2> QED BY <1>1, <1>2, <1>8, <2>1, <2>3 DEF DisplayChar, At
<1>9. CASE Displayed
  BY <1>1, <1>2, <1>9, StillInv DEF Displayed, At
<1>10. CASE DisableIrq
  BY <1>1, <1>2, <1>10, StillInv DEF DisableIrq, At
<1>11. CASE Test
  BY <1>1, <1>2, <1>11, StillInv DEF Test
<1>12. CASE ReturnNothing
  BY <1>1, <1>2, <1>12, StillInv DEF ReturnNothing, At
<1>13. CASE EnableIrq
  BY <1>1, <1>2, <1>13, StillInv DEF EnableIrq, At
<1>14. CASE Halt
  BY <1>1, <1>2, <1>14, StillInv DEF Halt, At
<1>15. CASE Copy
  <2>1. buf' = Taken
    BY <1>15 DEF Copy, Taken
  <2> QED BY <1>1, <1>2, <1>15, <2>1, StillInv DEF Copy, At
<1>16. CASE Reset
  <2>1. CursorTypes' /\ CursorInv'
    BY <1>16, StillInv DEF Reset
  <2>2. << >> \in Seq(Printable \cup {NUL}) /\ 0 \in 0..IBUF_SIZE
    BY Sizes
  <2>3. /\ pc = "reset" /\ pc' = "prompt"
        /\ widx' = 0 /\ line_completed' \in BOOLEAN /\ shown' = << >>
        /\ UNCHANGED <<shift, lshift, rshift, ctrl, ibuf, prompted, cleared, masked, i, buf>>
    BY <1>16 DEF Reset, At
  <2>4. LineTypes' /\ LineInv'
    BY <1>1, <2>2, <2>3
  <2> QED BY <2>1, <2>3, <2>4
<1> QED BY <1>4, <1>5, <1>6, <1>7, <1>8, <1>9, <1>10, <1>11, <1>12, <1>13, <1>14,
           <1>15, <1>16 DEF Program
-----------------------------------------------------------------------------
(* The theorems                                                            *)

LEMMA NextInv ==
    ASSUME Inv, [Next \/ Stopped]_vars
    PROVE  /\ Inv'
           /\ line_completed /\ ~line_completed' => pc = "reset"
           /\ line_completed /\ line_completed' =>
                /\ widx <= widx'
                /\ \A k \in 0..(widx - 1) : ibuf'[k] = ibuf[k]
<1>1. widx \in Nat
  BY Sizes DEF Inv, TypeOK
<1>2. CASE Program /\ ~fault
  <2>1. /\ Inv'
        /\ line_completed' # line_completed => pc = "reset"
        /\ pc # "reset" => UNCHANGED <<ibuf, widx>>
    BY <1>2, ProgramInv
  <2>2. CASE pc = "reset"
    <3>1. line_completed' => UNCHANGED <<ibuf, widx>>
      BY <1>2, <2>2 DEF Program, MoveCursor, input, Prompt, GetLine, DisplayTest,
         DisplayChar, Displayed, DisableIrq, Test, ReturnNothing, EnableIrq, Halt, Copy,
         Reset, At
    <3> QED BY <1>1, <2>1, <2>2, <3>1
  <2> QED BY <1>1, <2>1, <2>2
<1>3. CASE Interrupt
  <2>1. PICK key \in Keys, make \in BOOLEAN : ~fault /\ keyboard_isr(key, make)
    BY <1>3 DEF Interrupt
  <2> QED BY <2>1, InterruptInv DEF LineStays
<1>4. CASE UNCHANGED vars
  <2> USE <1>4 DEF vars, kvars, input, screen, cursor
  <2>1. LineTypes' /\ CursorTypes' /\ CursorInv'
    BY Types DEF Inv, LineTypes, CursorTypes, CursorInv
  <2>2. Taken' = Taken
    BY DEF Taken, Ibuf
  <2>3. LineInv'
    BY <2>2 DEF Inv, LineInv
  <2> QED BY <1>1, <2>1, <2>3, Types DEF Inv
<1> QED BY <1>2, <1>3, <1>4 DEF Next, Stopped, Program

(* The invariant is kept by every step.                                    *)
THEOREM ConsoleInductive == Spec => []Inv
<1>1. Inv /\ [Next \/ Stopped]_vars => Inv'
  BY NextInv
<1> QED BY InitInv, <1>1, PTL DEF Spec

(* The variables have their types; in particular the index never leaves    *)
(* the input buffer, whatever is typed while the program displays, copies  *)
(* or resets it (console.c:70-74, :209).                                   *)
THEOREM ConsoleTypeOK == Spec => []TypeOK
<1>1. Inv => TypeOK
  BY DEF Inv
<1> QED BY ConsoleInductive, <1>1, PTL

(* Interrupts between the loads and the stores of _curs_forward() and      *)
(* _line_feed() can lose a move, but once the program has moved the cursor *)
(* it is on the screen (console.c:33-68), as long as no erasing before the *)
(* first column of the first row has led to a page fault.                  *)
THEOREM ConsoleCursorOnScreen == Spec => []CursorOnScreen
<1>1. Inv => CursorOnScreen
  BY DEF Inv, CursorInv, CursorOnScreen
<1> QED BY ConsoleInductive, <1>1, PTL

(* No key is handled between the copy of the line and the reset of the     *)
(* buffer, so that the caller gets what is taken out (console.c:255-273).  *)
THEOREM ConsoleNothingLost == Spec => NothingLost
<1>1. Inv /\ [Next \/ Stopped]_vars
      => [line_completed /\ ~line_completed'
            => buf = SubSeq(Ibuf, 1, IF BUF_LEN < widx THEN BUF_LEN ELSE widx)]_vars
  <2> SUFFICES ASSUME Inv, [Next \/ Stopped]_vars, line_completed, ~line_completed'
               PROVE  buf = SubSeq(Ibuf, 1, IF BUF_LEN < widx THEN BUF_LEN ELSE widx)
    OBVIOUS
  <2>1. pc = "reset"
    BY NextInv
  <2> QED BY <2>1 DEF Inv, LineInv, Taken
<1> QED BY ConsoleInductive, <1>1, PTL DEF Spec, NothingLost

IbufKnown ==
    /\ widx \in Nat
    /\ Ibuf \in Seq(Printable) /\ Len(Ibuf) = widx
    /\ Ibuf = [k \in 1..widx |-> ibuf[k - 1]]

(* What is typed after Enter does not change the completed line: it can    *)
(* only follow it (console.c:217).                                         *)
THEOREM ConsoleLineKept == Spec => LineKept
<1>1. Inv => IbufKnown
  <2> SUFFICES ASSUME Inv PROVE IbufKnown
    OBVIOUS
  <2>1. TypeOK /\ LineInv
    BY DEF Inv
  <2>2. widx \in Nat
    BY <2>1, Sizes DEF TypeOK
  <2> QED BY <2>1, <2>2, IbufIs DEF IbufKnown
<1>2. Inv /\ IbufKnown /\ IbufKnown' /\ [Next \/ Stopped]_vars
      => [line_completed /\ line_completed' => IsPrefix(Ibuf, Ibuf')]_vars
  <2> SUFFICES ASSUME Inv, IbufKnown, IbufKnown', [Next \/ Stopped]_vars,
                      line_completed, line_completed'
               PROVE  IsPrefix(Ibuf, Ibuf')
    OBVIOUS
  <2>1. widx <= widx' /\ \A k \in 0..(widx - 1) : ibuf'[k] = ibuf[k]
    BY NextInv
  <2>2. /\ widx \in Nat /\ Ibuf \in Seq(Printable) /\ Len(Ibuf) = widx
        /\ Ibuf = [k \in 1..widx |-> ibuf[k - 1]]
    BY DEF IbufKnown
  <2>3. /\ widx' \in Nat /\ Ibuf' \in Seq(Printable) /\ Len(Ibuf') = widx'
        /\ Ibuf' = [k \in 1..widx' |-> ibuf'[k - 1]]
    BY DEF IbufKnown
  <2>4. \A k \in 1..widx : Ibuf'[k] = Ibuf[k]
    <3> TAKE k \in 1..widx
    <3>1. k \in 1..widx' /\ k - 1 \in 0..(widx - 1)
      BY <2>1, <2>2, <2>3
    <3> QED BY <2>1, <2>2, <2>3, <3>1
  <2>5. \A s, t \in Seq(Printable) :
            Len(s) <= Len(t) /\ (\A k \in 1..Len(s) : t[k] = s[k]) => IsPrefix(s, t)
    BY DEF IsPrefix
  <2> QED BY <2>1, <2>2, <2>3, <2>4, <2>5
<1> QED BY ConsoleInductive, <1>1, <1>2, PTL DEF Spec, LineKept
=============================================================================
