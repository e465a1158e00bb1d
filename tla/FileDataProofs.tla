--------------------------- MODULE FileDataProofs ----------------------------
(***************************************************************************)
(* Reads and writes move the bytes of the file, for any disk that is made  *)
(* as mkfs makes it, whatever blocks of it are bad.                        *)
(***************************************************************************)
EXTENDS FileData, SequenceTheorems, NaturalsInduction, WellFoundedInduction, TLAPS

-----------------------------------------------------------------------------
(* Arithmetic                                                              *)

LEMMA DivMod ==
    ASSUME NEW n \in Int, NEW k \in Nat \ {0}
    PROVE  /\ n \div k \in Int /\ n % k \in 0..(k - 1)
           /\ n = (n \div k) * k + (n % k)
OBVIOUS

LEMMA Times ==
    ASSUME NEW a \in Int, NEW b \in Int, a <= b, NEW c \in Nat
    PROVE  a * c <= b * c
<1>1. (b - a) * c >= 0
  OBVIOUS
<1> QED BY <1>1

(* There is one quotient and one remainder.                                *)
LEMMA OneQuotient ==
    ASSUME NEW k \in Nat \ {0}, NEW n \in Int, NEW p \in Int, NEW r \in 0..(k - 1),
           n = p * k + r
    PROVE  n \div k = p /\ n % k = r
<1> DEFINE q == n \div k
           s == n % k
<1>1. q \in Int /\ s \in 0..(k - 1) /\ n = q * k + s
  BY DivMod
<1> HIDE DEF q, s
<1>2. ASSUME q < p PROVE FALSE
  <2>1. (p - q) * k >= k
    BY <1>1, <1>2
  <2> QED BY <1>1, <2>1
<1>3. ASSUME p < q PROVE FALSE
  <2>1. (q - p) * k >= k
    BY <1>1, <1>3
  <2> QED BY <1>1, <2>1
<1>4. q = p /\ s = r
  <2>1. q = p
    BY <1>1, <1>2, <1>3
  <2> QED BY <1>1, <2>1
<1> QED BY <1>4 DEF q, s

(* The numbers below m times k have quotients below m.                     *)
LEMMA QuotientBelow ==
    ASSUME NEW k \in Nat \ {0}, NEW m \in Nat, NEW n \in Nat, n < m * k
    PROVE  n \div k \in 0..(m - 1) /\ n % k \in 0..(k - 1)
<1> DEFINE q == n \div k
           s == n % k
<1>1. q \in Int /\ s \in 0..(k - 1) /\ n = q * k + s
  BY DivMod
<1> HIDE DEF q, s
<1>2. ASSUME q < 0 PROVE FALSE
  <2>1. q <= -1
    BY <1>1, <1>2
  <2>2. q * k <= (-1) * k
    BY <1>1, <2>1, Times
  <2> QED BY <1>1, <2>2
<1>3. ASSUME m <= q PROVE FALSE
  <2>1. m * k <= q * k
    BY <1>1, <1>3, Times
  <2> QED BY <1>1, <2>1
<1>4. q \in 0..(m - 1) /\ s \in 0..(k - 1)
  BY <1>1, <1>2, <1>3
<1> QED BY <1>4 DEF q, s

Below == {p \in Nat \X Nat : p[1] < p[2]}

LEMMA Least ==
    ASSUME NEW T \in SUBSET Nat, T # {}
    PROVE  \E x \in T : \A y \in T : x <= y
<1>1. IsWellFoundedOn(Below, Nat)
  BY NatLessThanWellFounded DEF OpToRel, Below
<1>2. PICK x \in T : \A y \in T : ~(<<y, x>> \in Below)
  BY <1>1, WFMin
<1>3. ASSUME NEW y \in T PROVE x <= y
  <2>1. x \in Nat /\ y \in Nat
    OBVIOUS
  <2>2. ~(<<y, x>> \in Below)
    BY <1>2
  <2>3. ~(y < x)
    BY <2>1, <2>2 DEF Below
  <2> QED BY <2>1, <2>3
<1> QED BY <1>3

-----------------------------------------------------------------------------
(* Sequences of sequences that are all of one length                       *)

LEMMA AsSeq ==
    ASSUME NEW n \in Nat, NEW S, NEW s \in [1..n -> S]
    PROVE  s \in Seq(S) /\ Len(s) = n
OBVIOUS

(* f is a, of length m, followed by b, of length n.                        *)
Concatenated(f, a, b, m, n, S) ==
    /\ f \in Seq(S) /\ Len(f) = m + n
    /\ \A i \in 1..m : f[i] = a[i]
    /\ \A i \in Nat : \A j \in 1..n : i = m + j => f[i] = b[j]

LEMMA ConcatAt ==
    ASSUME NEW S, NEW a \in Seq(S), NEW b \in Seq(S)
    PROVE  Concatenated(a \o b, a, b, Len(a), Len(b), S)
<1>1. /\ a \o b \in Seq(S) /\ Len(a \o b) = Len(a) + Len(b)
      /\ \A i \in 1..(Len(a) + Len(b)) :
            (a \o b)[i] = IF i <= Len(a) THEN a[i] ELSE b[i - Len(a)]
  BY ConcatProperties
<1>2. Len(a) \in Nat /\ Len(b) \in Nat
  BY LenProperties
<1>3. ASSUME NEW i \in Nat, NEW j \in 1..Len(b), i = Len(a) + j PROVE (a \o b)[i] = b[j]
  <2>1. i \in 1..(Len(a) + Len(b)) /\ ~(i <= Len(a)) /\ i - Len(a) = j
    BY <1>2, <1>3
  <2> QED BY <1>1, <2>1
<1>4. \A i \in 1..Len(a) : (a \o b)[i] = a[i]
  BY <1>1, <1>2
<1> QED BY <1>1, <1>3, <1>4 DEF Concatenated

(* f is s with its n elements, of length k, put one after the other.       *)
Flattened(f, s, n, k, S) ==
    /\ f \in Seq(S) /\ Len(f) = n * k
    /\ \A x \in 1..(n * k), y \in Nat :
            x = y + 1 => f[x] = s[(y \div k) + 1][(y % k) + 1]

LEMMA FlattenIs ==
    ASSUME NEW n \in Nat \ {0}, NEW k \in Nat \ {0}, NEW S, NEW s \in [1..n -> [1..k -> S]]
    PROVE  Flattened(FlattenSeq(s), s, n, k, S)
<1> DEFINE Upto(m) == [x \in 1..(m * k) |-> s[((x - 1) \div k) + 1][((x - 1) % k) + 1]]
<1>1. ASSUME NEW m \in 0..n, NEW x \in 1..(m * k)
      PROVE  ((x - 1) \div k) + 1 \in 1..m /\ ((x - 1) % k) + 1 \in 1..k
  <2> HIDE DEF Upto
  <2>1. m \in Nat
    OBVIOUS
  <2> DEFINE y == x - 1
  <2>2. y \in Nat /\ y < m * k
    OBVIOUS
  <2> HIDE DEF y
  <2>3. y \div k \in 0..(m - 1) /\ y % k \in 0..(k - 1)
    BY <2>1, <2>2, QuotientBelow
  <2>4. (y \div k) + 1 \in 1..m /\ (y % k) + 1 \in 1..k
    BY <2>1, <2>3
  <2> QED BY <2>4 DEF y
<1>2. ASSUME NEW m \in 0..n
      PROVE  m * k \in Nat /\ Upto(m) \in Seq(S) /\ Len(Upto(m)) = m * k
  <2>1. m * k \in Nat
    OBVIOUS
  <2>2. ASSUME NEW x \in 1..(m * k)
        PROVE  s[((x - 1) \div k) + 1][((x - 1) % k) + 1] \in S
    <3> DEFINE a == ((x - 1) \div k) + 1
               b == ((x - 1) % k) + 1
    <3>1. a \in 1..n /\ b \in 1..k
      <4>1. a \in 1..m /\ b \in 1..k
        BY <1>1
      <4> HIDE DEF a, b, Upto
      <4> QED BY <4>1
    <3> HIDE DEF a, b
    <3> QED BY <3>1 DEF a, b
  <2>3. Upto(m) \in [1..(m * k) -> S]
    BY <2>2
  <2> HIDE DEF Upto
  <2> QED BY <2>1, <2>3, AsSeq
<1>3. ASSUME NEW m \in 1..n
      PROVE  s[m] \in Seq(S) /\ Len(s[m]) = k
  <2>1. s[m] \in [1..k -> S]
    OBVIOUS
  <2> QED BY <2>1, AsSeq
<1>4. ASSUME NEW m \in 1..n
      PROVE  /\ Upto(m - 1) \o s[m] \in Seq(S)
             /\ Upto(m) = Upto(m - 1) \o s[m]
  <2>1. m - 1 \in 0..n /\ m \in 0..n
    OBVIOUS
  <2>2. /\ (m - 1) * k \in Nat /\ Upto(m - 1) \in Seq(S) /\ Len(Upto(m - 1)) = (m - 1) * k
        /\ Upto(m) \in Seq(S) /\ Len(Upto(m)) = m * k
        /\ s[m] \in Seq(S) /\ Len(s[m]) = k
    BY <1>2, <1>3, <2>1
  <2>3. (m - 1) * k + k = m * k
    OBVIOUS
  <2> DEFINE one == Upto(m - 1)
             two == Upto(m)
  <2>4. ASSUME NEW x \in 1..(m * k)
        PROVE  two[x] = IF x <= (m - 1) * k THEN one[x] ELSE s[m][x - (m - 1) * k]
    <3>1. two[x] = s[((x - 1) \div k) + 1][((x - 1) % k) + 1]
      OBVIOUS
    <3>2. CASE x <= (m - 1) * k
      <4>1. x \in 1..((m - 1) * k)
        BY <2>2, <3>2
      <4> QED BY <3>1, <3>2, <4>1
    <3>3. CASE ~(x <= (m - 1) * k)
      <4> DEFINE r == x - 1 - (m - 1) * k
      <4>1. r \in 0..(k - 1) /\ x - 1 = (m - 1) * k + r /\ r + 1 = x - (m - 1) * k
        BY <2>2, <2>3, <3>3
      <4> HIDE DEF r
      <4>2. (x - 1) \div k = m - 1 /\ (x - 1) % k = r
        <5> DEFINE y == x - 1
                   p == m - 1
        <5>1. y \in Int /\ p \in Int /\ r \in 0..(k - 1) /\ y = p * k + r
          BY <4>1
        <5> HIDE DEF y, p, one, two, Upto
        <5>2. y \div k = p /\ y % k = r
          BY <5>1, OneQuotient
        <5> QED BY <5>2 DEF y, p
      <4>3. two[x] = s[m][r + 1]
        BY <3>1, <4>2
      <4> QED BY <3>3, <4>1, <4>3
    <3> QED BY <3>2, <3>3
  <2> HIDE DEF one, two
  <2>5. /\ one \o s[m] \in Seq(S) /\ Len(one \o s[m]) = (m - 1) * k + k
        /\ \A x \in 1..((m - 1) * k + k) : (one \o s[m])[x] =
                IF x <= (m - 1) * k THEN one[x] ELSE s[m][x - (m - 1) * k]
    BY <2>2, ConcatProperties DEF one
  <2>6. two \in Seq(S) /\ Len(two) = m * k
    BY <2>2 DEF two
  <2>7. two = one \o s[m]
    <3>1. Len(two) = Len(one \o s[m])
      BY <2>3, <2>5, <2>6
    <3>2. \A x \in 1..Len(two) : two[x] = (one \o s[m])[x]
      BY <2>3, <2>4, <2>5, <2>6
    <3> QED BY <2>5, <2>6, <3>1, <3>2, SeqEqual
  <2> QED BY <2>5, <2>7 DEF one, two
<1>5. Upto(1) = s[1]
  <2>1. Upto(1) \in Seq(S) /\ Len(Upto(1)) = k
    <3>1. 1 \in 0..n /\ 1 * k = k
      OBVIOUS
    <3> HIDE DEF Upto
    <3> QED BY <1>2, <3>1
  <2>2. s[1] \in Seq(S) /\ Len(s[1]) = k
    BY <1>3
  <2> DEFINE two == Upto(1)
  <2>3. ASSUME NEW x \in 1..k PROVE two[x] = s[1][x]
    <3>2. (x - 1) \div k = 0 /\ (x - 1) % k = x - 1
      <4> DEFINE y == x - 1
                 p == 0
      <4>1. y \in Int /\ p \in Int /\ y \in 0..(k - 1) /\ y = p * k + y
        OBVIOUS
      <4> HIDE DEF y, p, two, Upto
      <4>2. y \div k = p /\ y % k = y
        BY <4>1, OneQuotient
      <4> QED BY <4>2 DEF y, p
    <3>3. x \in 1..(1 * k) /\ x - 1 + 1 = x
      OBVIOUS
    <3> QED BY <3>2, <3>3
  <2> HIDE DEF two
  <2>4. two \in Seq(S) /\ Len(two) = k
    BY <2>1 DEF two
  <2>5. two = s[1]
    BY <2>2, <2>3, <2>4, SeqEqual
  <2> QED BY <2>5 DEF two
<1>6. Len(s) = n
  BY AsSeq
<1> DEFINE flatten[i \in 1..Len(s)] == IF i = 1 THEN s[i] ELSE flatten[i - 1] \o s[i]
<1>7. \A i \in 1..n : flatten[i] = IF i = 1 THEN s[i] ELSE flatten[i - 1] \o s[i]
  <2> DEFINE f == [i \in 1..n |-> Upto(i)]
  <2>1. ASSUME NEW i \in 1..n
        PROVE  f[i] = IF i = 1 THEN s[i] ELSE f[i - 1] \o s[i]
    <3>1. f[i] = Upto(i)
      OBVIOUS
    <3>2. CASE i = 1
      BY <1>5, <3>1, <3>2
    <3>3. CASE i # 1
      <4>1. i - 1 \in 1..n
        BY <3>3
      <4>2. f[i - 1] = Upto(i - 1)
        BY <4>1
      <4>3. Upto(i) = Upto(i - 1) \o s[i]
        BY <1>4
      <4> QED BY <3>1, <3>3, <4>2, <4>3
    <3> QED BY <3>2, <3>3
  <2>2. f = [i \in 1..n |-> IF i = 1 THEN s[i] ELSE f[i - 1] \o s[i]]
    <3>1. f = [i \in 1..n |-> f[i]]
      OBVIOUS
    <3> HIDE DEF f
    <3> QED BY <2>1, <3>1
  <2> HIDE DEF f
  <2>3. flatten = [i \in 1..n |-> IF i = 1 THEN s[i] ELSE flatten[i - 1] \o s[i]]
    BY <1>6, <2>2
  <2> HIDE DEF flatten
  <2> QED BY <2>3
<1>8. FlattenSeq(s) = flatten[n]
  BY <1>6 DEF FlattenSeq
<1> HIDE DEF flatten, Upto
<1> DEFINE T == {i \in 1..n : flatten[i] # Upto(i)}
<1>9. ASSUME T # {} PROVE FALSE
  <2>1. T \in SUBSET Nat
    OBVIOUS
  <2>2. PICK i \in T : \A y \in T : i <= y
    <3> HIDE DEF T
    <3> QED BY <1>9, <2>1, Least
  <2>3. i \in 1..n /\ flatten[i] # Upto(i)
    OBVIOUS
  <2>4. CASE i = 1
    BY <1>5, <1>7, <2>3, <2>4
  <2>5. CASE i # 1
    <3>1. i - 1 \in 1..n /\ ~(i <= i - 1)
      BY <2>3, <2>5
    <3>2. flatten[i - 1] = Upto(i - 1)
      BY <2>2, <3>1
    <3> QED BY <1>4, <1>7, <2>3, <2>5, <3>2
  <2> QED BY <2>4, <2>5
<1>10. flatten[n] = Upto(n)
  BY <1>9
<1>11. Upto(n) \in Seq(S) /\ Len(Upto(n)) = n * k
  BY <1>2
<1>12. ASSUME NEW x \in 1..(n * k), NEW y \in Nat, x = y + 1
       PROVE  Upto(n)[x] = s[(y \div k) + 1][(y % k) + 1]
  <2>1. Upto(n)[x] = s[((x - 1) \div k) + 1][((x - 1) % k) + 1]
    BY DEF Upto
  <2>2. x - 1 = y
    BY <1>12
  <2> QED BY <2>1, <2>2
<1> QED BY <1>8, <1>10, <1>11, <1>12 DEF Flattened

-----------------------------------------------------------------------------
(* The file as mkfs made it                                                *)

N == NUM_DIR_BLKS
K == BLKADDRS_PER_BLOCK

LEMMA Sizes ==
    /\ N \in Nat \ {0} /\ K \in Nat \ {0} /\ BLOCK_SIZE \in Nat \ {0}
    /\ MaxOffset \in Nat /\ K <= BLOCK_SIZE
    /\ K * K \in Nat /\ MaxOffset <= (N + K + K * K) * BLOCK_SIZE
BY BmapAssumption, DiskAssumption DEF N, K

Entry(t, i) == IF t = 0 THEN 0 ELSE FirstContents[t][i]

(* The leaf of logical block l, by the level that it is at.                *)
LeafOf(zone, l) ==
    IF l < N THEN [blk |-> zone[l], via |-> {}]
    ELSE IF l < N + K THEN [blk |-> Entry(zone[N], l - N), via |-> {zone[N]}]
    ELSE LET r == l - (N + K)
             t == Entry(zone[N + 1], r \div K)
         IN  [blk |-> Entry(t, r % K), via |-> {t, zone[N + 1]}]

LEMMA OtherVia ==
    \A leaf, blk, via, new :
        leaf = [blk |-> blk, via |-> via] =>
            [leaf EXCEPT !.via = new] = [blk |-> blk, via |-> new]
OBVIOUS

LEMMA FlatIs ==
    ASSUME NEW inode, NEW l \in 0..((N + K + K * K) - 1)
    PROVE  Flat(inode)[l + 1] = LeafOf(inode.i_zone, l)
<1> DEFINE zone == inode.i_zone
           direct == [i \in 1..N |-> [blk |-> zone[i - 1], via |-> {}]]
           single == [i \in 1..K |-> [blk |-> Entry(zone[N], i - 1), via |-> {zone[N]}]]
           table(i) == Entry(zone[N + 1], i - 1)
           leaf(i, j) == [blk |-> Entry(table(i), j - 1), via |-> {table(i), zone[N + 1]}]
           double == [i \in 1..K |-> [j \in 1..K |-> leaf(i, j)]]
           S == {direct[i] : i \in 1..N} \cup {single[i] : i \in 1..K}
                    \cup {leaf(p[1], p[2]) : p \in (1..K) \X (1..K)}
           flat == FlattenSeq(double)
<1>1. Flat(inode) = direct \o single \o flat
  <2>1. single = Leaves(zone[N])
    BY DEF Leaves, Entry, N, K
  <2>2. \A i \in 1..K : Leaves(zone[N + 1])[i] = [blk |-> table(i), via |-> {zone[N + 1]}]
    BY DEF Leaves, Entry, N, K
  <2>3. \A z : \A j \in 1..K : Leaves(z)[j] = [blk |-> Entry(z, j - 1), via |-> {z}]
    BY DEF Leaves, Entry, K
  <2> DEFINE branch(t) == [j \in 1..K |-> [Leaves(t.blk)[j] EXCEPT !.via = @ \cup t.via]]
  <2>4. ASSUME NEW i \in 1..K
        PROVE  branch(Leaves(zone[N + 1])[i]) = [j \in 1..K |-> leaf(i, j)]
    <3> DEFINE t == Leaves(zone[N + 1])[i]
    <3>1. t.blk = table(i) /\ t.via = {zone[N + 1]}
      <4>1. t = [blk |-> table(i), via |-> {zone[N + 1]}]
        BY <2>2
      <4> HIDE DEF t, table, zone
      <4> QED BY <4>1
    <3> HIDE DEF t, table
    <3>2. ASSUME NEW j \in 1..K
          PROVE  [Leaves(t.blk)[j] EXCEPT !.via = @ \cup t.via] = leaf(i, j)
      <4> DEFINE e == Leaves(t.blk)[j]
      <4>1. e = [blk |-> Entry(table(i), j - 1), via |-> {table(i)}]
        BY <2>3, <3>1
      <4> HIDE DEF e, zone
      <4> DEFINE b == Entry(table(i), j - 1)
                 v == {table(i)}
                 w == {table(i), zone[N + 1]}
      <4>2. e = [blk |-> b, via |-> v] /\ e.via \cup t.via = w
        BY <3>1, <4>1
      <4>3. leaf(i, j) = [blk |-> b, via |-> w]
        OBVIOUS
      <4> HIDE DEF b, v, w, leaf
      <4>4. [e EXCEPT !.via = w] = [blk |-> b, via |-> w]
        BY <4>2, OtherVia
      <4>5. [e EXCEPT !.via = e.via \cup t.via] = leaf(i, j)
        BY <4>2, <4>3, <4>4
      <4> QED BY <4>5 DEF e
    <3>3. branch(t) = [j \in 1..K |-> leaf(i, j)]
      BY <3>2
    <3> QED BY <3>3 DEF t
  <2>5. double = [i \in 1..K |-> branch(Leaves(zone[N + 1])[i])]
    BY <2>4
  <2> HIDE DEF single, double
  <2> QED BY <2>1, <2>5 DEF Flat, N, K
<1>2. direct \in Seq(S) /\ Len(direct) = N
  <2>1. direct \in [1..N -> S]
    OBVIOUS
  <2> HIDE DEF direct, S
  <2> QED BY <2>1, AsSeq, Sizes
<1>3. single \in Seq(S) /\ Len(single) = K
  <2>1. single \in [1..K -> S]
    OBVIOUS
  <2> HIDE DEF single, S
  <2> QED BY <2>1, AsSeq, Sizes
<1>4. double \in [1..K -> [1..K -> S]]
  <2>1. ASSUME NEW i \in 1..K, NEW j \in 1..K PROVE leaf(i, j) \in S
    <3>1. <<i, j>> \in (1..K) \X (1..K) /\ leaf(i, j) = leaf(<<i, j>>[1], <<i, j>>[2])
      OBVIOUS
    <3> HIDE DEF leaf, direct, single
    <3> QED BY <3>1
  <2> HIDE DEF leaf, S
  <2> QED BY <2>1
<1>5. /\ flat \in Seq(S) /\ Len(flat) = K * K
      /\ \A x \in 1..(K * K), y \in Nat :
            x = y + 1 => flat[x] = double[(y \div K) + 1][(y % K) + 1]
  <2>1. K \in Nat \ {0}
    BY Sizes
  <2> DEFINE k == K
  <2> HIDE DEF double, S, k
  <2>2. k \in Nat \ {0} /\ double \in [1..k -> [1..k -> S]]
    BY <1>4, <2>1 DEF k
  <2>3. Flattened(FlattenSeq(double), double, k, k, S)
    BY <2>2, FlattenIs
  <2> QED BY <2>3 DEF k, Flattened
<1>6. ASSUME NEW x \in 1..(K * K), NEW r \in Nat, x = r + 1
      PROVE  flat[x] = [blk |-> Entry(Entry(zone[N + 1], r \div K), r % K),
                        via |-> {Entry(zone[N + 1], r \div K), zone[N + 1]}]
  <2>1. r < K * K
    BY <1>6, Sizes
  <2>2. r \div K \in 0..(K - 1) /\ r % K \in 0..(K - 1)
    BY <2>1, Sizes, QuotientBelow
  <2> DEFINE c == r \div K
             d == r % K
             a == c + 1
             b == d + 1
  <2>3. flat[x] = double[a][b]
    BY <1>5, <1>6
  <2> HIDE DEF c, d, flat, double
  <2>4. a \in 1..K /\ b \in 1..K /\ a - 1 = c /\ b - 1 = d
    BY <2>2, Sizes DEF c, d
  <2> HIDE DEF a, b
  <2>5. double[a][b] = leaf(a, b)
    BY <2>4 DEF double
  <2> HIDE DEF zone
  <2>6. leaf(a, b) = [blk |-> Entry(Entry(zone[N + 1], c), d),
                      via |-> {Entry(zone[N + 1], c), zone[N + 1]}]
    BY <2>4
  <2> QED BY <2>3, <2>5, <2>6 DEF c, d
<1>7. flat \in Seq(S) /\ Len(flat) = K * K
  BY <1>5
<1> HIDE DEF flat, S, double, leaf, direct, single
<1> DEFINE front == direct \o single
<1>8. Concatenated(front, direct, single, N, K, S)
  <2>1. Concatenated(front, direct, single, Len(direct), Len(single), S)
    BY <1>2, <1>3, ConcatAt
  <2> HIDE DEF front
  <2> QED BY <1>2, <1>3, <2>1
<1> HIDE DEF front
<1>9. Concatenated(front \o flat, front, flat, N + K, K * K, S)
  <2>1. front \in Seq(S) /\ Len(front) = N + K
    BY <1>8 DEF Concatenated
  <2>2. Concatenated(front \o flat, front, flat, Len(front), Len(flat), S)
    BY <1>7, <2>1, ConcatAt
  <2> QED BY <1>7, <2>1, <2>2
<1> DEFINE i == l + 1
<1>10. i \in Nat /\ i = l + 1 /\ l \in 0..((N + K + K * K) - 1)
  OBVIOUS
<1>11. Flat(inode) = front \o flat
  BY <1>1 DEF front
<1> HIDE DEF i
<1>12. CASE l < N
  <2>1. i \in 1..N /\ i \in 1..(N + K) /\ i - 1 = l
    BY <1>10, <1>12, Sizes
  <2>2. Flat(inode)[i] = direct[i]
    BY <1>8, <1>9, <1>11, <2>1 DEF Concatenated
  <2>3. direct[i] = [blk |-> zone[i - 1], via |-> {}]
    BY <2>1 DEF direct
  <2>4. Flat(inode)[i] = LeafOf(zone, l)
    BY <1>12, <2>1, <2>2, <2>3 DEF LeafOf
  <2> QED BY <2>4 DEF i
<1>13. CASE ~(l < N) /\ l < N + K
  <2> DEFINE j == l - N + 1
  <2>1. j \in 1..K /\ i \in 1..(N + K) /\ i = N + j /\ j - 1 = l - N
    BY <1>10, <1>13, Sizes
  <2> HIDE DEF j
  <2>2. Flat(inode)[i] = single[j]
    BY <1>8, <1>9, <1>10, <1>11, <2>1 DEF Concatenated
  <2>3. single[j] = [blk |-> Entry(zone[N], j - 1), via |-> {zone[N]}]
    BY <2>1 DEF single
  <2>4. Flat(inode)[i] = LeafOf(zone, l)
    BY <1>13, <2>1, <2>2, <2>3 DEF LeafOf
  <2> QED BY <2>4 DEF i
<1>14. CASE ~(l < N + K)
  <2> DEFINE r == l - (N + K)
             j == r + 1
  <2>1. r \in Nat /\ j \in 1..(K * K) /\ j = r + 1 /\ i = N + K + j /\ ~(l < N)
    BY <1>10, <1>14, Sizes
  <2> HIDE DEF j, r
  <2>2. Flat(inode)[i] = flat[j]
    BY <1>9, <1>10, <1>11, <2>1 DEF Concatenated
  <2>3. flat[j] = [blk |-> Entry(Entry(zone[N + 1], r \div K), r % K),
                   via |-> {Entry(zone[N + 1], r \div K), zone[N + 1]}]
    BY <1>6, <2>1
  <2>4. LeafOf(zone, l) = [blk |-> Entry(Entry(zone[N + 1], r \div K), r % K),
                           via |-> {Entry(zone[N + 1], r \div K), zone[N + 1]}]
    BY <1>14, <2>1 DEF LeafOf, r
  <2>5. Flat(inode)[i] = LeafOf(zone, l)
    BY <2>2, <2>3, <2>4
  <2> QED BY <2>5 DEF i
<1> QED BY <1>12, <1>13, <1>14

(* The blocks that a position may be in.                                   *)
LogicalBlocks == 0..((N + K + K * K) - 1)

LEMMA BlockOf ==
    ASSUME NEW p \in Positions
    PROVE  p \in Nat /\ p \div BLOCK_SIZE \in LogicalBlocks
           /\ p % BLOCK_SIZE \in 0..(BLOCK_SIZE - 1)
<1> DEFINE m == N + K + K * K
           b == BLOCK_SIZE
<1>1. m \in Nat /\ b \in Nat \ {0} /\ p \in Nat /\ p < m * b
  BY Sizes DEF Positions
<1>2. LogicalBlocks = 0..(m - 1)
  BY DEF LogicalBlocks
<1> HIDE DEF m, b
<1>3. p \div b \in 0..(m - 1) /\ p % b \in 0..(b - 1)
  BY <1>1, QuotientBelow
<1> QED BY <1>1, <1>2, <1>3 DEF b

LEMMA PlaceIs ==
    ASSUME NEW f \in DOMAIN Files, NEW p \in Positions
    PROVE  Place[f][p] = LeafOf(Files[f].i_zone, p \div BLOCK_SIZE)
<1> DEFINE l == p \div BLOCK_SIZE
<1>1. Place[f][p] = Flat(Files[f])[l + 1]
  BY DEF Place
<1>2. l \in 0..((N + K + K * K) - 1)
  BY BlockOf DEF LogicalBlocks
<1> HIDE DEF l
<1>3. Flat(Files[f])[l + 1] = LeafOf(Files[f].i_zone, l)
  BY <1>2, FlatIs
<1> QED BY <1>1, <1>3 DEF l

-----------------------------------------------------------------------------
(* minix3_bmap()                                                           *)

LEMMA Levels ==
    ASSUME NEW l \in LogicalBlocks
    PROVE  /\ l < N =>
                /\ _lblk2indlevel(l) = 0 /\ _lblk2idx(l) = l
           /\ ~(l < N) /\ l < N + K =>
                /\ _lblk2indlevel(l) = 1 /\ _lblk2idx(l) = N
                /\ blkaddr_idx(l, 1) = l - N
           /\ ~(l < N + K) =>
                /\ _lblk2indlevel(l) = 2 /\ _lblk2idx(l) = N + 1
                /\ blkaddr_idx(l, 2) = (l - (N + K)) \div K
                /\ blkaddr_idx(l, 1) = (l - (N + K)) % K
<1>1. l \in Nat /\ l < N + K + K * K
  BY Sizes DEF LogicalBlocks
<1>2. ASSUME l < N
      PROVE  _lblk2indlevel(l) = 0 /\ _lblk2idx(l) = l
  <2>1. _lblk2indlevel(l) = 0
    <3>1. ~(l - N \in 0..(K - 1))
      BY <1>1, <1>2, Sizes
    <3> QED BY <1>2, <3>1 DEF _lblk2indlevel, N, K
  <2>2. ~(l > N - 1)
    BY <1>1, <1>2, Sizes
  <2>3. _lblk2idx(l) = l + 0
    BY <2>1, <2>2 DEF _lblk2idx, N
  <2> QED BY <1>1, <2>1, <2>3
<1>3. ASSUME NEW r \in Int, r >= 0, r < K
      PROVE  (r \div 1) % K = r
  <2> DEFINE one == 1
             p == 0
  <2>1. one \in Nat \ {0} /\ r = r * one + p /\ p \in 0..(one - 1)
    BY <1>3
  <2> HIDE DEF one, p
  <2>2. r \div one = r
    BY <2>1, OneQuotient
  <2> DEFINE q == 0
  <2>3. q \in Int /\ r = q * K + r /\ r \in 0..(K - 1) /\ K \in Nat \ {0}
    BY <1>3, Sizes
  <2> HIDE DEF q
  <2>4. r % K = r
    BY <2>3, OneQuotient
  <2> QED BY <2>2, <2>4 DEF one
<1>4. ASSUME ~(l < N), l < N + K
      PROVE  _lblk2indlevel(l) = 1 /\ _lblk2idx(l) = N /\ blkaddr_idx(l, 1) = l - N
  <2> DEFINE r == l - N
  <2>1. r \in 0..(K - 1) /\ r \in Int /\ r >= 0 /\ r < K /\ l > N - 1
    BY <1>1, <1>4, Sizes
  <2>2. _lblk2indlevel(l) = 1
    BY <1>4, <2>1 DEF _lblk2indlevel, N, K
  <2>3. _lblk2idx(l) = N
    <3>1. _lblk2idx(l) = N - 1 + 1
      BY <2>1, <2>2 DEF _lblk2idx, N
    <3> QED BY <3>1, Sizes
  <2>4. _starting_lblk_num(1) = N
    BY DEF _starting_lblk_num, N
  <2>5. blkaddr_idx(l, 1) = (r \div 1) % K
    BY <2>2, <2>4 DEF blkaddr_idx, K
  <2> HIDE DEF r
  <2>6. (r \div 1) % K = r
    BY <1>3, <2>1
  <2> QED BY <2>2, <2>3, <2>5, <2>6 DEF r
<1>5. ASSUME ~(l < N + K)
      PROVE  /\ _lblk2indlevel(l) = 2 /\ _lblk2idx(l) = N + 1
             /\ blkaddr_idx(l, 2) = (l - (N + K)) \div K
             /\ blkaddr_idx(l, 1) = (l - (N + K)) % K
  <2> DEFINE r == l - (N + K)
  <2>1. r \in Nat /\ r < K * K /\ l > N - 1 /\ ~(l < N) /\ ~(l - N \in 0..(K - 1))
    BY <1>1, <1>5, Sizes
  <2>2. _lblk2indlevel(l) = 2
    BY <2>1 DEF _lblk2indlevel, N, K
  <2>3. _lblk2idx(l) = N + 1
    <3>1. _lblk2idx(l) = N - 1 + 2
      BY <2>1, <2>2 DEF _lblk2idx, N
    <3> QED BY <3>1, Sizes
  <2>4. _starting_lblk_num(2) = N + K
    BY DEF _starting_lblk_num, N, K
  <2>5. blkaddr_idx(l, 1) = (r \div 1) % K /\ blkaddr_idx(l, 2) = (r \div K) % K
    BY <2>2, <2>4 DEF blkaddr_idx, K
  <2> HIDE DEF r
  <2>6. (r \div 1) % K = r % K
    <3> DEFINE one == 1
               p == 0
    <3>1. one \in Nat \ {0} /\ r = r * one + p /\ p \in 0..(one - 1) /\ r \in Int
      BY <2>1
    <3> HIDE DEF one, p
    <3>2. r \div one = r
      BY <3>1, OneQuotient
    <3> QED BY <3>2 DEF one
  <2>7. (r \div K) % K = r \div K
    <3> DEFINE d == r \div K
               q == 0
    <3>1. d \in 0..(K - 1)
      BY <2>1, Sizes, QuotientBelow
    <3> HIDE DEF d
    <3>2. q \in Int /\ d \in Int /\ d = q * K + d /\ K \in Nat \ {0}
      BY <3>1, Sizes
    <3> HIDE DEF q
    <3>3. d % K = d
      BY <3>1, <3>2, OneQuotient
    <3> QED BY <3>3 DEF d
  <2> QED BY <2>2, <2>3, <2>5, <2>6, <2>7 DEF r
<1> QED BY <1>2, <1>4, <1>5

(* What the recursion over the levels comes to.                            *)
LEMMA BmapUnfolds ==
    ASSUME NEW l \in LogicalBlocks
    PROVE  /\ l < N => minix3_bmap(l) = {Address(Inode.i_zone[l], TRUE)}
           /\ ~(l < N) /\ l < N + K =>
                minix3_bmap(l) = Follow(Address(Inode.i_zone[N], TRUE), l - N)
           /\ ~(l < N + K) =>
                minix3_bmap(l) =
                    UNION {Follow(a, (l - (N + K)) % K) :
                            a \in Follow(Address(Inode.i_zone[N + 1], TRUE),
                                         (l - (N + K)) \div K)}
<1> DEFINE level == _lblk2indlevel(l)
           a0 == Address(Inode.i_zone[_lblk2idx(l)], TRUE)
           first == {a0}
           next(A, k) == UNION {Follow(a, blkaddr_idx(l, k)) : a \in A}
           at[k \in 0..level] ==
              IF k = level THEN first
              ELSE UNION {Follow(a, blkaddr_idx(l, k + 1)) : a \in at[k + 1]}
           two == next(first, 2)
           f == [k \in 0..level |->
                    IF k = level THEN first
                    ELSE IF k = 1 THEN next(first, 2)
                    ELSE IF level = 1 THEN next(first, 1) ELSE next(two, 1)]
<1>1. minix3_bmap(l) = at[0]
  BY DEF minix3_bmap
<1>2. level \in {0, 1, 2}
  BY Levels
<1> HIDE DEF level, first
<1>3. ASSUME NEW k \in 0..level
      PROVE  f[k] = IF k = level THEN first
                    ELSE UNION {Follow(a, blkaddr_idx(l, k + 1)) : a \in f[k + 1]}
  <2>1. CASE k = level
    BY <2>1
  <2>2. CASE k # level /\ k = 1
    <3>1. level = 2 /\ f[2] = first /\ k + 1 = 2
      BY <1>2, <2>2
    <3>2. f[k] = next(first, 2)
      BY <2>2
    <3> HIDE DEF f
    <3> QED BY <2>2, <3>1, <3>2
  <2>3. CASE k # level /\ k # 1 /\ level = 1
    <3>1. f[1] = first /\ k + 1 = 1
      BY <1>2, <2>3
    <3>2. f[k] = next(first, 1)
      BY <2>3
    <3> HIDE DEF f
    <3> QED BY <2>3, <3>1, <3>2
  <2>4. CASE k # level /\ k # 1 /\ level # 1
    <3>1. level = 2 /\ 1 \in 0..level /\ k + 1 = 1
      BY <1>2, <2>4
    <3>2. f[1] = two
      BY <3>1
    <3>3. f[k] = next(two, 1)
      BY <2>4
    <3> HIDE DEF f, two
    <3> QED BY <2>4, <3>1, <3>2, <3>3
  <2> QED BY <2>1, <2>2, <2>3, <2>4
<1>4. f = [k \in 0..level |->
            IF k = level THEN first
            ELSE UNION {Follow(a, blkaddr_idx(l, k + 1)) : a \in f[k + 1]}]
  <2>1. f = [k \in 0..level |-> f[k]]
    OBVIOUS
  <2> HIDE DEF f
  <2> QED BY <1>3, <2>1
<1> HIDE DEF f
<1>5. at = [k \in 0..level |->
            IF k = level THEN first
            ELSE UNION {Follow(a, blkaddr_idx(l, k + 1)) : a \in at[k + 1]}]
  BY <1>4
<1> HIDE DEF at
<1>6. \A k \in 0..level :
        at[k] = IF k = level THEN first
                ELSE UNION {Follow(a, blkaddr_idx(l, k + 1)) : a \in at[k + 1]}
  BY <1>5
<1>7. at[level] = first
  <2>1. level \in 0..level
    BY <1>2
  <2> QED BY <1>6, <2>1
<1>8. l \in Int
  BY Sizes DEF LogicalBlocks
<1>9. ASSUME l < N
      PROVE  minix3_bmap(l) = {Address(Inode.i_zone[l], TRUE)}
  <2>1. level = 0 /\ _lblk2idx(l) = l
    BY <1>9, Levels DEF level
  <2>2. first = {Address(Inode.i_zone[l], TRUE)}
    BY <2>1 DEF first
  <2> QED BY <1>1, <1>7, <2>1, <2>2
<1>10. ASSUME ~(l < N), l < N + K
       PROVE  minix3_bmap(l) = Follow(Address(Inode.i_zone[N], TRUE), l - N)
  <2> DEFINE i1 == l - N
             a1 == Address(Inode.i_zone[N], TRUE)
  <2>1. level = 1 /\ _lblk2idx(l) = N /\ blkaddr_idx(l, 1) = i1
    BY <1>10, Levels DEF level
  <2>2. first = {a1}
    BY <2>1 DEF first
  <2> HIDE DEF a1, i1
  <2>3. at[0] = UNION {Follow(a, i1) : a \in at[1]}
    <3>1. 0 \in 0..level /\ 0 # level /\ 0 + 1 = 1
      BY <2>1
    <3> QED BY <1>6, <2>1, <3>1
  <2>4. at[1] = {a1}
    BY <1>7, <2>1, <2>2
  <2>5. UNION {Follow(a, i1) : a \in {a1}} = Follow(a1, i1)
    OBVIOUS
  <2>6. minix3_bmap(l) = Follow(a1, i1)
    BY <1>1, <2>3, <2>4, <2>5
  <2> QED BY <2>6 DEF a1, i1
<1>11. ASSUME ~(l < N + K)
       PROVE  minix3_bmap(l) =
                    UNION {Follow(a, (l - (N + K)) % K) :
                            a \in Follow(Address(Inode.i_zone[N + 1], TRUE),
                                         (l - (N + K)) \div K)}
  <2> DEFINE i1 == (l - (N + K)) % K
             i2 == (l - (N + K)) \div K
             a2 == Address(Inode.i_zone[N + 1], TRUE)
  <2>1. level = 2 /\ _lblk2idx(l) = N + 1 /\ blkaddr_idx(l, 1) = i1 /\ blkaddr_idx(l, 2) = i2
    BY <1>11, Levels DEF level
  <2>2. first = {a2}
    BY <2>1 DEF first
  <2> HIDE DEF i1, i2, a2
  <2>3. at[0] = UNION {Follow(a, i1) : a \in at[1]}
    <3>1. 0 \in 0..level /\ 0 # level /\ 0 + 1 = 1
      BY <2>1
    <3> QED BY <1>6, <2>1, <3>1
  <2>4. at[1] = UNION {Follow(a, i2) : a \in at[2]}
    <3>1. 1 \in 0..level /\ 1 # level /\ 1 + 1 = 2
      BY <2>1
    <3> QED BY <1>6, <2>1, <3>1
  <2>5. at[2] = {a2}
    BY <1>7, <2>1, <2>2
  <2>6. UNION {Follow(a, i2) : a \in {a2}} = Follow(a2, i2)
    OBVIOUS
  <2>7. at[1] = Follow(a2, i2)
    BY <2>4, <2>5, <2>6
  <2>8. minix3_bmap(l) = UNION {Follow(a, i1) : a \in Follow(a2, i2)}
    BY <1>1, <2>3, <2>7
  <2> QED BY <2>8 DEF i1, i2, a2
<1>12. N + K \in Int /\ (l < N => l < N + K)
  BY <1>8, Sizes
<1> QED BY <1>9, <1>10, <1>11, <1>12

-----------------------------------------------------------------------------
(* The inductive invariant                                                 *)

CallType ==
    [op : {"read", "write"}, fd : Fds, count : 0..Len(Data), left : 0..Len(Data),
     buf : Seq(Byte)]

FteType == [Fds -> [inode : DOMAIN Files, offset : 0..MaxOffset]]

Types ==
    /\ store \in [Blocks -> Contents]
    /\ fte \in FteType
    /\ dropped \in 0..TooMany
    /\ damaged \in BOOLEAN
    /\ call \in CallType \cup {[op |-> "spin"]} \cup {Idle(r) : r \in -1..MaxOffset}

InProgress == call.op \in {"read", "write"}

(* What a call has moved is behind the offset, what a write has yet to     *)
(* move fits before MaxOffset.                                             *)
CallInv ==
    InProgress =>
        /\ call.left <= call.count
        /\ call.count - call.left <= Offset
        /\ call.op = "read" => Len(call.buf) = call.count - call.left
        /\ call.op = "write" => Offset + call.left <= MaxOffset

(* No table of any file has been written to.                               *)
TablesKept ==
    ~damaged =>
        \A f \in DOMAIN Files, p \in Positions :
            \A t \in Place[f][p].via \ {BOOT} : store[t] = FirstContents[t]

Inv == Types /\ CallInv /\ TablesKept
-----------------------------------------------------------------------------
(* Blocks taken out, and the way to the block of an offset                 *)

LEMMA Constants ==
    /\ 0 \in Byte /\ Byte \subseteq Nat /\ Data \in Seq(Byte) /\ Len(Data) \in Nat
    /\ FirstContents \in [Blocks -> Contents] /\ Garbage \subseteq Contents
    /\ \A f \in DOMAIN Files : Files[f].i_size \in 0..MaxOffset
    /\ \A n \in Counts : n \in 0..Len(Data)
    /\ Blocks \subseteq Nat /\ TooMany \in Nat
BY FileDataAssumption DEF Byte, Blocks

(* What asking for a block may come to once the pool is exhausted.         *)
NoAnswer(c) == Exhausted /\ c \in {[res |-> "spin"], [res |-> "wild"]}

Fetched(c, n) ==
    \/ NoAnswer(c)
    \/ c = [res |-> "spin"] /\ n = SUPERBLOCK
    \/ /\ c = [res |-> "ok", good |-> TRUE, data |-> store[n]]
       /\ n \in Blocks /\ n # SUPERBLOCK /\ store[n] \in Contents
    \/ /\ n \in Bad \cup {BOOT} \/ n \notin Blocks
       /\ n # SUPERBLOCK
       /\ \E g \in Contents : c = [res |-> "ok", good |-> FALSE, data |-> g]
    \/ /\ n \in Bad \/ n \notin Blocks
       /\ n # SUPERBLOCK
       /\ c = [res |-> "fail"]

LEMMA GetIs ==
    ASSUME store \in [Blocks -> Contents], NEW n, NEW c \in blkpool_getblk(n)
    PROVE  Fetched(c, n)
<1>1. CASE n = SUPERBLOCK
  BY <1>1 DEF blkpool_getblk, Fetched
<1>2. CASE n # SUPERBLOCK
  <2>1. \/ n \in Blocks /\ c = [res |-> "ok", good |-> TRUE, data |-> store[n]]
        \/ Unreliable(n) /\ \E g \in Garbage : c = [res |-> "ok", good |-> FALSE, data |-> g]
        \/ (n \in Bad \/ n \notin Blocks) /\ c = [res |-> "fail"]
        \/ NoAnswer(c)
    BY <1>2 DEF blkpool_getblk, NoAnswer
  <2>2. CASE n \in Blocks /\ c = [res |-> "ok", good |-> TRUE, data |-> store[n]]
    BY <1>2, <2>2 DEF Fetched
  <2>3. CASE Unreliable(n) /\ \E g \in Garbage : c = [res |-> "ok", good |-> FALSE, data |-> g]
    BY <1>2, <2>3, Constants DEF Fetched, Unreliable
  <2>4. CASE (n \in Bad \/ n \notin Blocks) /\ c = [res |-> "fail"]
    BY <1>2, <2>4 DEF Fetched
  <2>5. CASE NoAnswer(c)
    BY <2>5 DEF Fetched
  <2> QED BY <2>1, <2>2, <2>3, <2>4, <2>5
<1> QED BY <1>1, <1>2

(* Where a walk may get to once a table was not read well.                 *)
Doubtful == {Address(n, FALSE) : n \in Nat} \cup {[res |-> "fail"], [res |-> "spin"]}

LEMMA FollowIs ==
    ASSUME store \in [Blocks -> Contents],
           NEW n \in Nat, NEW sure \in BOOLEAN, NEW i \in 0..(K - 1),
           NEW a \in Follow(Address(n, sure), i)
    PROVE  \/ /\ sure = TRUE /\ n \in Blocks /\ n # BOOT
              /\ a = Address(store[n][i], TRUE)
           \/ /\ sure = FALSE \/ n \in Bad \cup {BOOT} \/ n \notin Blocks \ {SUPERBLOCK}
              /\ a \in Doubtful
           \/ NoAnswer(a)
<1> DEFINE at == Address(n, sure)
<1>1. at.res = "ok" /\ at.blk = n /\ at.sure = sure
  BY DEF Address
<1>2. PICK c \in blkpool_getblk(n) :
        a = IF c.res = "ok" THEN Address(c.data[i], sure /\ c.good /\ n # BOOT) ELSE c
  <2> HIDE DEF at
  <2> QED BY <1>1 DEF Follow, at
<1>3. Fetched(c, n)
  BY GetIs
<1>4. ASSUME NEW g \in Contents PROVE g[i] \in Nat
  <2>1. i \in 0..(BLOCK_SIZE - 1)
    BY Sizes
  <2>2. g[i] \in Byte
    BY <2>1 DEF Contents
  <2> QED BY <2>2, Constants
<1>5. CASE c = [res |-> "spin"] /\ n = SUPERBLOCK
  <2>1. c.res # "ok"
    BY <1>5
  <2> QED BY <1>2, <1>5, <2>1 DEF Doubtful
<1>6. CASE /\ c = [res |-> "ok", good |-> TRUE, data |-> store[n]]
           /\ n \in Blocks /\ n # SUPERBLOCK /\ store[n] \in Contents
  <2>1. c.res = "ok" /\ c.good = TRUE /\ c.data = store[n]
    BY <1>6
  <2>2. a = Address(store[n][i], sure /\ n # BOOT) /\ store[n][i] \in Nat
    BY <1>2, <1>4, <1>6, <2>1
  <2>3. CASE sure = TRUE /\ n # BOOT
    BY <1>6, <2>2, <2>3
  <2>4. CASE ~(sure = TRUE /\ n # BOOT)
    <3>1. (sure /\ n # BOOT) = FALSE
      BY <2>4
    <3> QED BY <2>2, <2>4, <3>1 DEF Doubtful
  <2> QED BY <2>3, <2>4
<1>7. CASE /\ n \in Bad \cup {BOOT} \/ n \notin Blocks
           /\ n # SUPERBLOCK
           /\ \E g \in Contents : c = [res |-> "ok", good |-> FALSE, data |-> g]
  <2>1. PICK g \in Contents : c = [res |-> "ok", good |-> FALSE, data |-> g]
    BY <1>7
  <2>2. c.res = "ok" /\ c.good = FALSE /\ c.data = g
    BY <2>1
  <2>3. (sure /\ c.good /\ n # BOOT) = FALSE
    BY <2>2
  <2>4. a = Address(g[i], FALSE) /\ g[i] \in Nat
    BY <1>2, <1>4, <2>2, <2>3
  <2> QED BY <1>7, <2>4 DEF Doubtful
<1>8. CASE /\ n \in Bad \/ n \notin Blocks
           /\ n # SUPERBLOCK
           /\ c = [res |-> "fail"]
  <2>1. c.res # "ok"
    BY <1>8
  <2> QED BY <1>2, <1>8, <2>1 DEF Doubtful
<1>9. CASE NoAnswer(c)
  <2>1. c.res # "ok"
    BY <1>9 DEF NoAnswer
  <2> QED BY <1>2, <1>9, <2>1
<1> QED BY <1>3, <1>5, <1>6, <1>7, <1>8, <1>9 DEF Fetched

LEMMA FollowDoubt ==
    ASSUME store \in [Blocks -> Contents],
           NEW a \in Doubtful, NEW i \in 0..(K - 1), NEW b \in Follow(a, i)
    PROVE  b \in Doubtful \/ NoAnswer(b)
<1>1. CASE \E n \in Nat : a = Address(n, FALSE)
  <2>1. PICK n \in Nat : a = Address(n, FALSE)
    BY <1>1
  <2> DEFINE sure == FALSE
  <2>2. b \in Follow(Address(n, sure), i) /\ sure \in BOOLEAN
    BY <2>1
  <2>3. sure # TRUE
    OBVIOUS
  <2> HIDE DEF sure
  <2> QED BY <2>2, <2>3, FollowIs
<1>2. CASE a \in {[res |-> "fail"], [res |-> "spin"]}
  <2>1. a.res # "ok"
    BY <1>2
  <2>2. b = a
    BY <2>1 DEF Follow
  <2> QED BY <2>2
<1> QED BY <1>1, <1>2 DEF Doubtful

LEMMA FollowNoAnswer ==
    ASSUME NEW a, NoAnswer(a), NEW i, NEW b \in Follow(a, i)
    PROVE  NoAnswer(b)
<1>1. a.res # "ok"
  BY DEF NoAnswer
<1> QED BY <1>1 DEF Follow

(* Where a file is: what DiskAssumption says, for the steps of the proofs. *)
LEMMA PlaceSound ==
    ASSUME NEW f \in DOMAIN Files, NEW p \in Positions
    PROVE  /\ Place[f][p].blk \in Blocks \ {SUPERBLOCK}
           /\ Place[f][p].via \subseteq Blocks \ {SUPERBLOCK}
           /\ Place[f][p].blk # 0 =>
                \A g \in DOMAIN Files, q \in Positions :
                    /\ Place[f][p].blk \notin Place[g][q].via
                    /\ Place[f][p].blk = Place[g][q].blk =>
                            f = g /\ p \div BLOCK_SIZE = q \div BLOCK_SIZE
<1> DEFINE leaf == Place[f][p]
<1>1. {leaf.blk} \cup leaf.via \subseteq Blocks \ {SUPERBLOCK}
  BY DiskAssumption
<1>2. leaf.blk # 0 =>
        \A g \in DOMAIN Files, q \in Positions :
            /\ leaf.blk \notin Place[g][q].via
            /\ leaf.blk = Place[g][q].blk =>
                    f = g /\ p \div BLOCK_SIZE = q \div BLOCK_SIZE
  BY DiskAssumption
<1> QED BY <1>1, <1>2

BadWayOf(f, p) == Place[f][p].via \cap (Bad \cup {BOOT}) # {}

(* minix3_bmap() finds the block of the offset, unless a table on the way  *)
(* is bad or does not exist, or the pool is exhausted.                     *)
LEMMA BmapIs ==
    ASSUME Types, TablesKept, ~damaged, InProgress, Offset \in Positions,
           NEW a \in minix3_bmap(lblk)
    PROVE  \/ a = Address(Place[fte[call.fd].inode][Offset].blk, TRUE)
           \/ a \in Doubtful /\ BadWayOf(fte[call.fd].inode, Offset)
           \/ NoAnswer(a)
<1> DEFINE f == fte[call.fd].inode
           p == Offset
           l == lblk
           zone == Inode.i_zone
           leaf == Place[f][p]
           r == l - (N + K)
<1>1. f \in DOMAIN Files /\ zone = Files[f].i_zone
  <2>1. call \in CallType
    <3>1. ASSUME NEW x \in -1..MaxOffset PROVE Idle(x).op = "none"
      BY DEF Idle
    <3> QED BY <3>1 DEF Types, InProgress
  <2>2. fte[call.fd] \in [inode : DOMAIN Files, offset : 0..MaxOffset]
    BY <2>1 DEF Types, FteType, CallType
  <2> QED BY <2>2 DEF Inode
<1>2. l = p \div BLOCK_SIZE /\ l \in LogicalBlocks
  BY BlockOf DEF lblk
<1>3. leaf = LeafOf(zone, l)
  BY <1>1, <1>2, PlaceIs
<1>4. \A z \in 0..(N + 1) : zone[z] \in Blocks
  BY <1>1, DiskAssumption DEF N
<1>5. \A t \in leaf.via \ {BOOT} : store[t] = FirstContents[t]
  BY <1>1 DEF TablesKept
<1>6. leaf.via \subseteq Blocks \ {SUPERBLOCK}
  BY <1>1, PlaceSound
<1>7. store \in [Blocks -> Contents]
  BY DEF Types
<1>8. l \in Int /\ 0 <= l /\ l < N + K + K * K
  BY <1>2, Sizes DEF LogicalBlocks
<1> SUFFICES \/ a = Address(leaf.blk, TRUE)
             \/ a \in Doubtful /\ leaf.via \cap (Bad \cup {BOOT}) # {}
             \/ NoAnswer(a)
  BY DEF BadWayOf
<1> HIDE DEF f, p, l, zone, leaf
<1>9. a \in minix3_bmap(l)
  BY DEF l
<1>10. ASSUME NEW t \in leaf.via, NEW i \in 0..(K - 1), NEW b \in Follow(Address(t, TRUE), i)
       PROVE  \/ b = Address(Entry(t, i), TRUE)
              \/ b \in Doubtful /\ leaf.via \cap (Bad \cup {BOOT}) # {}
              \/ NoAnswer(b)
  <2> DEFINE sure == TRUE
  <2>1. t \in Nat /\ t \in Blocks \ {SUPERBLOCK} /\ sure \in BOOLEAN
    BY <1>6, Constants
  <2>2. b \in Follow(Address(t, sure), i)
    OBVIOUS
  <2>3. sure # FALSE
    OBVIOUS
  <2> HIDE DEF sure
  <2>4. \/ t # BOOT /\ b = Address(store[t][i], TRUE)
        \/ t \in Bad \cup {BOOT} /\ b \in Doubtful
        \/ NoAnswer(b)
    BY <1>7, <2>1, <2>2, <2>3, FollowIs
  <2>5. CASE t # BOOT /\ b = Address(store[t][i], TRUE)
    <3>1. store[t] = FirstContents[t]
      BY <1>5, <2>5
    <3> QED BY <2>5, <3>1 DEF Entry, BOOT
  <2> QED BY <2>4, <2>5
<1>11. CASE l < N
  <2>1. a = Address(zone[l], TRUE)
    BY <1>2, <1>9, <1>11, BmapUnfolds DEF zone
  <2>2. leaf = [blk |-> zone[l], via |-> {}]
    BY <1>3, <1>11 DEF LeafOf
  <2> QED BY <2>1, <2>2
<1>12. CASE ~(l < N) /\ l < N + K
  <2> DEFINE i == l - N
             t == zone[N]
  <2>1. i \in 0..(K - 1)
    BY <1>8, <1>12, Sizes
  <2>2. a \in Follow(Address(t, TRUE), i)
    BY <1>2, <1>9, <1>12, BmapUnfolds DEF zone
  <2>3. leaf = [blk |-> Entry(t, i), via |-> {t}]
    BY <1>3, <1>12 DEF LeafOf
  <2> HIDE DEF i, t
  <2>4. t \in leaf.via /\ leaf.blk = Entry(t, i)
    BY <2>3
  <2> QED BY <1>10, <2>1, <2>2, <2>4
<1>13. CASE ~(l < N + K)
  <2> DEFINE i == r % K
             j == r \div K
             t == zone[N + 1]
             u == Entry(t, j)
  <2>1. r \in Nat /\ r < K * K /\ ~(l < N)
    BY <1>8, <1>13, Sizes
  <2>2. a \in UNION {Follow(b, i) : b \in Follow(Address(t, TRUE), j)}
    BY <1>2, <1>9, <1>13, BmapUnfolds DEF zone
  <2>3. leaf = [blk |-> Entry(u, i), via |-> {u, t}]
    BY <1>3, <1>13, <2>1 DEF LeafOf
  <2> HIDE DEF r
  <2>4. i \in 0..(K - 1) /\ j \in 0..(K - 1)
    BY <2>1, Sizes, QuotientBelow
  <2> HIDE DEF i, j, t, u
  <2>5. PICK b \in Follow(Address(t, TRUE), j) : a \in Follow(b, i)
    BY <2>2
  <2>6. t \in leaf.via /\ u \in leaf.via /\ leaf.blk = Entry(u, i)
    BY <2>3
  <2>7. \/ b = Address(u, TRUE)
        \/ b \in Doubtful /\ leaf.via \cap (Bad \cup {BOOT}) # {}
        \/ NoAnswer(b)
    BY <1>10, <2>4, <2>6 DEF u
  <2>8. CASE b = Address(u, TRUE)
    BY <1>10, <2>4, <2>5, <2>6, <2>8
  <2>9. CASE b \in Doubtful /\ leaf.via \cap (Bad \cup {BOOT}) # {}
    BY <1>7, <2>4, <2>5, <2>9, FollowDoubt
  <2>10. CASE NoAnswer(b)
    BY <2>5, <2>10, FollowNoAnswer
  <2> QED BY <2>7, <2>8, <2>9, <2>10
<1> QED BY <1>8, <1>11, <1>12, <1>13, Sizes

-----------------------------------------------------------------------------
(* The bytes of one transfer                                               *)

LEMMA SameBlock ==
    ASSUME NEW k \in Nat \ {0}, NEW p \in Int, NEW q \in Int
    PROVE  /\ \A m \in Nat : (p % k) + m <= k /\ q \in p..(p + m - 1) => q \div k = p \div k
           /\ q \div k = p \div k => q - p = (q % k) - (p % k)
<1> DEFINE a == p \div k
           b == p % k
           c == q \div k
           d == q % k
<1>1. a \in Int /\ b \in 0..(k - 1) /\ p = a * k + b
  BY DivMod
<1>2. c \in Int /\ d \in 0..(k - 1) /\ q = c * k + d
  BY DivMod
<1>3. ASSUME NEW m \in Nat, b + m <= k, q \in p..(p + m - 1) PROVE c = a
  <2> DEFINE s == b + (q - p)
  <2> HIDE DEF a, b, c
  <2>1. s \in 0..(k - 1) /\ q = a * k + s /\ a \in Int
    BY <1>1, <1>3
  <2> HIDE DEF s
  <2>2. q \div k = a
    BY <2>1, OneQuotient
  <2> QED BY <2>2 DEF c
<1>4. ASSUME c = a PROVE q - p = d - b
  <2> DEFINE e == a * k
  <2>1. e \in Int /\ p = e + b /\ q = e + d
    BY <1>1, <1>2, <1>4
  <2> HIDE DEF a, b, c, d, e
  <2> QED BY <1>1, <1>2, <2>1
<1> QED BY <1>3, <1>4

(* The call in progress, its file and its offset.                          *)
LEMMA InCall ==
    ASSUME Types, InProgress
    PROVE  /\ call \in CallType /\ call.fd \in Fds
           /\ call.count \in 0..Len(Data) /\ call.left \in 0..Len(Data)
           /\ call.buf \in Seq(Byte)
           /\ fte[call.fd].inode \in DOMAIN Files /\ Inode = Files[fte[call.fd].inode]
           /\ Offset \in 0..MaxOffset /\ Offset \in Nat /\ MaxOffset \in Nat
           /\ Inode.i_size \in 0..MaxOffset /\ Inode.i_size \in Nat
           /\ lblk \in Int /\ loff \in 0..(BLOCK_SIZE - 1)
           /\ Offset = lblk * BLOCK_SIZE + loff
<1>1. call \in CallType
  <2>1. ASSUME NEW x \in -1..MaxOffset PROVE Idle(x).op = "none"
    BY DEF Idle
  <2> QED BY <2>1 DEF Types, InProgress
<1>2. /\ call.fd \in Fds /\ call.count \in 0..Len(Data) /\ call.left \in 0..Len(Data)
      /\ call.buf \in Seq(Byte)
  BY <1>1 DEF CallType
<1>3. fte[call.fd] \in [inode : DOMAIN Files, offset : 0..MaxOffset]
  BY <1>2 DEF Types, FteType
<1>4. /\ fte[call.fd].inode \in DOMAIN Files /\ Inode = Files[fte[call.fd].inode]
      /\ Offset \in 0..MaxOffset
  BY <1>3 DEF Inode, Offset
<1>5. Inode.i_size \in 0..MaxOffset
  BY <1>4, Constants
<1>6. Offset \in Nat /\ Inode.i_size \in Nat /\ MaxOffset \in Nat
  BY <1>4, <1>5, Sizes
<1>7. lblk \in Int /\ loff \in 0..(BLOCK_SIZE - 1) /\ Offset = lblk * BLOCK_SIZE + loff
  <2> DEFINE p == Offset
             b == BLOCK_SIZE
  <2>1. p \in Int /\ b \in Nat \ {0}
    BY <1>6, Sizes
  <2> HIDE DEF p, b
  <2>2. p \div b \in Int /\ p % b \in 0..(b - 1) /\ p = (p \div b) * b + (p % b)
    BY <2>1, DivMod
  <2> QED BY <2>2 DEF p, b, lblk, loff
<1> QED BY <1>1, <1>2, <1>4, <1>5, <1>6, <1>7

(* A read moves at least a byte, stays in the block, and ends at the end   *)
(* of the file at the latest.                                              *)
LEMMA ReadSize ==
    ASSUME Types, InProgress, call.left > 0, ~EndOfFile,
           NEW m, m = Smaller(call.left, readable)
    PROVE  /\ m \in Nat \ {0} /\ m <= call.left /\ loff + m <= BLOCK_SIZE
           /\ Offset + m <= Inode.i_size
<1> DEFINE b == BLOCK_SIZE
           p == Offset
           z == Inode.i_size
           q == z \div b
           s == z % b
           l == lblk
           o == loff
           n == call.left
<1>1. /\ b \in Nat \ {0} /\ p \in Nat /\ z \in Nat /\ p < z /\ n \in Nat /\ n > 0
      /\ l \in Int /\ o \in 0..(b - 1) /\ p = l * b + o
  BY InCall, Sizes, Constants DEF EndOfFile
<1>2. readable = IF q = l THEN s - o ELSE b - o
  BY DEF readable
<1>3. m = IF n > readable THEN readable ELSE n
  BY DEF Smaller
<1> HIDE DEF b, p, z, l, o, n
<1>4. q \in Int /\ s \in 0..(b - 1) /\ z = q * b + s
  BY <1>1, DivMod
<1> HIDE DEF q, s
<1>5. CASE q = l
  <2> DEFINE e == l * b
  <2>1. e \in Int /\ p = e + o /\ z = e + s
    BY <1>1, <1>4, <1>5
  <2> HIDE DEF e
  <2>2. readable = s - o
    BY <1>2, <1>5
  <2>3. m \in Nat \ {0} /\ m <= n /\ o + m <= b /\ p + m <= z
    BY <1>1, <1>3, <1>4, <2>1, <2>2
  <2> QED BY <2>3 DEF b, p, z, o, n
<1>6. CASE q # l
  <2>1. ASSUME q < l PROVE FALSE
    <3>1. q + 1 <= l
      BY <1>1, <1>4, <2>1
    <3>2. (q + 1) * b <= l * b
      BY <1>1, <1>4, <3>1, Times
    <3>3. (q + 1) * b = q * b + b
      BY <1>1, <1>4
    <3> QED BY <1>1, <1>4, <3>2, <3>3
  <2>2. l + 1 <= q
    BY <1>1, <1>4, <1>6, <2>1
  <2>3. (l + 1) * b <= q * b
    BY <1>1, <1>4, <2>2, Times
  <2>4. (l + 1) * b = l * b + b
    BY <1>1
  <2> DEFINE e == l * b
             g == q * b
  <2>5. e \in Int /\ g \in Int /\ p = e + o /\ z = g + s /\ e + b <= g
    BY <1>1, <1>4, <2>3, <2>4
  <2> HIDE DEF e, g
  <2>6. readable = b - o
    BY <1>2, <1>6
  <2>7. m \in Nat \ {0} /\ m <= n /\ o + m <= b /\ p + m <= z
    BY <1>1, <1>3, <1>4, <2>5, <2>6
  <2> QED BY <2>7 DEF b, p, z, o, n
<1> QED BY <1>5, <1>6

LEMMA WriteSize ==
    ASSUME Types, InProgress, call.left > 0,
           NEW m, m = Smaller(call.left, BLOCK_SIZE - loff)
    PROVE  m \in Nat \ {0} /\ m <= call.left /\ loff + m <= BLOCK_SIZE
<1>1. call.left \in Nat /\ loff \in 0..(BLOCK_SIZE - 1) /\ BLOCK_SIZE \in Nat
  BY InCall, Sizes, Constants
<1> QED BY <1>1 DEF Smaller

(* The positions of a transfer are in the block of the offset.             *)
LEMMA SameLeaf ==
    ASSUME Types, InProgress, NEW m \in Nat \ {0}, loff + m <= BLOCK_SIZE,
           Offset + m <= MaxOffset,
           NEW q \in Offset..(Offset + m - 1)
    PROVE  /\ q \in Positions /\ Offset \in Positions
           /\ Place[fte[call.fd].inode][q] = Place[fte[call.fd].inode][Offset]
           /\ q % BLOCK_SIZE = loff + (q - Offset)
<1> DEFINE p == Offset
           b == BLOCK_SIZE
           f == fte[call.fd].inode
<1>1. p \in Nat /\ MaxOffset \in Nat /\ b \in Nat \ {0} /\ f \in DOMAIN Files
  BY InCall, Sizes
<1>2. (p % b) + m <= b /\ q \in p..(p + m - 1) /\ p + m <= MaxOffset
  BY DEF loff
<1> HIDE DEF p, b
<1>3. q \in Nat /\ q < MaxOffset /\ p < MaxOffset
  BY <1>1, <1>2
<1>4. q \div b = p \div b /\ q - p = (q % b) - (p % b)
  BY <1>1, <1>2, <1>3, SameBlock
<1>5. q \in Positions /\ p \in Positions
  BY <1>1, <1>3 DEF Positions
<1>6. Place[f][q] = Place[f][p]
  BY <1>1, <1>4, <1>5, PlaceIs DEF b
<1>7. q % b = (p % b) + (q - p)
  <2>1. q % b \in Int /\ p % b \in Int
    BY <1>1, <1>3, DivMod
  <2> QED BY <1>1, <1>3, <1>4, <2>1
<1> QED BY <1>5, <1>6, <1>7 DEF p, b, loff

-----------------------------------------------------------------------------
(* What a step of a call comes to                                          *)

Leaf == Place[fte[call.fd].inode][Offset]

HereHole    == Leaf.blk = 0
HereBadData == Leaf.blk \in Bad
HereBadWay  == BadWayOf(fte[call.fd].inode, Offset)

LEMMA LeafSound ==
    ASSUME Types, InProgress, Offset \in Positions
    PROVE  Leaf.blk \in Blocks /\ Leaf.blk # SUPERBLOCK /\ Leaf.blk \in Nat
<1>1. fte[call.fd].inode \in DOMAIN Files
  BY InCall
<1> QED BY <1>1, PlaceSound, Constants DEF Leaf

(* What becomes of a failed step: the call fails, or never returns.        *)
Stopped ==
    \/ Fail /\ (HereBadData \/ HereBadWay)
    \/ Drop /\ call.op = "read" /\ (HereHole \/ HereBadWay)
    \/ Spin /\ (HereBadWay \/ Exhausted)
    \/ Break /\ Exhausted

LEMMA NoAnswerStops ==
    ASSUME NEW c, NoAnswer(c), Failed(c)
    PROVE  Stopped
<1>1. Exhausted /\ c.res \in {"spin", "wild"}
  BY DEF NoAnswer
<1> QED BY <1>1 DEF Failed, Stopped

LEMMA DoubtStops ==
    ASSUME HereBadWay, NEW c \in Doubtful, Failed(c)
    PROVE  Stopped
<1>1. c.res # "wild"
  BY DEF Doubtful, Address
<1> QED BY <1>1 DEF Failed, Stopped

LEMMA AddressFails ==
    ASSUME Types, TablesKept, ~damaged, InProgress, Offset \in Positions,
           NEW a \in minix3_bmap(lblk), Failed(a)
    PROVE  Stopped
<1>1. CASE a = Address(Leaf.blk, TRUE)
  <2>1. a.res = "ok"
    BY <1>1 DEF Address
  <2> QED BY <2>1 DEF Failed
<1>2. CASE a \in Doubtful /\ HereBadWay
  BY <1>2, DoubtStops
<1>3. CASE NoAnswer(a)
  BY <1>3, NoAnswerStops
<1> QED BY <1>1, <1>2, <1>3, BmapIs DEF Leaf, HereBadWay

LEMMA BlockFails ==
    ASSUME Types, TablesKept, ~damaged, InProgress, Offset \in Positions,
           NEW a \in minix3_bmap(lblk), a.res = "ok",
           NEW c \in blkpool_getblk(a.blk), Failed(c)
    PROVE  Stopped
<1>1. CASE a = Address(Leaf.blk, TRUE)
  <2> DEFINE n == Leaf.blk
  <2>1. a.blk = n
    BY <1>1 DEF Address
  <2>2. n \in Blocks /\ n # SUPERBLOCK
    BY LeafSound
  <2> HIDE DEF n
  <2>3. store \in [Blocks -> Contents] /\ c \in blkpool_getblk(n)
    BY <2>1 DEF Types
  <2>4. Fetched(c, n)
    BY <2>3, GetIs
  <2>5. c.res = "ok" \/ (c = [res |-> "fail"] /\ n \in Bad) \/ NoAnswer(c)
    <3>1. CASE c = [res |-> "ok", good |-> TRUE, data |-> store[n]]
      BY <3>1
    <3>2. CASE \E g \in Contents : c = [res |-> "ok", good |-> FALSE, data |-> g]
      BY <3>2
    <3> QED BY <2>2, <2>4, <3>1, <3>2 DEF Fetched
  <2>6. c.res # "ok"
    BY DEF Failed
  <2>7. CASE NoAnswer(c)
    BY <2>7, NoAnswerStops
  <2>8. CASE c.res = "fail" /\ n \in Bad
    BY <2>8 DEF Failed, Stopped, HereBadData, n
  <2> QED BY <2>5, <2>6, <2>7, <2>8
<1>2. CASE HereBadWay
  <2>1. Fetched(c, a.blk)
    BY GetIs DEF Types
  <2>2. NoAnswer(c) \/ c.res # "wild"
    BY <2>1 DEF Fetched
  <2>3. CASE NoAnswer(c)
    BY <2>3, NoAnswerStops
  <2>4. CASE c.res # "wild"
    BY <1>2, <2>4 DEF Failed, Stopped
  <2> QED BY <2>2, <2>3, <2>4
<1>3. ~NoAnswer(a)
  BY DEF NoAnswer
<1> QED BY <1>1, <1>2, <1>3, BmapIs DEF Leaf, HereBadWay

(* A transfer of m bytes by a read, whose data are those of the file or    *)
(* come from a bad block or from behind a bad table.                       *)
ReadTransfer(m, data) ==
    /\ Transferred(m, data)
    /\ UNCHANGED <<store, dropped, damaged>>
    /\ data \in [1..m -> Byte]
    /\ \/ /\ ~HereHole
          /\ data = [i \in 1..m |-> store[Leaf.blk][loff + i - 1]]
       \/ HereBadData \/ HereBadWay

LEMMA ReadCases ==
    ASSUME Inv, ~damaged, ReadBlock
    PROVE  /\ InProgress /\ call.op = "read" /\ call.left > 0 /\ ~EndOfFile
           /\ Offset \in Positions
           /\ \/ Stopped
              \/ \E m, data : m = Smaller(call.left, readable) /\ ReadTransfer(m, data)
<1>1. InProgress /\ call.op = "read" /\ call.left > 0 /\ ~EndOfFile /\ Types /\ TablesKept
  BY DEF ReadBlock, InProgress, Inv
<1>2. Offset \in Positions
  BY <1>1, InCall DEF EndOfFile, Positions
<1> DEFINE m == Smaller(call.left, readable)
           Copied(c) == [i \in 1..m |-> c.data[loff + i - 1]]
<1>3. m \in Nat \ {0} /\ loff + m <= BLOCK_SIZE
  BY <1>1, ReadSize
<1>4. PICK a \in minix3_bmap(lblk) :
        \/ Failed(a)
        \/ a.res = "ok" /\ a.blk = BOOT /\ blkpool_get_any
        \/ /\ a.res = "ok" /\ a.blk # BOOT
           /\ \E c \in blkpool_getblk(a.blk) :
                \/ Failed(c)
                \/ /\ c.res = "ok"
                   /\ Transferred(m, Copied(c))
                   /\ UNCHANGED <<store, dropped, damaged>>
  BY DEF ReadBlock
<1> HIDE DEF m
<1>5. a = Address(Leaf.blk, TRUE) \/ HereBadWay \/ a.res # "ok"
  <2>1. a = Address(Leaf.blk, TRUE) \/ HereBadWay \/ NoAnswer(a)
    BY <1>1, <1>2, BmapIs DEF Leaf, HereBadWay
  <2>2. NoAnswer(a) => a.res # "ok"
    BY DEF NoAnswer
  <2> QED BY <2>1, <2>2
<1>6. CASE Failed(a)
  BY <1>1, <1>2, <1>4, <1>6, AddressFails
<1>7. CASE a.res = "ok" /\ a.blk = BOOT /\ blkpool_get_any
  <2>1. HereHole \/ HereBadWay
    BY <1>5, <1>7 DEF Address, HereHole, BOOT
  <2>2. Stopped
    BY <1>1, <1>7, <2>1 DEF blkpool_get_any, Stopped
  <2> QED BY <1>1, <1>2, <2>2
<1>8. CASE /\ a.res = "ok" /\ a.blk # BOOT
           /\ \E c \in blkpool_getblk(a.blk) :
                \/ Failed(c)
                \/ /\ c.res = "ok"
                   /\ Transferred(m, Copied(c))
                   /\ UNCHANGED <<store, dropped, damaged>>
  <2>1. PICK c \in blkpool_getblk(a.blk) :
          \/ Failed(c)
          \/ /\ c.res = "ok"
             /\ Transferred(m, Copied(c))
             /\ UNCHANGED <<store, dropped, damaged>>
    BY <1>8
  <2>2. CASE Failed(c)
    <3>1. Stopped
      BY <1>1, <1>2, <1>4, <1>8, <2>1, <2>2, BlockFails
    <3> QED BY <1>1, <1>2, <3>1
  <2>3. CASE /\ c.res = "ok"
             /\ Transferred(m, Copied(c))
             /\ UNCHANGED <<store, dropped, damaged>>
    <3>1. store \in [Blocks -> Contents] /\ Fetched(c, a.blk)
      BY <1>1, <2>1, GetIs DEF Types
    <3>2. c.data \in Contents
      <4>1. CASE c = [res |-> "ok", good |-> TRUE, data |-> store[a.blk]] /\ store[a.blk] \in Contents
        BY <4>1
      <4>2. CASE \E g \in Contents : c = [res |-> "ok", good |-> FALSE, data |-> g]
        BY <4>2
      <4>3. CASE c = [res |-> "spin"] \/ c = [res |-> "fail"] \/ NoAnswer(c)
        BY <2>3, <4>3 DEF NoAnswer
      <4> QED BY <3>1, <4>1, <4>2, <4>3 DEF Fetched
    <3>3. Copied(c) \in [1..m -> Byte]
      <4>1. ASSUME NEW i \in 1..m PROVE c.data[loff + i - 1] \in Byte
        <5>1. loff + i - 1 \in 0..(BLOCK_SIZE - 1)
          <6>1. loff \in 0..(BLOCK_SIZE - 1)
            BY <1>1, InCall
          <6> QED BY <1>3, <6>1, Sizes
        <5> DEFINE j == loff + i - 1
        <5> HIDE DEF j
        <5>2. \A g \in Contents : j \in 0..(BLOCK_SIZE - 1) => g[j] \in Byte
          BY DEF Contents
        <5> QED BY <3>2, <5>1, <5>2 DEF j
      <4> QED BY <4>1
    <3>4. \/ ~HereHole /\ Copied(c) = [i \in 1..m |-> store[Leaf.blk][loff + i - 1]]
          \/ HereBadData \/ HereBadWay
      <4>1. CASE a = Address(Leaf.blk, TRUE) /\ ~HereBadData
        <5>1. a.blk = Leaf.blk
          BY <4>1 DEF Address
        <5>2. Leaf.blk \in Blocks /\ Leaf.blk # SUPERBLOCK /\ Leaf.blk # BOOT /\ Leaf.blk \notin Bad
          BY <1>1, <1>2, <1>8, <4>1, <5>1, LeafSound DEF HereBadData
        <5>3. c = [res |-> "ok", good |-> TRUE, data |-> store[Leaf.blk]]
          BY <2>3, <3>1, <5>1, <5>2 DEF Fetched, NoAnswer
        <5>4. c.data = store[Leaf.blk] /\ ~HereHole
          BY <5>2, <5>3 DEF HereHole, BOOT
        <5> QED BY <5>4
      <4> QED BY <1>5, <1>8, <4>1
    <3>5. ReadTransfer(m, Copied(c))
      BY <2>3, <3>3, <3>4 DEF ReadTransfer
    <3> HIDE DEF Copied
    <3> QED BY <1>1, <1>2, <3>5 DEF m
  <2> QED BY <2>1, <2>2, <2>3
<1> QED BY <1>1, <1>2, <1>4, <1>6, <1>7, <1>8

LEMMA PatchedIs ==
    ASSUME Types, InProgress, NEW data \in Contents,
           NEW m \in Nat \ {0}, m <= call.left, call.left <= call.count,
           loff + m <= BLOCK_SIZE
    PROVE  Patched(data, m) \in Contents
<1>1. DOMAIN data = 0..(BLOCK_SIZE - 1)
  BY DEF Contents
<1>2. call.count \in 0..Len(Data) /\ call.left \in 0..Len(Data) /\ loff \in Int
  BY InCall
<1>3. ASSUME NEW b \in loff..(loff + m - 1)
      PROVE  Data[call.count - call.left + b - loff + 1] \in Byte
  <2> DEFINE i == call.count - call.left + b - loff + 1
  <2>1. i \in 1..Len(Data)
    BY <1>2, <1>3, Constants
  <2> HIDE DEF i
  <2>2. Data[i] \in Byte
    BY <2>1, Constants, ElementOfSeq
  <2> QED BY <2>2 DEF i
<1>4. \A b \in 0..(BLOCK_SIZE - 1) : data[b] \in Byte
  BY DEF Contents
<1> QED BY <1>1, <1>3, <1>4 DEF Patched, Contents

(* A transfer of m bytes by a write: it goes to the block of the offset,   *)
(* or is lost, or goes wherever a bad table leads.                         *)
WriteTransfer(m) ==
    /\ Transferred(m, << >>)
    /\ UNCHANGED dropped
    /\ store' \in [Blocks -> Contents]
    /\ \/ /\ damaged' = FALSE
          /\ store' = [store EXCEPT ![Leaf.blk] = Patched(store[Leaf.blk], m)]
       \/ damaged' = FALSE /\ store' = store /\ (HereBadData \/ HereHole)
       \/ damaged' = TRUE /\ HereBadWay

LEMMA WriteCases ==
    ASSUME Inv, ~damaged, WriteBlock
    PROVE  /\ InProgress /\ call.op = "write" /\ call.left > 0
           /\ Offset \in Positions
           /\ \/ Stopped
              \/ \E m : m = Smaller(call.left, BLOCK_SIZE - loff) /\ WriteTransfer(m)
<1>1. InProgress /\ call.op = "write" /\ call.left > 0 /\ Types /\ TablesKept
  BY DEF WriteBlock, InProgress, Inv
<1>2. call.left <= call.count /\ Offset + call.left <= MaxOffset
  BY <1>1 DEF Inv, CallInv
<1>3. Offset \in Positions
  <2>1. Offset \in Nat /\ MaxOffset \in Nat /\ call.left \in Int
    BY <1>1, InCall
  <2> QED BY <1>1, <1>2, <2>1 DEF Positions
<1> DEFINE m == Smaller(call.left, BLOCK_SIZE - loff)
<1>4. m \in Nat \ {0} /\ m <= call.left /\ loff + m <= BLOCK_SIZE
  BY <1>1, WriteSize
<1>5. PICK a \in minix3_bmap(lblk) :
        \/ Failed(a)
        \/ /\ a.res = "ok"
           /\ \E c \in blkpool_getblk(a.blk) :
                \/ Failed(c)
                \/ /\ c.res = "ok"
                   /\ store' = IF c.good
                               THEN [store EXCEPT ![a.blk] = Patched(c.data, m)]
                               ELSE store
                   /\ Transferred(m, << >>)
                   /\ damaged' = (damaged \/ ~a.sure)
                   /\ UNCHANGED dropped
  BY DEF WriteBlock
<1> HIDE DEF m
<1>6. CASE Failed(a)
  <2>1. Stopped
    BY <1>1, <1>3, <1>5, <1>6, AddressFails
  <2> QED BY <1>1, <1>3, <2>1
<1>7. CASE a.res = "ok" /\ \E c \in blkpool_getblk(a.blk) : Failed(c)
  <2>1. PICK c \in blkpool_getblk(a.blk) : Failed(c)
    BY <1>7
  <2>2. Stopped
    BY <1>1, <1>3, <1>5, <1>7, <2>1, BlockFails
  <2> QED BY <1>1, <1>3, <2>2
<1>8. CASE /\ a.res = "ok"
           /\ \E c \in blkpool_getblk(a.blk) :
                /\ c.res = "ok"
                /\ store' = IF c.good
                            THEN [store EXCEPT ![a.blk] = Patched(c.data, m)]
                            ELSE store
                /\ Transferred(m, << >>)
                /\ damaged' = (damaged \/ ~a.sure)
                /\ UNCHANGED dropped
  <2>1. PICK c \in blkpool_getblk(a.blk) :
          /\ c.res = "ok"
          /\ store' = IF c.good
                      THEN [store EXCEPT ![a.blk] = Patched(c.data, m)]
                      ELSE store
          /\ Transferred(m, << >>)
          /\ damaged' = (damaged \/ ~a.sure)
          /\ UNCHANGED dropped
    BY <1>8
  <2>2. store \in [Blocks -> Contents] /\ Fetched(c, a.blk)
    BY <1>1, <2>1, GetIs DEF Types
  <2>3. \/ /\ store' = [store EXCEPT ![a.blk] = Patched(store[a.blk], m)]
           /\ a.blk \in Blocks
        \/ store' = store /\ (a.blk \in Bad \cup {BOOT} \/ a.blk \notin Blocks)
    <3>1. CASE /\ c = [res |-> "ok", good |-> TRUE, data |-> store[a.blk]]
               /\ a.blk \in Blocks
      <4>1. c.good = TRUE /\ c.data = store[a.blk]
        BY <3>1
      <4> QED BY <2>1, <3>1, <4>1
    <3>2. CASE /\ a.blk \in Bad \cup {BOOT} \/ a.blk \notin Blocks
               /\ \E g \in Contents : c = [res |-> "ok", good |-> FALSE, data |-> g]
      <4>1. c.good = FALSE
        BY <3>2
      <4> QED BY <2>1, <3>2, <4>1
    <3>3. CASE c = [res |-> "spin"] \/ c = [res |-> "fail"] \/ NoAnswer(c)
      BY <2>1, <3>3 DEF NoAnswer
    <3> QED BY <2>2, <3>1, <3>2, <3>3 DEF Fetched
  <2>4. store' \in [Blocks -> Contents]
    <3>1. CASE /\ store' = [store EXCEPT ![a.blk] = Patched(store[a.blk], m)]
               /\ a.blk \in Blocks
      <4>1. store[a.blk] \in Contents
        BY <2>2, <3>1
      <4>2. Patched(store[a.blk], m) \in Contents
        BY <1>1, <1>2, <1>4, <4>1, PatchedIs
      <4> QED BY <2>2, <3>1, <4>2
    <3>2. CASE store' = store
      BY <2>2, <3>2
    <3> QED BY <2>3, <3>1, <3>2
  <2>5. CASE a = Address(Leaf.blk, TRUE)
    <3>1. a.blk = Leaf.blk /\ a.sure = TRUE
      BY <2>5 DEF Address
    <3>2. damaged' = FALSE
      BY <2>1, <3>1
    <3>3. Leaf.blk \in Blocks
      BY <1>1, <1>3, LeafSound
    <3>4. WriteTransfer(m)
      BY <2>1, <2>3, <2>4, <3>1, <3>2, <3>3 DEF WriteTransfer, HereBadData, HereHole, BOOT
    <3> QED BY <1>1, <1>3, <3>4 DEF m
  <2>6. CASE a \in Doubtful /\ HereBadWay
    <3>1. a.sure = FALSE
      <4>1. a # [res |-> "fail"] /\ a # [res |-> "spin"]
        BY <1>8
      <4> QED BY <2>6, <4>1 DEF Doubtful, Address
    <3>2. damaged' = TRUE
      BY <2>1, <3>1
    <3>3. WriteTransfer(m)
      BY <2>1, <2>4, <2>6, <3>2 DEF WriteTransfer
    <3> QED BY <1>1, <1>3, <3>3 DEF m
  <2>7. ~NoAnswer(a)
    BY <1>8 DEF NoAnswer
  <2> QED BY <1>1, <1>3, <1>5, <2>5, <2>6, <2>7, BmapIs DEF Leaf, HereBadWay
<1> QED BY <1>5, <1>6, <1>7, <1>8

-----------------------------------------------------------------------------
(* Every step keeps the invariant                                          *)

LEMMA TransferKeeps ==
    ASSUME Types, CallInv, InProgress,
           NEW m \in Nat \ {0}, m <= call.left, Offset + m <= MaxOffset,
           NEW data \in Seq(Byte), call.op = "read" => Len(data) = m,
           Transferred(m, data)
    PROVE  /\ call' \in CallType /\ fte' \in FteType /\ CallInv'
           /\ InProgress' /\ call'.op = call.op /\ call'.fd = call.fd
           /\ call'.count = call.count /\ call'.left = call.left - m
           /\ call'.buf = call.buf \o data
           /\ Offset' = Offset + m
<1>1. /\ call \in CallType /\ call.fd \in Fds
      /\ call.count \in Nat /\ call.left \in 0..Len(Data)
      /\ call.buf \in Seq(Byte) /\ Offset \in Nat /\ MaxOffset \in Nat
  BY InCall, Constants
<1>2. fte \in FteType
  BY DEF Types
<1>3. /\ call' = [call EXCEPT !.left = call.left - m, !.buf = call.buf \o data]
      /\ fte' = [fte EXCEPT ![call.fd].offset = Offset + m]
  BY DEF Transferred, Offset
<1>4. call.left - m \in 0..Len(Data)
  BY <1>1, Constants
<1>5. call.buf \o data \in Seq(Byte) /\ Len(call.buf \o data) = Len(call.buf) + Len(data)
  BY <1>1, ConcatProperties
<1> DEFINE left == call.left - m
           buf == call.buf \o data
           off == Offset + m
<1>6. off \in 0..MaxOffset
  BY <1>1
<1>7. /\ left <= call.count
      /\ call.count - left <= off
      /\ call.op = "read" => Len(buf) = call.count - left
      /\ call.op = "write" => off + left <= MaxOffset
  <2>1. /\ call.left <= call.count
        /\ call.count - call.left <= Offset
        /\ call.op = "read" => Len(call.buf) = call.count - call.left
        /\ call.op = "write" => Offset + call.left <= MaxOffset
    BY DEF CallInv
  <2>2. Len(call.buf) \in Nat
    BY <1>1, LenProperties
  <2>3. left <= call.count /\ call.count - left <= off
    BY <1>1, <2>1
  <2>4. ASSUME call.op = "read" PROVE Len(buf) = call.count - left
    <3>1. Len(buf) = Len(call.buf) + m
      BY <1>5, <2>4
    <3>2. Len(call.buf) = call.count - call.left
      BY <2>1, <2>4
    <3> HIDE DEF buf
    <3> QED BY <1>1, <3>1, <3>2
  <2>5. ASSUME call.op = "write" PROVE off + left <= MaxOffset
    BY <1>1, <2>1, <2>5
  <2> QED BY <2>3, <2>4, <2>5
<1> HIDE DEF left, buf, off
<1>8. /\ call'.op = call.op /\ call'.fd = call.fd /\ call'.count = call.count
      /\ call'.left = left /\ call'.buf = buf
  BY <1>1, <1>3 DEF left, buf, CallType
<1>9. call' \in CallType
  <2>1. left \in 0..Len(Data) /\ buf \in Seq(Byte)
    BY <1>4, <1>5 DEF left, buf
  <2>2. call' = [call EXCEPT !.left = left, !.buf = buf]
    BY <1>3 DEF left, buf
  <2> QED BY <1>1, <2>1, <2>2 DEF CallType
<1>10. fte' \in FteType /\ fte'[call.fd].offset = off
  <2>1. fte' = [fte EXCEPT ![call.fd].offset = off]
    BY <1>3 DEF off
  <2>2. fte[call.fd] \in [inode : DOMAIN Files, offset : 0..MaxOffset]
    BY <1>1, <1>2 DEF FteType
  <2>3. [fte[call.fd] EXCEPT !.offset = off] \in [inode : DOMAIN Files, offset : 0..MaxOffset]
    BY <1>6, <2>2
  <2> QED BY <1>1, <1>2, <2>1, <2>2, <2>3 DEF FteType
<1>11. Offset' = off /\ InProgress'
  BY <1>8, <1>10 DEF Offset, InProgress
<1>12. CallInv'
  BY <1>7, <1>8, <1>11 DEF CallInv
<1> QED BY <1>8, <1>9, <1>10, <1>11, <1>12 DEF left, buf, off

LEMMA InitInv == Init => Inv
<1> SUFFICES ASSUME Init PROVE Inv
  OBVIOUS
<1>1. call.op = "none" /\ call = Idle(0) /\ ~InProgress /\ store = FirstContents
  BY DEF Init, Idle, InProgress
<1>2. PICK o \in Opened : fte = [k \in Fds |-> [inode |-> o[k], offset |-> 0]]
  BY DEF Init
<1>3. o \in [Fds -> DOMAIN Files]
  BY FileDataAssumption
<1>4. fte \in FteType
  BY <1>2, <1>3, Sizes DEF FteType
<1>5. 0 \in -1..MaxOffset /\ 0 \in 0..TooMany
  BY Sizes, Constants
<1>6. Types
  BY <1>1, <1>4, <1>5, Constants DEF Types, Init
<1>7. CallInv /\ TablesKept
  BY <1>1 DEF CallInv, TablesKept
<1> QED BY <1>6, <1>7 DEF Inv

LEMMA BeginInv ==
    ASSUME Inv, NEW k \in Fds, NEW n \in Counts, fs_read(k, n) \/ fs_write(k, n)
    PROVE  Inv'
<1>1. PICK op \in {"read", "write"} :
        Begin(op, k, n) /\ (op = "write" => fte[k].offset + n <= MaxOffset)
  BY DEF fs_read, fs_write
<1>2. /\ call' = [op |-> op, fd |-> k, count |-> n, left |-> n, buf |-> << >>]
      /\ UNCHANGED <<store, fte, dropped, damaged>>
  BY <1>1 DEF Begin
<1>3. n \in 0..Len(Data) /\ n \in Nat /\ << >> \in Seq(Byte) /\ Len(<< >>) = 0
  BY Constants, EmptySeq
<1>4. call' \in CallType /\ call'.op = op
  BY <1>2, <1>3 DEF CallType
<1>5. Types'
  BY <1>2, <1>4 DEF Inv, Types
<1>6. CallInv'
  <2>1. /\ call'.count = n /\ call'.left = n /\ call'.fd = k /\ call'.buf = << >>
        /\ Offset' = fte[k].offset
    BY <1>2 DEF Offset
  <2>2. fte[k].offset \in 0..MaxOffset
    BY DEF Inv, Types, FteType
  <2>3. n - n <= fte[k].offset /\ n - n = 0
    BY <1>3, <2>2, Sizes
  <2> QED BY <1>1, <1>3, <1>4, <2>1, <2>3 DEF CallInv
<1>7. TablesKept'
  BY <1>2 DEF Inv, TablesKept
<1> QED BY <1>5, <1>6, <1>7 DEF Inv

(* A call that ends, or waits forever, leaves the blocks and the offsets.  *)
LEMMA EndInv ==
    ASSUME Inv, UNCHANGED <<store, fte>>, dropped' \in 0..TooMany,
           damaged' \in {damaged, TRUE},
           call' \in {[op |-> "spin"]} \cup {Idle(r) : r \in -1..MaxOffset}
    PROVE  Inv'
<1>1. damaged' \in BOOLEAN /\ (~damaged' => ~damaged)
  BY DEF Inv, Types
<1>2. Types' /\ TablesKept'
  BY <1>1 DEF Inv, Types, TablesKept
<1>3. ~InProgress'
  BY DEF InProgress, Idle
<1> QED BY <1>2, <1>3 DEF Inv, CallInv

LEMMA StoppedInv ==
    ASSUME Inv, Stopped PROVE Inv'
<1>1. /\ UNCHANGED <<store, fte>> /\ damaged' \in {damaged, TRUE}
      /\ call' = Idle(-1) \/ call' = [op |-> "spin"]
  BY DEF Stopped, Fail, Drop, Spin, Break
<1>2. -1 \in -1..MaxOffset
  BY Sizes
<1>3. dropped' \in 0..TooMany
  <2>1. dropped \in 0..TooMany /\ TooMany \in Nat
    BY Constants DEF Inv, Types
  <2>2. UNCHANGED dropped \/ dropped' = IF Exhausted THEN dropped ELSE dropped + 1
    BY DEF Stopped, Fail, Drop, Spin, Break
  <2> QED BY <2>1, <2>2 DEF Exhausted
<1> QED BY <1>1, <1>2, <1>3, EndInv

LEMMA ReadInv ==
    ASSUME Inv, ~damaged, ReadBlock PROVE Inv'
<1>1. CASE Stopped
  BY <1>1, StoppedInv
<1>2. ASSUME NEW m, NEW data, m = Smaller(call.left, readable), ReadTransfer(m, data)
      PROVE  Inv'
  <2>1. InProgress /\ call.op = "read" /\ call.left > 0 /\ ~EndOfFile
    BY ReadCases
  <2>2. Types /\ CallInv
    BY DEF Inv
  <2>3. /\ m \in Nat \ {0} /\ m <= call.left /\ loff + m <= BLOCK_SIZE
        /\ Offset + m <= Inode.i_size
    BY <1>2, <2>1, <2>2, ReadSize
  <2>4. Offset + m <= MaxOffset
    <3>1. Inode.i_size \in 0..MaxOffset /\ Offset \in Nat /\ MaxOffset \in Nat
      BY <2>1, <2>2, InCall
    <3> QED BY <2>3, <3>1
  <2>5. data \in Seq(Byte) /\ Len(data) = m
    BY <1>2, <2>3, AsSeq DEF ReadTransfer
  <2>6. Transferred(m, data) /\ UNCHANGED <<store, dropped, damaged>>
    BY <1>2 DEF ReadTransfer
  <2>7. call' \in CallType /\ fte' \in FteType /\ CallInv'
    BY <2>1, <2>2, <2>3, <2>4, <2>5, <2>6, TransferKeeps
  <2>8. Types'
    BY <2>2, <2>6, <2>7 DEF Types
  <2>9. TablesKept'
    BY <2>6 DEF Inv, TablesKept
  <2> QED BY <2>7, <2>8, <2>9 DEF Inv
<1> QED BY <1>1, <1>2, ReadCases

LEMMA WriteInv ==
    ASSUME Inv, ~damaged, WriteBlock PROVE Inv'
<1>1. CASE Stopped
  BY <1>1, StoppedInv
<1>2. ASSUME NEW m, m = Smaller(call.left, BLOCK_SIZE - loff), WriteTransfer(m)
      PROVE  Inv'
  <2>1. InProgress /\ call.op = "write" /\ call.left > 0 /\ Offset \in Positions
    BY WriteCases
  <2>2. Types /\ CallInv /\ TablesKept
    BY DEF Inv
  <2>3. m \in Nat \ {0} /\ m <= call.left /\ loff + m <= BLOCK_SIZE
    BY <1>2, <2>1, <2>2, WriteSize
  <2>4. Offset + m <= MaxOffset
    <3>1. /\ Offset \in Nat /\ MaxOffset \in Nat /\ call.left \in Int
          /\ Offset + call.left <= MaxOffset
      BY <2>1, <2>2, InCall DEF CallInv
    <3> QED BY <2>3, <3>1
  <2>5. << >> \in Seq(Byte) /\ call.op # "read"
    BY <2>1
  <2>6. /\ Transferred(m, << >>) /\ UNCHANGED dropped
        /\ store' \in [Blocks -> Contents] /\ damaged' \in BOOLEAN
    BY <1>2 DEF WriteTransfer
  <2>7. call' \in CallType /\ fte' \in FteType /\ CallInv'
    BY <2>1, <2>2, <2>3, <2>4, <2>5, <2>6, TransferKeeps
  <2>8. Types'
    BY <2>2, <2>6, <2>7 DEF Types
  <2>9. TablesKept'
    <3> SUFFICES ASSUME ~damaged', NEW f \in DOMAIN Files, NEW p \in Positions,
                        NEW t \in Place[f][p].via \ {BOOT}
                 PROVE  store'[t] = FirstContents[t]
      BY DEF TablesKept
    <3>1. store[t] = FirstContents[t]
      BY <2>2 DEF TablesKept
    <3>2. t \in Blocks
      BY PlaceSound
    <3>3. t # Leaf.blk
      <4>1. fte[call.fd].inode \in DOMAIN Files
        BY <2>1, <2>2, InCall
      <4>2. Leaf.blk # 0 => Leaf.blk \notin Place[f][p].via
        BY <2>1, <4>1, PlaceSound DEF Leaf
      <4> QED BY <4>2 DEF BOOT
    <3>4. store' = [store EXCEPT ![Leaf.blk] = Patched(store[Leaf.blk], m)] \/ store' = store
      BY <1>2 DEF WriteTransfer
    <3>5. store'[t] = store[t]
      BY <2>2, <3>2, <3>3, <3>4 DEF Types
    <3> QED BY <3>1, <3>5
  <2> QED BY <2>7, <2>8, <2>9 DEF Inv
<1> QED BY <1>1, <1>2, WriteCases

LEMMA ReturnInv ==
    ASSUME Inv, Return PROVE Inv'
<1>1. InProgress /\ Types /\ CallInv
  BY DEF Inv, Return, InProgress
<1>2. call.count - call.left \in -1..MaxOffset
  <2>1. /\ call.count \in Nat /\ call.left \in Nat /\ Offset \in 0..MaxOffset
        /\ MaxOffset \in Nat /\ call.left <= call.count /\ call.count - call.left <= Offset
    BY <1>1, InCall, Constants DEF CallInv
  <2> QED BY <2>1
<1>3. /\ call' \in {Idle(r) : r \in -1..MaxOffset}
      /\ UNCHANGED <<store, fte, damaged>> /\ dropped' \in 0..TooMany
  BY <1>1, <1>2 DEF Return, Types
<1> QED BY <1>3, EndInv

LEMMA NextInv == Inv /\ [(~damaged /\ Next) \/ Halt]_vars => Inv'
<1> SUFFICES ASSUME Inv, [(~damaged /\ Next) \/ Halt]_vars PROVE Inv'
  OBVIOUS
<1>1. CASE ~damaged /\ Next
  BY <1>1, BeginInv, ReadInv, WriteInv, ReturnInv DEF Next, Step
<1>2. CASE UNCHANGED vars
  BY <1>2 DEF vars, Inv, Types, CallInv, TablesKept, InProgress, Offset
<1> QED BY <1>1, <1>2 DEF Halt

(* At every step: calls have moved no more than they were asked for and    *)
(* than lies behind the offset, and no table of any file has been written. *)
THEOREM FileDataInductive == Spec => []Inv
<1>1. Init => Inv
  BY InitInv
<1>2. Inv /\ [(~damaged /\ Next) \/ Halt]_vars => Inv'
  BY NextInv
<1> QED BY <1>1, <1>2, PTL DEF Spec

THEOREM FileDataTypeOK == Spec => []TypeOK
<1>1. Inv => TypeOK
  <2> SUFFICES ASSUME Inv PROVE TypeOK
    OBVIOUS
  <2>1. CASE InProgress
    <3>1. /\ call.op \in {"read", "write"}
          /\ call.left \in 0..call.count
          /\ call.op = "read" => Len(call.buf) = call.count - call.left
      BY <2>1, InCall, Constants DEF Inv, CallInv, InProgress
    <3> QED BY <3>1 DEF TypeOK, Inv, Types, FteType
  <2>2. CASE call \in {[op |-> "spin"]} \cup {Idle(r) : r \in -1..MaxOffset}
    BY <2>2 DEF TypeOK, Inv, Types, FteType, Idle
  <2>3. InProgress \/ call \in {[op |-> "spin"]} \cup {Idle(r) : r \in -1..MaxOffset}
    BY DEF Inv, Types, CallType, InProgress
  <2> QED BY <2>1, <2>2, <2>3
<1> QED BY <1>1, FileDataInductive, PTL

(* A write changes only the blocks of the file's own data, or the boot     *)
(* block (fs.c:228-265).                                                   *)
THEOREM FileDataOnlyOwnData == Spec => OnlyOwnData
<1> DEFINE Own == \A n \in Blocks :
                    store'[n] # store[n] /\ ~damaged' =>
                        n \in {Place[fte[call.fd].inode][p].blk : p \in Positions} \cup {BOOT}
<1>1. Inv /\ [(~damaged /\ Next) \/ Halt]_vars => [Own]_vars
  <2> SUFFICES ASSUME Inv, [(~damaged /\ Next) \/ Halt]_vars,
                      NEW n \in Blocks, store'[n] # store[n], ~damaged'
               PROVE  n \in {Place[fte[call.fd].inode][p].blk : p \in Positions} \cup {BOOT}
    OBVIOUS
  <2>1. WriteBlock /\ ~damaged
    BY ReadCases DEF Next, Step, Halt, vars, fs_read, fs_write, Begin, Return, Stopped,
                     Fail, Drop, Spin, Break, ReadTransfer
  <2>2. Offset \in Positions
    BY <2>1, WriteCases
  <2>3. ~Stopped
    BY DEF Stopped, Fail, Drop, Spin, Break
  <2>4. PICK m : WriteTransfer(m)
    BY <2>1, <2>3, WriteCases
  <2>5. store' = [store EXCEPT ![Leaf.blk] = Patched(store[Leaf.blk], m)]
    BY <2>4 DEF WriteTransfer
  <2>6. n = Leaf.blk
    BY <2>5 DEF Inv, Types
  <2> QED BY <2>2, <2>6 DEF Leaf
<1> QED BY <1>1, FileDataInductive, PTL DEF Spec, OnlyOwnData

-----------------------------------------------------------------------------
(* The calls implement ByteFile                                            *)

LEMMA Kinds ==
    ASSUME NEW f \in DOMAIN Files, NEW p \in Positions
    PROVE  /\ p \in Hole[f] <=> Place[f][p].blk = 0
           /\ p \in BadData[f] <=> Place[f][p].blk \in Bad
           /\ p \in BadWay[f] <=> BadWayOf(f, p)
BY DEF Hole, BadData, BadWay, With, BadWayOf

(* The abstract state of a call in progress.                               *)
LEMMA MovedIs ==
    ASSUME Types, InProgress
    PROVE  /\ Moved = [op |-> call.op, fd |-> call.fd, count |-> call.count,
                       done |-> call.count - call.left, got |-> call.buf]
           /\ Moved.op = call.op /\ Moved.fd = call.fd /\ Moved.count = call.count
           /\ Moved.done = call.count - call.left /\ Moved.got = call.buf
           /\ Bytes!InProgress
           /\ Bytes!Here = Offset /\ Bytes!File = fte[call.fd].inode
           /\ Size[Bytes!File] = Inode.i_size
           /\ Bytes!AtEnd <=> call.op = "read" /\ Offset >= Inode.i_size
<1>1. Moved = [op |-> call.op, fd |-> call.fd, count |-> call.count,
               done |-> call.count - call.left, got |-> call.buf]
  BY DEF Moved, InProgress
<1>2. /\ Moved.op = call.op /\ Moved.fd = call.fd /\ Moved.count = call.count
      /\ Moved.done = call.count - call.left /\ Moved.got = call.buf
  BY <1>1
<1>3. call.fd \in Fds /\ fte[call.fd].inode \in DOMAIN Files
      /\ Inode = Files[fte[call.fd].inode]
  BY InCall
<1>4. Bytes!Here = Offset /\ Bytes!File = fte[call.fd].inode
  BY <1>2, <1>3 DEF Bytes!Here, Bytes!File, offset, file, Offset
<1>5. Size[Bytes!File] = Inode.i_size
  BY <1>3, <1>4 DEF Size
<1>6. Bytes!InProgress
  BY <1>2 DEF Bytes!InProgress, InProgress
<1>7. Bytes!AtEnd <=> call.op = "read" /\ Offset >= Inode.i_size
  BY <1>2, <1>4, <1>5 DEF Bytes!AtEnd
<1> QED BY <1>1, <1>2, <1>4, <1>5, <1>6, <1>7

LEMMA SameContent ==
    ASSUME UNCHANGED store PROVE UNCHANGED content
BY DEF content

LEMMA SameOffsets ==
    ASSUME UNCHANGED fte PROVE UNCHANGED <<file, offset>>
BY DEF file, offset

LEMMA ContentsAre ==
    ASSUME NEW s \in [Blocks -> Contents], NEW f \in DOMAIN Files, NEW p \in Positions
    PROVE  (IF Place[f][p].blk = 0 THEN 0 ELSE s[Place[f][p].blk][p % BLOCK_SIZE]) \in Byte
<1>1. p % BLOCK_SIZE \in 0..(BLOCK_SIZE - 1)
  BY BlockOf
<1>2. s[Place[f][p].blk] \in Contents
  BY PlaceSound
<1>3. \A c \in Contents, b \in 0..(BLOCK_SIZE - 1) : c[b] \in Byte
  BY DEF Contents
<1> QED BY <1>1, <1>2, <1>3, Constants

LEMMA InitBytes == Init => Bytes!Init
<1> SUFFICES ASSUME Init PROVE Bytes!Init
  OBVIOUS
<1>1. Types
  BY InitInv DEF Inv
<1>2. content \in [DOMAIN Files -> [Positions -> Byte]]
  BY <1>1, ContentsAre DEF content, Types
<1>3. file \in [Fds -> DOMAIN Files]
  BY <1>1 DEF file, Types, FteType
<1>4. offset = [k \in Fds |-> 0]
  BY DEF offset, Init
<1>5. Moved = Bytes!Idle(0) /\ dropped = 0 /\ damaged = FALSE
  BY DEF Init, Moved, Idle, Bytes!Idle
<1> QED BY <1>2, <1>3, <1>4, <1>5 DEF Bytes!Init

LEMMA BeginBytes ==
    ASSUME NEW k \in Fds, NEW n \in Counts, fs_read(k, n) \/ fs_write(k, n)
    PROVE  Bytes!Next
<1>1. PICK op \in {"read", "write"} : Begin(op, k, n)
  BY DEF fs_read, fs_write
<1>2. /\ call.op = "none"
      /\ call' = [op |-> op, fd |-> k, count |-> n, left |-> n, buf |-> << >>]
      /\ UNCHANGED <<store, fte, dropped, damaged>>
  BY <1>1 DEF Begin
<1>3. n \in 0..Len(Data) /\ n - n = 0
  BY Constants
<1>4. Moved.op = "none"
  BY <1>2 DEF Moved
<1>5. Moved' = [op |-> op, fd |-> k, count |-> n, done |-> 0, got |-> << >>]
  <2>1. /\ call'.op = op /\ call'.fd = k /\ call'.count = n /\ call'.left = n
        /\ call'.buf = << >>
    BY <1>2
  <2>2. Moved' = [op |-> call'.op, fd |-> call'.fd, count |-> call'.count,
                  done |-> call'.count - call'.left, got |-> call'.buf]
    BY <2>1 DEF Moved
  <2> QED BY <1>3, <2>1, <2>2
<1>6. UNCHANGED <<content, file, offset, dropped, damaged>>
  BY <1>2, SameContent, SameOffsets
<1>7. Bytes!Begin(op, k, n)
  BY <1>4, <1>5, <1>6 DEF Bytes!Begin
<1> QED BY <1>3, <1>7 DEF Bytes!Next

LEMMA StoppedBytes ==
    ASSUME Types, InProgress, call.left > 0, Offset \in Positions,
           call.op = "read" => ~EndOfFile, CallInv, Stopped
    PROVE  Bytes!Next
<1>1. UNCHANGED <<content, file, offset>>
  BY SameContent, SameOffsets DEF Stopped, Fail, Drop, Spin, Break
<1>2. fte[call.fd].inode \in DOMAIN Files
  BY InCall
<1>3. Bytes!Unfinished
  <2>1. Moved.done < Moved.count
    <3>1. call.count \in Nat /\ call.left \in Nat
      BY InCall, Constants
    <3> QED BY <3>1, MovedIs
  <2>2. ~Bytes!AtEnd
    BY MovedIs DEF EndOfFile
  <2> QED BY <2>1, <2>2, MovedIs DEF Bytes!Unfinished
<1>4. /\ HereHole => Bytes!Here \in Hole[Bytes!File]
      /\ HereBadData => Bytes!Here \in BadData[Bytes!File]
      /\ HereBadWay => Bytes!Here \in BadWay[Bytes!File]
  BY <1>2, MovedIs, Kinds DEF HereHole, HereBadData, HereBadWay, Leaf
<1>5. /\ Idle(-1) = Bytes!Idle(-1)
      /\ call' = Idle(-1) => Moved' = Bytes!Idle(-1)
      /\ call' = [op |-> "spin"] => Moved' = [op |-> "spin"]
  BY DEF Moved, Idle, Bytes!Idle
<1>6. CASE Fail /\ (HereBadData \/ HereBadWay)
  <2>1. Bytes!Fail
    BY <1>1, <1>3, <1>4, <1>5, <1>6 DEF Fail, Bytes!Fail
  <2> QED BY <2>1 DEF Bytes!Next
<1>7. CASE Drop /\ call.op = "read" /\ (HereHole \/ HereBadWay)
  <2>1. Moved.op = "read"
    BY <1>7, MovedIs
  <2>2. Bytes!FailInHole
    BY <1>1, <1>3, <1>4, <1>5, <1>7, <2>1 DEF Drop, Exhausted, Bytes!FailInHole
  <2> QED BY <2>2 DEF Bytes!Next
<1>8. CASE Spin /\ (HereBadWay \/ Exhausted)
  <2>1. Bytes!Hang
    BY <1>1, <1>3, <1>4, <1>5, <1>8 DEF Spin, Exhausted, Bytes!Hang
  <2> QED BY <2>1 DEF Bytes!Next
<1>9. CASE Break /\ Exhausted
  <2>1. Bytes!Break
    BY <1>1, <1>3, <1>5, <1>9 DEF Break, Exhausted, Bytes!Break
  <2> QED BY <2>1 DEF Bytes!Next
<1> QED BY <1>6, <1>7, <1>8, <1>9 DEF Stopped

LEMMA MoveIs ==
    ASSUME Types, CallInv, InProgress,
           NEW m \in Nat \ {0}, m <= call.left, Offset + m <= MaxOffset,
           NEW data \in Seq(Byte), call.op = "read" => Len(data) = m,
           Transferred(m, data), UNCHANGED dropped
    PROVE  Bytes!Move(m, data)
<1>1. /\ call'.op = call.op /\ call'.fd = call.fd /\ call'.count = call.count
      /\ call'.left = call.left - m /\ call'.buf = call.buf \o data /\ InProgress'
  BY TransferKeeps
<1>2. Moved' = [op |-> call.op, fd |-> call.fd, count |-> call.count,
                done |-> call.count - (call.left - m), got |-> call.buf \o data]
  BY <1>1 DEF Moved, InProgress
<1>3. call.count - (call.left - m) = call.count - call.left + m
  <2>1. call.count \in Nat /\ call.left \in Nat
    BY InCall, Constants
  <2> QED BY <2>1
<1>4. Moved' = [Moved EXCEPT !.done = Moved.done + m, !.got = Moved.got \o data]
  <2> DEFINE d == call.count - call.left
             e == call.count - (call.left - m)
             g == call.buf \o data
  <2>1. /\ Moved = [op |-> call.op, fd |-> call.fd, count |-> call.count,
                    done |-> d, got |-> call.buf]
        /\ Moved.done = d /\ Moved.got = call.buf
    BY MovedIs
  <2>2. Moved.done + m = e /\ Moved.got \o data = g
    BY <1>3, <2>1
  <2>3. Moved' = [op |-> call.op, fd |-> call.fd, count |-> call.count, done |-> e, got |-> g]
    BY <1>2
  <2> HIDE DEF d, e, g
  <2> DEFINE r == [op |-> call.op, fd |-> call.fd, count |-> call.count,
                   done |-> d, got |-> call.buf]
             s == [op |-> call.op, fd |-> call.fd, count |-> call.count,
                   done |-> e, got |-> call.buf]
             t == [op |-> call.op, fd |-> call.fd, count |-> call.count,
                   done |-> e, got |-> g]
  <2>4. [r EXCEPT !.done = e] = s
    OBVIOUS
  <2>5. [s EXCEPT !.got = g] = t
    OBVIOUS
  <2>6. Moved = r /\ Moved' = t
    BY <2>1, <2>3
  <2> HIDE DEF r, s, t
  <2>7. [r EXCEPT !.done = e, !.got = g] = [[r EXCEPT !.done = e] EXCEPT !.got = g]
    OBVIOUS
  <2>8. Moved' = [Moved EXCEPT !.done = e, !.got = g]
    BY <2>4, <2>5, <2>6, <2>7
  <2> QED BY <2>2, <2>8
<1>5. call.fd \in Fds /\ Moved.fd = call.fd
  BY InCall, MovedIs
<1>6. fte \in FteType /\ fte' = [fte EXCEPT ![call.fd].offset = Offset + m]
  BY DEF Types, Transferred, Offset
<1>7. offset' = [offset EXCEPT ![Moved.fd] = offset[Moved.fd] + m]
  <2> DEFINE fd == call.fd
  <2>1. offset[fd] = Offset
    BY <1>5 DEF offset, Offset
  <2>2. ASSUME NEW k \in Fds
        PROVE  fte'[k].offset = IF k = fd THEN Offset + m ELSE fte[k].offset
    <3>1. fte[k] \in [inode : DOMAIN Files, offset : 0..MaxOffset]
      BY <1>6 DEF FteType
    <3>2. CASE k = fd
      BY <1>6, <3>1, <3>2 DEF FteType
    <3>3. CASE k # fd
      BY <1>6, <3>3 DEF FteType
    <3> QED BY <3>2, <3>3
  <2>3. offset' = [k \in Fds |-> IF k = fd THEN Offset + m ELSE fte[k].offset]
    BY <2>2 DEF offset
  <2>4. [offset EXCEPT ![fd] = Offset + m]
            = [k \in Fds |-> IF k = fd THEN Offset + m ELSE fte[k].offset]
    BY DEF offset
  <2> QED BY <1>5, <2>1, <2>3, <2>4
<1>8. UNCHANGED file
  <2>1. ASSUME NEW k \in Fds PROVE fte'[k].inode = fte[k].inode
    <3>1. fte[k] \in [inode : DOMAIN Files, offset : 0..MaxOffset]
      BY <1>6 DEF FteType
    <3> QED BY <1>6, <3>1 DEF FteType
  <2> QED BY <2>1 DEF file
<1> QED BY <1>4, <1>7, <1>8 DEF Bytes!Move

LEMMA TailOfConcat ==
    ASSUME NEW S, NEW a \in Seq(S), NEW b \in Seq(S), NEW n, NEW m,
           n = Len(a), m = Len(b), m # 0
    PROVE  SubSeq(a \o b, n + 1, n + m) = b
<1> DEFINE x == n + 1
           y == n + m
<1>1. /\ x \in (Len(a) + 1)..(Len(a) + Len(b)) /\ y \in (Len(a) + 1)..(Len(a) + Len(b))
      /\ x - Len(a) = 1 /\ y - Len(a) = Len(b)
  BY LenProperties
<1> HIDE DEF x, y
<1>2. SubSeq(a \o b, x, y) = SubSeq(b, x - Len(a), y - Len(a))
  BY <1>1, SubSeqOfConcat2
<1>3. SubSeq(b, 1, Len(b)) = b
  BY SubSeqFull
<1> QED BY <1>1, <1>2, <1>3 DEF x, y

(* The positions of a transfer are all of the kind of the first.           *)
LEMMA OneKind ==
    ASSUME Types, InProgress, NEW m \in Nat \ {0}, loff + m <= BLOCK_SIZE,
           Offset + m <= MaxOffset
    PROVE  /\ ~HereHole => Bytes!Ahead(m) \cap Hole[Bytes!File] = {}
           /\ HereHole => Bytes!Ahead(m) \subseteq Hole[Bytes!File]
           /\ HereBadData => Bytes!Ahead(m) \subseteq BadData[Bytes!File]
           /\ HereBadWay => Bytes!Ahead(m) \subseteq BadWay[Bytes!File]
<1>1. fte[call.fd].inode \in DOMAIN Files /\ Bytes!File = fte[call.fd].inode
      /\ Bytes!Here = Offset
  BY InCall, MovedIs
<1>2. Bytes!Ahead(m) = Offset..(Offset + m - 1)
  BY <1>1 DEF Bytes!Ahead
<1>3. ASSUME NEW q \in Bytes!Ahead(m)
      PROVE  /\ q \in Hole[Bytes!File] <=> HereHole
             /\ q \in BadData[Bytes!File] <=> HereBadData
             /\ q \in BadWay[Bytes!File] <=> HereBadWay
  <2>1. q \in Offset..(Offset + m - 1)
    BY <1>2
  <2>2. q \in Positions /\ Place[fte[call.fd].inode][q] = Leaf
    BY <2>1, SameLeaf DEF Leaf
  <2> QED BY <1>1, <2>2, Kinds DEF HereHole, HereBadData, HereBadWay, BadWayOf, Leaf
<1> QED BY <1>3

LEMMA ReadBytes ==
    ASSUME Inv, ~damaged, ReadBlock PROVE Bytes!Next
<1>1. InProgress /\ call.op = "read" /\ call.left > 0 /\ ~EndOfFile /\ Offset \in Positions
  BY ReadCases
<1>2. Types /\ CallInv
  BY DEF Inv
<1>3. CASE Stopped
  BY <1>1, <1>2, <1>3, StoppedBytes
<1>4. ASSUME NEW m, NEW data, m = Smaller(call.left, readable), ReadTransfer(m, data)
      PROVE  Bytes!Next
  <2>1. /\ m \in Nat \ {0} /\ m <= call.left /\ loff + m <= BLOCK_SIZE
        /\ Offset + m <= Inode.i_size
    BY <1>1, <1>2, <1>4, ReadSize
  <2>2. /\ Offset + m <= MaxOffset /\ m \in 1..Len(Data)
        /\ call.count - call.left + m <= call.count
    <3>1. /\ Inode.i_size \in 0..MaxOffset /\ Offset \in Nat /\ MaxOffset \in Nat
          /\ call.left \in 0..Len(Data) /\ call.count \in Nat
      BY <1>1, <1>2, InCall, Constants
    <3> QED BY <2>1, <3>1, Constants
  <2>3. data \in [1..m -> Byte] /\ data \in Seq(Byte) /\ Len(data) = m
    BY <1>4, <2>1, AsSeq DEF ReadTransfer
  <2>4. Transferred(m, data) /\ UNCHANGED <<store, dropped, damaged>>
    BY <1>4 DEF ReadTransfer
  <2>5. Bytes!Move(m, data)
    BY <1>1, <1>2, <2>1, <2>2, <2>3, <2>4, MoveIs
  <2>6. Bytes!Asked("read", m) /\ Bytes!Here + m <= Size[Bytes!File]
    BY <1>1, <1>2, <2>1, <2>2, MovedIs DEF Bytes!Asked
  <2>7. UNCHANGED <<content, damaged>>
    BY <2>4, SameContent
  <2>8. CASE /\ ~HereHole
             /\ data = [i \in 1..m |-> store[Leaf.blk][loff + i - 1]]
    <3>1. Bytes!Ahead(m) \cap Hole[Bytes!File] = {}
      BY <1>1, <1>2, <2>1, <2>2, <2>8, OneKind
    <3>2. ASSUME NEW i \in 1..m
          PROVE  content[Bytes!File][Bytes!Here + i - 1] = data[i]
      <4> DEFINE q == Offset + i - 1
                 f == fte[call.fd].inode
      <4>1. Offset \in Nat /\ f \in DOMAIN Files /\ loff \in Int
        BY <1>1, <1>2, InCall
      <4>2. q \in Offset..(Offset + m - 1) /\ loff + (q - Offset) = loff + i - 1
        BY <2>1, <4>1
      <4> HIDE DEF q
      <4>3. q \in Positions /\ Place[f][q] = Leaf /\ q % BLOCK_SIZE = loff + (q - Offset)
        BY <1>1, <1>2, <2>1, <2>2, <4>2, SameLeaf DEF Leaf
      <4>4. content[f][q] = store[Leaf.blk][q % BLOCK_SIZE]
        BY <2>8, <4>1, <4>3 DEF content, HereHole
      <4>5. data[i] = store[Leaf.blk][loff + i - 1]
        BY <2>8
      <4>6. content[f][q] = data[i]
        BY <4>2, <4>3, <4>4, <4>5
      <4>7. Bytes!File = f /\ Bytes!Here = Offset
        BY <1>1, <1>2, MovedIs
      <4> QED BY <4>6, <4>7 DEF q
    <3>3. [i \in 1..m |-> content[Bytes!File][Bytes!Here + i - 1]] = data
      BY <2>3, <3>2
    <3>4. Bytes!Read(m)
      BY <2>5, <2>6, <2>7, <3>1, <3>3 DEF Bytes!Read
    <3> QED BY <2>2, <3>4 DEF Bytes!Next
  <2>9. CASE HereBadData \/ HereBadWay
    <3>1. Bytes!Ahead(m) \subseteq BadData[Bytes!File] \cup BadWay[Bytes!File]
      BY <1>1, <1>2, <2>1, <2>2, <2>9, OneKind
    <3>2. /\ call'.op = "read" /\ call'.buf = call.buf \o data /\ InProgress'
          /\ call' \in CallType
      BY <1>1, <1>2, <2>1, <2>2, <2>3, <2>4, TransferKeeps
    <3>3. Moved'.op = "read" /\ Moved'.got = call.buf \o data /\ Moved'.got \in Seq(Byte)
      BY <3>2 DEF Moved, InProgress, CallType
    <3>4. call.buf \in Seq(Byte) /\ Len(call.buf) = Moved.done
      BY <1>1, <1>2, InCall, MovedIs DEF CallInv
    <3>5. SubSeq(Moved'.got, Moved.done + 1, Moved.done + m) = data
      <4> DEFINE a == call.buf
                 n == Moved.done
      <4>1. a \in Seq(Byte) /\ data \in Seq(Byte) /\ n = Len(a) /\ m = Len(data) /\ m # 0
        BY <2>1, <2>3, <3>4
      <4> HIDE DEF a, n
      <4>2. SubSeq(a \o data, n + 1, n + m) = data
        BY <4>1, TailOfConcat
      <4> QED BY <3>3, <4>2 DEF a, n
    <3>6. Bytes!ReadAny(m)
      BY <2>5, <2>6, <2>7, <3>1, <3>3, <3>5 DEF Bytes!ReadAny
    <3> QED BY <2>2, <3>6 DEF Bytes!Next
  <2> QED BY <1>4, <2>8, <2>9 DEF ReadTransfer
<1> QED BY <1>3, <1>4, ReadCases

(* A write to the block of the offset changes the bytes of the transfer,   *)
(* and no other of any file.                                               *)
LEMMA Written ==
    ASSUME Types, InProgress, NEW m \in Nat \ {0}, loff + m <= BLOCK_SIZE,
           Offset + m <= MaxOffset, ~HereHole,
           store' = [store EXCEPT ![Leaf.blk] = Patched(store[Leaf.blk], m)],
           NEW g \in DOMAIN Files, NEW q \in Positions
    PROVE  content'[g][q] =
              IF g = Bytes!File /\ q \in Bytes!Ahead(m)
              THEN Data[Moved.done + q - Bytes!Here + 1] ELSE content[g][q]
<1> DEFINE n == Place[g][q].blk
           b == q % BLOCK_SIZE
           d == call.count - call.left
<1>1. /\ Bytes!File = fte[call.fd].inode /\ Bytes!Here = Offset /\ Moved.done = d
      /\ fte[call.fd].inode \in DOMAIN Files
      /\ Offset \in Nat /\ loff \in 0..(BLOCK_SIZE - 1) /\ MaxOffset \in Nat /\ d \in Int
  BY InCall, MovedIs, Constants
<1>2. Bytes!Ahead(m) = Offset..(Offset + m - 1)
  BY <1>1 DEF Bytes!Ahead
<1>3. Offset \in Positions
  BY <1>1 DEF Positions
<1>4. Leaf.blk \in Blocks /\ Leaf.blk # 0
  BY <1>3, LeafSound DEF HereHole
<1>5. b \in 0..(BLOCK_SIZE - 1) /\ q \in Nat
  BY BlockOf
<1>6. store \in [Blocks -> Contents] /\ DOMAIN store[Leaf.blk] = 0..(BLOCK_SIZE - 1)
  BY <1>4 DEF Types, Contents
<1>7. /\ content[g][q] = IF n = 0 THEN 0 ELSE store[n][b]
      /\ content'[g][q] = IF n = 0 THEN 0 ELSE store'[n][b]
  BY DEF content
<1>8. ASSUME g = fte[call.fd].inode, q \in Offset..(Offset + m - 1)
      PROVE  n = Leaf.blk /\ b = loff + (q - Offset)
  BY <1>8, SameLeaf DEF Leaf
<1>9. ASSUME n = Leaf.blk
      PROVE  g = fte[call.fd].inode /\ q - Offset = b - loff
  <2>1. fte[call.fd].inode = g /\ Offset \div BLOCK_SIZE = q \div BLOCK_SIZE
    BY <1>1, <1>3, <1>4, <1>9, PlaceSound DEF Leaf
  <2> DEFINE k == BLOCK_SIZE
             p == Offset
  <2>2. k \in Nat \ {0} /\ p \in Int /\ q \in Int /\ q \div k = p \div k
    BY <1>1, <1>5, <2>1, Sizes
  <2> HIDE DEF k, p
  <2>3. q - p = (q % k) - (p % k)
    BY <2>2, SameBlock
  <2> QED BY <2>1, <2>3 DEF k, p, loff
<1> HIDE DEF n, b, d
<1>10. CASE n # Leaf.blk
  <2>1. content'[g][q] = content[g][q]
    BY <1>7, <1>10
  <2>2. ~(g = Bytes!File /\ q \in Bytes!Ahead(m))
    BY <1>1, <1>2, <1>8, <1>10
  <2> QED BY <2>1, <2>2
<1>11. CASE n = Leaf.blk
  <2>1. store'[n] = Patched(store[n], m)
    BY <1>4, <1>6, <1>11
  <2>2. store'[n][b] = IF b \in loff..(loff + m - 1)
                       THEN Data[call.count - call.left + b - loff + 1] ELSE store[n][b]
    BY <1>5, <1>6, <1>11, <2>1 DEF Patched
  <2>3. content'[g][q] = store'[n][b] /\ content[g][q] = store[n][b]
    BY <1>4, <1>7, <1>11
  <2>4. g = Bytes!File /\ q - Offset = b - loff
    BY <1>1, <1>9, <1>11
  <2>5. CASE b \in loff..(loff + m - 1)
    <3>1. q \in Bytes!Ahead(m)
      BY <1>1, <1>2, <1>5, <2>4, <2>5
    <3>2. call.count - call.left + b - loff + 1 = Moved.done + q - Bytes!Here + 1
      <4>1. d + b - loff + 1 = d + q - Offset + 1
        BY <1>1, <1>5, <2>4
      <4> QED BY <1>1, <4>1 DEF d
    <3> QED BY <2>2, <2>3, <2>4, <2>5, <3>1, <3>2
  <2>6. CASE b \notin loff..(loff + m - 1)
    <3>1. q \notin Bytes!Ahead(m)
      BY <1>1, <1>2, <1>5, <2>4, <2>6
    <3> QED BY <2>2, <2>3, <2>6, <3>1
  <2> QED BY <2>5, <2>6
<1> QED BY <1>10, <1>11

LEMMA WriteBytes ==
    ASSUME Inv, ~damaged, WriteBlock PROVE Bytes!Next
<1>1. InProgress /\ call.op = "write" /\ call.left > 0 /\ Offset \in Positions
  BY WriteCases
<1>2. Types /\ CallInv
  BY DEF Inv
<1>9. damaged = FALSE
  BY <1>2 DEF Types
<1>3. CASE Stopped
  BY <1>1, <1>2, <1>3, StoppedBytes
<1>4. ASSUME NEW m, m = Smaller(call.left, BLOCK_SIZE - loff), WriteTransfer(m)
      PROVE  Bytes!Next
  <2>1. m \in Nat \ {0} /\ m <= call.left /\ loff + m <= BLOCK_SIZE
    BY <1>1, <1>2, <1>4, WriteSize
  <2>2. /\ Offset + m <= MaxOffset /\ m \in 1..Len(Data)
        /\ call.count - call.left + m <= call.count
    <3>1. /\ Offset \in Nat /\ MaxOffset \in Nat /\ Offset + call.left <= MaxOffset
          /\ call.left \in 0..Len(Data) /\ call.count \in Nat
      BY <1>1, <1>2, InCall, Constants DEF CallInv
    <3> QED BY <2>1, <3>1, Constants
  <2>3. << >> \in Seq(Byte) /\ call.op # "read"
    BY <1>1
  <2>4. Bytes!Move(m, << >>)
    BY <1>1, <1>2, <1>4, <2>1, <2>2, <2>3, MoveIs DEF WriteTransfer
  <2>5. Bytes!Asked("write", m)
    BY <1>1, <1>2, <2>2, MovedIs DEF Bytes!Asked
  <2>6. /\ ~HereHole => Bytes!Ahead(m) \cap Hole[Bytes!File] = {}
        /\ HereHole => Bytes!Ahead(m) \subseteq Hole[Bytes!File]
        /\ HereBadData => Bytes!Ahead(m) \subseteq BadData[Bytes!File]
        /\ HereBadWay => Bytes!Ahead(m) \subseteq BadWay[Bytes!File]
    BY <1>1, <1>2, <2>1, <2>2, OneKind
  <2>7. CASE /\ damaged' = FALSE /\ ~HereHole
             /\ store' = [store EXCEPT ![Leaf.blk] = Patched(store[Leaf.blk], m)]
    <3> DEFINE new == [p \in Positions |->
                        IF p \in Bytes!Ahead(m)
                        THEN Data[Moved.done + p - Bytes!Here + 1]
                        ELSE content[Bytes!File][p]]
    <3>1. \A g \in DOMAIN Files, q \in Positions :
            content'[g][q] = IF g = Bytes!File /\ q \in Bytes!Ahead(m)
                             THEN Data[Moved.done + q - Bytes!Here + 1] ELSE content[g][q]
      BY <1>1, <1>2, <2>1, <2>2, <2>7, Written
    <3>2. ASSUME NEW g \in DOMAIN Files
          PROVE  content'[g] = IF g = Bytes!File THEN new ELSE content[g]
      <4>1. content'[g] = [q \in Positions |-> content'[g][q]]
        BY DEF content
      <4>2. content[g] = [q \in Positions |-> content[g][q]]
        BY DEF content
      <4>3. CASE g = Bytes!File
        <5>1. \A q \in Positions : content'[g][q] = new[q]
          BY <3>1, <4>3
        <5> QED BY <4>1, <4>3, <5>1
      <4>4. CASE g # Bytes!File
        <5>1. \A q \in Positions : content'[g][q] = content[g][q]
          BY <3>1, <4>4
        <5> QED BY <4>1, <4>2, <4>4, <5>1
      <4> QED BY <4>3, <4>4
    <3>3. content' = [g \in DOMAIN Files |-> content'[g]]
          /\ content = [g \in DOMAIN Files |-> content[g]]
      BY DEF content
    <3> HIDE DEF new
    <3>4. content' = [content EXCEPT ![Bytes!File] = new]
      BY <3>2, <3>3
    <3>5. Bytes!Write(m)
      BY <1>9, <2>4, <2>5, <2>6, <2>7, <3>4 DEF Bytes!Write, new
    <3> QED BY <2>2, <3>5 DEF Bytes!Next
  <2>8. CASE /\ damaged' = FALSE /\ HereHole
             /\ store' = [store EXCEPT ![Leaf.blk] = Patched(store[Leaf.blk], m)]
    <3>1. ASSUME NEW n, n # 0 PROVE store'[n] = store[n]
      BY <2>8, <3>1 DEF HereHole
    <3>2. UNCHANGED content
      BY <3>1 DEF content
    <3>3. Bytes!WriteLost(m)
      BY <1>9, <2>4, <2>5, <2>6, <2>8, <3>2 DEF Bytes!WriteLost
    <3> QED BY <2>2, <3>3 DEF Bytes!Next
  <2>9. CASE damaged' = FALSE /\ store' = store /\ (HereBadData \/ HereHole)
    <3>1. UNCHANGED content
      BY <2>9, SameContent
    <3>2. Bytes!WriteLost(m)
      BY <1>9, <2>4, <2>5, <2>6, <2>9, <3>1 DEF Bytes!WriteLost
    <3> QED BY <2>2, <3>2 DEF Bytes!Next
  <2>10. CASE damaged' = TRUE /\ HereBadWay
    <3>1. store' \in [Blocks -> Contents]
      BY <1>4 DEF WriteTransfer
    <3>2. content' \in [DOMAIN Files -> [Positions -> Byte]]
      BY <3>1, ContentsAre DEF content
    <3>3. Bytes!WriteAnywhere(m)
      BY <2>4, <2>5, <2>6, <2>10, <3>2 DEF Bytes!WriteAnywhere
    <3> QED BY <2>2, <3>3 DEF Bytes!Next
  <2> QED BY <1>4, <2>7, <2>8, <2>9, <2>10 DEF WriteTransfer
<1> QED BY <1>3, <1>4, WriteCases

LEMMA ReturnBytes ==
    ASSUME Inv, Return PROVE Bytes!Next
<1>1. InProgress /\ Types
  BY DEF Inv, Return, InProgress
<1>2. Moved.done = Moved.count \/ Bytes!AtEnd
  <2>1. call.count \in Nat /\ call.left \in Nat
    BY <1>1, InCall, Constants
  <2>2. call.left = 0 \/ (call.op = "read" /\ EndOfFile)
    BY DEF Return
  <2> QED BY <1>1, <2>1, <2>2, MovedIs DEF EndOfFile
<1>3. Moved' = Bytes!Idle(Moved.done)
  <2>1. call' = Idle(call.count - call.left)
    BY DEF Return
  <2>2. Moved' = call'
    BY <2>1 DEF Moved, Idle
  <2> QED BY <1>1, <2>1, <2>2, MovedIs DEF Idle, Bytes!Idle
<1>4. UNCHANGED <<content, file, offset, dropped, damaged>>
  BY SameContent, SameOffsets DEF Return
<1>5. Bytes!Return
  BY <1>1, <1>2, <1>3, <1>4, MovedIs DEF Bytes!Return
<1> QED BY <1>5 DEF Bytes!Next

(* Reads and writes move exactly the bytes of the file, but for holes, bad *)
(* blocks and bytes behind bad tables (fs.c:132-273, minix3.c:146-202).    *)
THEOREM FileDataImplementsByteFile == Spec => ImplementsByteFile
<1>1. Init => Bytes!Init
  BY InitBytes
<1>2. Inv /\ [(~damaged /\ Next) \/ Halt]_vars => [Bytes!Next]_(Bytes!vars)
  <2> SUFFICES ASSUME Inv, [(~damaged /\ Next) \/ Halt]_vars
               PROVE  [Bytes!Next]_(Bytes!vars)
    OBVIOUS
  <2>1. CASE ~damaged /\ Next
    BY <2>1, BeginBytes, ReadBytes, WriteBytes, ReturnBytes DEF Next, Step
  <2>2. CASE UNCHANGED vars
    <3>1. UNCHANGED <<content, file, offset, dropped, damaged>>
      BY <2>2, SameContent, SameOffsets DEF vars
    <3>2. UNCHANGED Moved
      BY <2>2 DEF vars, Moved
    <3> QED BY <3>1, <3>2 DEF Bytes!vars
  <2> QED BY <2>1, <2>2 DEF Halt
<1> QED BY <1>1, <1>2, FileDataInductive, PTL DEF Spec, ImplementsByteFile, Bytes!Spec

-----------------------------------------------------------------------------
(* Every step of fs_read() and fs_write() brings the call nearer its end:  *)
(* a transfer moves at least one byte, all other steps end the call.       *)

Running(c) == c.op \in {"read", "write"}

StepsLeft == IF Running(call) THEN call.left + 1 ELSE 0

LEMMA EndCounts ==
    ASSUME Types, InProgress, ~Running(call')
    PROVE  StepsLeft \in Nat /\ StepsLeft' < StepsLeft
<1>1. call.left \in Nat
  BY InCall, Constants
<1>2. StepsLeft = call.left + 1 /\ StepsLeft' = 0
  BY DEF StepsLeft, Running, InProgress
<1> QED BY <1>1, <1>2

LEMMA TransferCounts ==
    ASSUME Types, InProgress, NEW m \in Nat \ {0}, m <= call.left,
           NEW data, Transferred(m, data)
    PROVE  StepsLeft \in Nat /\ StepsLeft' < StepsLeft
<1>1. call \in CallType /\ call.left \in Nat
  BY InCall, Constants
<1>2. call'.op = call.op /\ call'.left = call.left - m
  BY <1>1 DEF Transferred, CallType
<1>3. StepsLeft = call.left + 1 /\ StepsLeft' = call.left - m + 1
  BY <1>2 DEF StepsLeft, Running, InProgress
<1> QED BY <1>1, <1>3

LEMMA StoppedCounts ==
    ASSUME Types, InProgress, Stopped
    PROVE  StepsLeft \in Nat /\ StepsLeft' < StepsLeft
<1>1. ~Running(call')
  BY DEF Stopped, Fail, Drop, Spin, Break, Idle, Running
<1> QED BY <1>1, EndCounts

(* One call runs at a time, and it comes to its end: every step of         *)
(* fs_read() and fs_write() leaves fewer steps to go.                      *)
EveryStepCounts == [][~damaged /\ Step => StepsLeft \in Nat /\ StepsLeft' < StepsLeft]_vars

THEOREM FileDataEveryStepCounts == Spec => EveryStepCounts
<1>1. Inv => [~damaged /\ Step => StepsLeft \in Nat /\ StepsLeft' < StepsLeft]_vars
  <2> SUFFICES ASSUME Inv, ~damaged, Step
               PROVE  StepsLeft \in Nat /\ StepsLeft' < StepsLeft
    OBVIOUS
  <2>1. CASE ReadBlock
    <3>1. Types /\ InProgress /\ call.left > 0 /\ ~EndOfFile
      BY <2>1, ReadCases DEF Inv
    <3>2. ASSUME NEW m, NEW data, m = Smaller(call.left, readable), ReadTransfer(m, data)
          PROVE  StepsLeft \in Nat /\ StepsLeft' < StepsLeft
      BY <3>1, <3>2, ReadSize, TransferCounts DEF ReadTransfer
    <3> QED BY <2>1, <3>1, <3>2, ReadCases, StoppedCounts
  <2>2. CASE WriteBlock
    <3>1. Types /\ InProgress /\ call.left > 0
      BY <2>2, WriteCases DEF Inv
    <3>2. ASSUME NEW m, m = Smaller(call.left, BLOCK_SIZE - loff), WriteTransfer(m)
          PROVE  StepsLeft \in Nat /\ StepsLeft' < StepsLeft
      BY <3>1, <3>2, WriteSize, TransferCounts DEF WriteTransfer
    <3> QED BY <2>2, <3>1, <3>2, WriteCases, StoppedCounts
  <2>3. CASE Return
    <3>1. InProgress /\ Types
      BY <2>3 DEF Return, InProgress, Inv
    <3>2. ~Running(call')
      BY <2>3 DEF Return, Idle, Running
    <3> QED BY <3>1, <3>2, EndCounts
  <2> QED BY <2>1, <2>2, <2>3 DEF Step
<1> QED BY <1>1, FileDataInductive, PTL DEF EveryStepCounts
=============================================================================
