----------------------------- MODULE ListProofs -----------------------------
(***************************************************************************)
(* What the operations of include/list.h do to the sequence that a memory  *)
(* represents, for lists of any length: list_insert appends, node_remove   *)
(* deletes at any position, list_get_head_node returns the first node.     *)
(***************************************************************************)
EXTENDS List, FiniteSetTheorems, TLAPS

(* Both operations map well-typed memories to well-typed memories.         *)
LEMMA InsertType ==
    ASSUME NEW Nodes, NEW link \in Links(Nodes), NEW lst \in Nodes, NEW n \in Nodes
    PROVE  list_insert(link, lst, n) \in Links(Nodes)
<1> DEFINE tied     == [link EXCEPT ![n] = [prev |-> link[lst].prev, next |-> lst]]
           appended == [tied EXCEPT ![tied[lst].prev].next = n]
<1>1. tied \in Links(Nodes)
  BY DEF Links
<1>2. ASSUME NEW l \in Links(Nodes), NEW m \in Nodes
      PROVE  /\ [l EXCEPT ![m].next = n] \in Links(Nodes)
             /\ [l EXCEPT ![m].prev = n] \in Links(Nodes)
  BY DEF Links
<1>3. tied[lst].prev \in Nodes
  BY <1>1 DEF Links
<1>4. appended \in Links(Nodes)
  BY <1>1, <1>2, <1>3
<1> HIDE DEF appended
<1>5. [appended EXCEPT ![lst].prev = n] \in Links(Nodes)
  BY <1>2, <1>4
<1> USE DEF appended
<1> QED BY <1>5 DEF list_insert

LEMMA RemoveType ==
    ASSUME NEW Nodes, NEW link \in Links(Nodes), NEW n \in Nodes
    PROVE  node_remove(link, n) \in Links(Nodes)
BY DEF Links, node_remove

(* The pointers after list_insert (list.h:121-132), when the node is not   *)
(* the old tail: only the tail, the node and the dummy node change.        *)
LEMMA InsertPointers ==
    ASSUME NEW Nodes, NEW link \in Links(Nodes), NEW lst \in Nodes,
           NEW n \in Nodes \ {lst}, link[lst].prev # n
    PROVE  LET new == list_insert(link, lst, n)
               tail == link[lst].prev
           IN  /\ new[n].prev = tail /\ new[n].next = lst
               /\ new[lst].prev = n
               /\ new[tail].next = n
               /\ \A m \in Nodes \ {n, tail} : new[m].next = link[m].next
               /\ \A m \in Nodes \ {n, lst} : new[m].prev = link[m].prev
BY DEF Links, list_insert

(* The pointers after node_remove (list.h:35-39), for a node that is not   *)
(* its own neighbour.                                                      *)
LEMMA RemovePointers ==
    ASSUME NEW Nodes, NEW link \in Links(Nodes), NEW n \in Nodes,
           link[n].prev # n, link[n].next # n
    PROVE  LET new == node_remove(link, n)
               p == link[n].prev
               q == link[n].next
           IN  /\ new[p].next = q
               /\ new[q].prev = p
               /\ \A m \in Nodes \ {p} : new[m].next = link[m].next
               /\ \A m \in Nodes \ {q} : new[m].prev = link[m].prev
BY DEF Links, node_remove

(* list_get_head_node and list_is_empty (list.h:75-90, 135-141) tell the   *)
(* first node of the list, and whether there is one.                       *)
LEMMA HeadOfList ==
    ASSUME NEW Nodes, NEW link \in Links(Nodes), NEW lst \in Nodes,
           NEW s \in Seq(Nodes \ {lst}), IsList(link, lst, s), NULL \notin Nodes
    PROVE  /\ list_is_empty(link, lst) <=> s = << >>
           /\ s # << >> => list_get_head_node(link, lst) = s[1]
           /\ s = << >> => list_get_head_node(link, lst) = NULL
<1>1. link[NodeAt(lst, s, Len(s) + 1)].prev = NodeAt(lst, s, Len(s))
  BY DEF IsList
<1>2. NodeAt(lst, s, Len(s) + 1) = lst
  BY DEF NodeAt
<1>3. CASE s = << >>
  <2>1. NodeAt(lst, s, Len(s)) = lst
    BY <1>3 DEF NodeAt
  <2> QED BY <1>1, <1>2, <1>3, <2>1 DEF list_is_empty, list_get_head_node
<1>4. CASE s # << >>
  <2>1. Len(s) \in Nat /\ Len(s) > 0
    BY <1>4
  <2>2. NodeAt(lst, s, Len(s)) = s[Len(s)] /\ s[Len(s)] # lst
    BY <2>1 DEF NodeAt
  <2>3. link[NodeAt(lst, s, 0)].next = NodeAt(lst, s, 1)
    BY <2>1 DEF IsList
  <2>4. NodeAt(lst, s, 0) = lst /\ NodeAt(lst, s, 1) = s[1]
    BY <2>1 DEF NodeAt
  <2> QED BY <1>1, <1>2, <1>4, <2>2, <2>3, <2>4 DEF list_is_empty, list_get_head_node
<1> QED BY <1>3, <1>4

(* list_insert (list.h:121-132) of a node that is not on the list appends  *)
(* it to the list.                                                         *)
LEMMA InsertAppends ==
    ASSUME NEW Nodes, NEW link \in Links(Nodes), NEW lst \in Nodes,
           NEW s \in Seq(Nodes \ {lst}), IsList(link, lst, s), Distinct(s),
           NEW n \in Nodes \ {lst}, \A i \in 1..Len(s) : s[i] # n
    PROVE  /\ Append(s, n) \in Seq(Nodes \ {lst})
           /\ Distinct(Append(s, n))
           /\ IsList(list_insert(link, lst, n), lst, Append(s, n))
<1> DEFINE t    == Append(s, n)
           new  == list_insert(link, lst, n)
           tail == link[lst].prev
<1>1. /\ t \in Seq(Nodes \ {lst}) /\ Len(t) = Len(s) + 1 /\ Len(s) \in Nat
      /\ t[Len(s) + 1] = n /\ \A i \in 1..Len(s) : t[i] = s[i]
  OBVIOUS
<1>2. Distinct(t)
  BY <1>1 DEF Distinct
<1>3. tail = NodeAt(lst, s, Len(s))
  BY <1>1 DEF IsList, NodeAt
<1>4. tail # n /\ tail \in Nodes
  BY <1>1, <1>3 DEF NodeAt
<1>5. /\ new[n].prev = tail /\ new[n].next = lst
      /\ new[lst].prev = n
      /\ new[tail].next = n
      /\ \A m \in Nodes \ {n, tail} : new[m].next = link[m].next
      /\ \A m \in Nodes \ {n, lst} : new[m].prev = link[m].prev
  BY <1>4, InsertPointers
<1>6. \A i \in 0..Len(s) : NodeAt(lst, t, i) = NodeAt(lst, s, i)
  BY <1>1 DEF NodeAt
<1>7. NodeAt(lst, t, Len(s) + 1) = n /\ NodeAt(lst, t, Len(s) + 2) = lst
  BY <1>1 DEF NodeAt
<1>8. ASSUME NEW i \in 0..(Len(s) + 1)
      PROVE  /\ new[NodeAt(lst, t, i)].next = NodeAt(lst, t, i + 1)
             /\ new[NodeAt(lst, t, i + 1)].prev = NodeAt(lst, t, i)
  <2>1. CASE i = Len(s) + 1
    BY <1>1, <1>5, <1>7, <2>1
  <2>2. CASE i = Len(s)
    BY <1>1, <1>3, <1>5, <1>6, <1>7, <2>2
  <2>3. CASE i < Len(s)
    <3>1. NodeAt(lst, t, i) = NodeAt(lst, s, i)
      BY <1>1, <1>6, <2>3
    <3>2. NodeAt(lst, t, i + 1) = NodeAt(lst, s, i + 1)
      BY <1>1, <1>6, <2>3
    <3>3. NodeAt(lst, s, i) \in Nodes \ {n, tail}
      BY <1>1, <1>3, <2>3 DEF NodeAt, Distinct
    <3>4. NodeAt(lst, s, i + 1) \in Nodes \ {n, lst}
      BY <1>1, <2>3 DEF NodeAt
    <3>5. /\ link[NodeAt(lst, s, i)].next = NodeAt(lst, s, i + 1)
          /\ link[NodeAt(lst, s, i + 1)].prev = NodeAt(lst, s, i)
      BY <1>1, <2>3 DEF IsList
    <3> QED BY <1>5, <3>1, <3>2, <3>3, <3>4, <3>5
  <2> QED BY <1>1, <2>1, <2>2, <2>3
<1>9. IsList(new, lst, t)
  BY <1>1, <1>8 DEF IsList
<1> QED BY <1>1, <1>2, <1>9

(* What Without(s, i) is made of.                                          *)
LEMMA WithoutFacts ==
    ASSUME NEW S, NEW s \in Seq(S), NEW k \in 1..Len(s)
    PROVE  /\ Without(s, k) \in Seq(S)
           /\ Len(Without(s, k)) = Len(s) - 1
           /\ \A j \in 1..(Len(s) - 1) :
                Without(s, k)[j] = IF j < k THEN s[j] ELSE s[j + 1]
<1>1. Len(s) \in Nat /\ k \in Nat /\ k >= 1 /\ Len(s) - 1 \in Nat
  OBVIOUS
<1>2. \A j \in 1..(Len(s) - 1) : (IF j < k THEN s[j] ELSE s[j + 1]) \in S
  BY <1>1
<1> QED BY <1>1, <1>2 DEF Without

(* node_remove (list.h:35-39) of the k-th node deletes it from the list.   *)
LEMMA RemoveDeletes ==
    ASSUME NEW Nodes, NEW link \in Links(Nodes), NEW lst \in Nodes,
           NEW s \in Seq(Nodes \ {lst}), IsList(link, lst, s), Distinct(s),
           NEW k \in 1..Len(s)
    PROVE  /\ Without(s, k) \in Seq(Nodes \ {lst})
           /\ Distinct(Without(s, k))
           /\ IsList(node_remove(link, s[k]), lst, Without(s, k))
           /\ \A m : (\E j \in 1..Len(Without(s, k)) : Without(s, k)[j] = m)
                       <=> m # s[k] /\ \E j \in 1..Len(s) : s[j] = m
<1> DEFINE t   == Without(s, k)
           new == node_remove(link, s[k])
           old(i) == IF i < k THEN i ELSE i + 1     \* place in s of place i in t
<1>1. /\ Len(s) \in Nat /\ k \in Nat /\ k >= 1 /\ k <= Len(s)
      /\ t \in Seq(Nodes \ {lst}) /\ Len(t) = Len(s) - 1
      /\ \A j \in 1..(Len(s) - 1) : t[j] = IF j < k THEN s[j] ELSE s[j + 1]
  BY WithoutFacts
<1>2. Distinct(t)
  BY <1>1 DEF Distinct
<1>3. ASSUME NEW m
      PROVE  (\E j \in 1..Len(t) : t[j] = m)
                <=> m # s[k] /\ \E j \in 1..Len(s) : s[j] = m
  <2>1. ASSUME NEW j \in 1..Len(t), t[j] = m
        PROVE  m # s[k] /\ \E i \in 1..Len(s) : s[i] = m
    <3>1. old(j) \in 1..Len(s) /\ old(j) # k /\ s[old(j)] = m
      BY <1>1, <2>1
    <3> QED BY <1>1, <3>1 DEF Distinct
  <2>2. ASSUME m # s[k], NEW i \in 1..Len(s), s[i] = m
        PROVE  \E j \in 1..Len(t) : t[j] = m
    <3>1. CASE i < k
      BY <1>1, <2>2, <3>1
    <3>2. CASE i > k
      <4>1. i - 1 \in 1..Len(t) /\ ~(i - 1 < k) /\ (i - 1) + 1 = i
        BY <1>1, <3>2
      <4> QED BY <1>1, <2>2, <4>1
    <3> QED BY <1>1, <2>2, <3>1, <3>2
  <2> QED BY <2>1, <2>2
<1>4. /\ link[s[k]].prev = NodeAt(lst, s, k - 1)
      /\ link[s[k]].next = NodeAt(lst, s, k + 1)
  <2>1. k - 1 \in 0..Len(s) /\ (k - 1) + 1 = k /\ k \in 0..Len(s)
    BY <1>1
  <2>2. NodeAt(lst, s, k) = s[k]
    BY DEF NodeAt
  <2> QED BY <2>1, <2>2 DEF IsList
<1>5. NodeAt(lst, s, k - 1) # s[k] /\ NodeAt(lst, s, k + 1) # s[k]
  BY <1>1 DEF NodeAt, Distinct
<1>6. /\ new[NodeAt(lst, s, k - 1)].next = NodeAt(lst, s, k + 1)
      /\ new[NodeAt(lst, s, k + 1)].prev = NodeAt(lst, s, k - 1)
      /\ \A m \in Nodes \ {NodeAt(lst, s, k - 1)} : new[m].next = link[m].next
      /\ \A m \in Nodes \ {NodeAt(lst, s, k + 1)} : new[m].prev = link[m].prev
  BY <1>1, <1>4, <1>5, RemovePointers
<1>7. \A i \in 0..Len(s) : NodeAt(lst, t, i) = NodeAt(lst, s, old(i))
  BY <1>1 DEF NodeAt
<1>8. ASSUME NEW i \in 0..Len(t)
      PROVE  /\ new[NodeAt(lst, t, i)].next = NodeAt(lst, t, i + 1)
             /\ new[NodeAt(lst, t, i + 1)].prev = NodeAt(lst, t, i)
  <2>1. CASE i = k - 1
    BY <1>1, <1>6, <1>7, <2>1
  <2>2. CASE i # k - 1
    <3> DEFINE j == old(i)
    <3>1. j \in 0..Len(s) /\ j # k /\ j # k - 1 /\ old(i + 1) = j + 1
      BY <1>1, <2>2
    <3>2. /\ NodeAt(lst, t, i) = NodeAt(lst, s, j)
          /\ NodeAt(lst, t, i + 1) = NodeAt(lst, s, j + 1)
      BY <1>1, <1>7, <3>1
    <3>3. /\ NodeAt(lst, s, j) \in Nodes
          /\ NodeAt(lst, s, j + 1) \in Nodes
      BY <1>1, <3>1 DEF NodeAt
    <3>4. /\ NodeAt(lst, s, j) # NodeAt(lst, s, k - 1)
          /\ NodeAt(lst, s, j + 1) # NodeAt(lst, s, k + 1)
      BY <1>1, <3>1 DEF NodeAt, Distinct
    <3>5. /\ link[NodeAt(lst, s, j)].next = NodeAt(lst, s, j + 1)
          /\ link[NodeAt(lst, s, j + 1)].prev = NodeAt(lst, s, j)
      BY <3>1 DEF IsList
    <3> QED BY <1>6, <3>2, <3>3, <3>4, <3>5
  <2> QED BY <2>1, <2>2
<1>9. IsList(new, lst, t)
  BY <1>8 DEF IsList
<1> QED BY <1>1, <1>2, <1>3, <1>9

-----------------------------------------------------------------------------
(* A list as the set of its members, which is how the pools use theirs.    *)

ListOf(link, lst, S) ==
    \E s \in Seq(S) : /\ IsList(link, lst, s)
                      /\ Distinct(s)
                      /\ \A m \in S : \E i \in 1..Len(s) : s[i] = m

(* node_remove of a member removes it and nothing else.                    *)
LEMMA TakeMember ==
    ASSUME NEW Nodes, NEW link \in Links(Nodes), NEW lst \in Nodes,
           NEW S \in SUBSET (Nodes \ {lst}), ListOf(link, lst, S), NEW b \in S
    PROVE  ListOf(node_remove(link, b), lst, S \ {b})
<1>1. PICK s \in Seq(S) :
        /\ IsList(link, lst, s)
        /\ Distinct(s)
        /\ \A m \in S : \E i \in 1..Len(s) : s[i] = m
  BY DEF ListOf
<1>2. PICK k \in 1..Len(s) : s[k] = b
  BY <1>1
<1>3. s \in Seq(Nodes \ {lst})
  BY <1>1
<1> DEFINE t == Without(s, k)
<1>4. /\ t \in Seq(Nodes \ {lst})
      /\ Distinct(t)
      /\ IsList(node_remove(link, b), lst, t)
      /\ \A m : (\E j \in 1..Len(t) : t[j] = m)
                  <=> m # b /\ \E j \in 1..Len(s) : s[j] = m
  <2>1. /\ t \in Seq(Nodes \ {lst})
        /\ Distinct(t)
        /\ IsList(node_remove(link, s[k]), lst, t)
        /\ \A m : (\E j \in 1..Len(t) : t[j] = m)
                    <=> m # s[k] /\ \E j \in 1..Len(s) : s[j] = m
    BY <1>1, <1>3, RemoveDeletes
  <2> QED BY <1>2, <2>1
<1> HIDE DEF t
<1>5. \A j \in 1..Len(t) : t[j] \in S \ {b}
  <2>1. ASSUME NEW j \in 1..Len(t)
        PROVE  t[j] \in S \ {b}
    <3>1. t[j] # b /\ \E i \in 1..Len(s) : s[i] = t[j]
      BY <1>4
    <3> QED BY <3>1
  <2> QED BY <2>1
<1>6. t \in Seq(S \ {b})
  BY <1>4, <1>5
<1> QED BY <1>1, <1>4, <1>6 DEF ListOf

(* list_insert of a node that is not a member adds it.                     *)
LEMMA AddMember ==
    ASSUME NEW Nodes, NEW link \in Links(Nodes), NEW lst \in Nodes,
           NEW S \in SUBSET (Nodes \ {lst}), ListOf(link, lst, S),
           NEW b \in Nodes \ {lst}, b \notin S
    PROVE  ListOf(list_insert(link, lst, b), lst, S \cup {b})
<1>1. PICK s \in Seq(S) :
        /\ IsList(link, lst, s)
        /\ Distinct(s)
        /\ \A m \in S : \E i \in 1..Len(s) : s[i] = m
  BY DEF ListOf
<1>2. s \in Seq(Nodes \ {lst}) /\ \A i \in 1..Len(s) : s[i] # b
  BY <1>1
<1>3. /\ Distinct(Append(s, b))
      /\ IsList(list_insert(link, lst, b), lst, Append(s, b))
  BY <1>1, <1>2, InsertAppends
<1>4. /\ Append(s, b) \in Seq(S \cup {b})
      /\ Len(Append(s, b)) = Len(s) + 1 /\ Len(s) \in Nat
      /\ Append(s, b)[Len(s) + 1] = b
      /\ \A i \in 1..Len(s) : Append(s, b)[i] = s[i]
  <2>1. s \in Seq(S \cup {b})
    BY <1>1
  <2> QED BY <2>1
<1>5. \A m \in S \cup {b} : \E i \in 1..Len(Append(s, b)) : Append(s, b)[i] = m
  BY <1>1, <1>4
<1> QED BY <1>3, <1>4, <1>5 DEF ListOf

(* The head node is a member; there is none only if there are no members.  *)
LEMMA HeadMember ==
    ASSUME NEW Nodes, NEW link \in Links(Nodes), NEW lst \in Nodes,
           NEW S \in SUBSET (Nodes \ {lst}), ListOf(link, lst, S), NULL \notin Nodes
    PROVE  /\ list_is_empty(link, lst) <=> S = {}
           /\ S # {} => list_get_head_node(link, lst) \in S
           /\ S = {} => list_get_head_node(link, lst) = NULL
<1>1. PICK s \in Seq(S) :
        /\ IsList(link, lst, s)
        /\ Distinct(s)
        /\ \A m \in S : \E i \in 1..Len(s) : s[i] = m
  BY DEF ListOf
<1>2. s \in Seq(Nodes \ {lst})
  BY <1>1
<1>3. /\ list_is_empty(link, lst) <=> s = << >>
      /\ s # << >> => list_get_head_node(link, lst) = s[1]
      /\ s = << >> => list_get_head_node(link, lst) = NULL
  BY <1>1, <1>2, HeadOfList
<1>4. s # << >> => s[1] \in S
  OBVIOUS
<1>5. s = << >> <=> S = {}
  BY <1>1, <1>4
<1> QED BY <1>3, <1>4, <1>5

(* The list that an initialisation makes of the nodes 1..n, in this order, *)
(* with the dummy node 0.                                                  *)
LEMMA InitialList ==
    ASSUME NEW n \in Nat, NEW link,
           \A i \in 0..n : /\ link[i].prev = IF i = 0 THEN n ELSE i - 1
                           /\ link[i].next = IF i = n THEN 0 ELSE i + 1
    PROVE  ListOf(link, 0, 1..n)
<1> DEFINE s == [i \in 1..n |-> i]
<1>1. s \in Seq(1..n) /\ Len(s) = n /\ \A i \in 1..n : s[i] = i
  OBVIOUS
<1> HIDE DEF s
<1>2. /\ \A i \in 0..n : NodeAt(0, s, i) = i
      /\ NodeAt(0, s, n + 1) = 0
  BY <1>1 DEF NodeAt
<1>3. ASSUME NEW i \in 0..n
      PROVE  /\ link[NodeAt(0, s, i)].next = NodeAt(0, s, i + 1)
             /\ link[NodeAt(0, s, i + 1)].prev = NodeAt(0, s, i)
  <2>1. /\ NodeAt(0, s, i) = i
        /\ NodeAt(0, s, i + 1) = IF i = n THEN 0 ELSE i + 1
    BY <1>2
  <2>2. link[i].next = IF i = n THEN 0 ELSE i + 1
    OBVIOUS
  <2>3. link[IF i = n THEN 0 ELSE i + 1].prev = i
    <3>1. CASE i = n
      <4>1. link[0].prev = n
        OBVIOUS
      <4> QED BY <3>1, <4>1
    <3>2. CASE i # n
      <4>1. i + 1 \in 0..n /\ i + 1 # 0 /\ (i + 1) - 1 = i
        BY <3>2
      <4>2. link[i + 1].prev = i
        BY <4>1
      <4> QED BY <3>2, <4>2
    <3> QED BY <3>1, <3>2
  <2> QED BY <2>1, <2>2, <2>3
<1>4. IsList(link, 0, s)
  BY <1>1, <1>3 DEF IsList
<1>5. Distinct(s)
  BY <1>1 DEF Distinct
<1> QED BY <1>1, <1>4, <1>5 DEF ListOf
(* A list without repetition of nodes 1..n is no longer than n.            *)
LEMMA ShortList ==
    ASSUME NEW n \in Nat, NEW S \in SUBSET (1..n), NEW s \in Seq(S), Distinct(s)
    PROVE  s \in UNION {[1..k -> 1..n] : k \in 0..n}
<1>1. Len(s) \in Nat /\ s \in [1..Len(s) -> 1..n]
  <2>1. Len(s) \in Nat /\ s \in [1..Len(s) -> S]
    OBVIOUS
  <2> QED BY <2>1
<1>2. s \in Injection(1..Len(s), 1..n)
  BY <1>1 DEF Injection, IsInjective, Distinct
<1>3. IsFiniteSet(1..n) /\ Cardinality(1..n) = n
  BY FS_Interval
<1>4. Cardinality(1..Len(s)) <= n
  BY <1>2, <1>3, FS_Injection
<1>5. Cardinality(1..Len(s)) = Len(s)
  <2>1. Cardinality(1..Len(s)) = IF 1 > Len(s) THEN 0 ELSE Len(s) - 1 + 1
    BY <1>1, FS_Interval
  <2> QED BY <1>1, <2>1
<1>6. Len(s) \in 0..n
  BY <1>1, <1>4, <1>5
<1> QED BY <1>1, <1>6
=============================================================================
