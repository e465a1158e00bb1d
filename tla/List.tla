-------------------------------- MODULE List --------------------------------
(***************************************************************************)
(* The intrusive, circular, doubly linked lists of include/list.h.        *)
(*                                                                         *)
(* The memory of the nodes is a function link from nodes to their two      *)
(* pointers.  A list is named by its dummy node (list_t.head).  Each       *)
(* operator maps the memory before the call to the memory after it, with   *)
(* the assignments in the order of the code, so that calls on nodes whose  *)
(* pointers are stale do here what they do there.                          *)
(*                                                                         *)
(* IsList says what such a memory stands for: the sequence of the nodes    *)
(* met from the dummy node.                                                *)
(***************************************************************************)
EXTENDS Naturals, Sequences

CONSTANT NULL                   \* the null pointer

Links(Nodes) == [Nodes -> [prev : Nodes, next : Nodes]]

node_init(link, node) == [link EXCEPT ![node] = [prev |-> node, next |-> node]]

(* node->prev->next = node->next; node->next->prev = node->prev;           *)
(* The pointers of node itself are left as they were.                      *)
node_remove(link, node) ==
    LET skipped == [link EXCEPT ![link[node].prev].next = link[node].next]
    IN  [skipped EXCEPT ![skipped[node].next].prev = skipped[node].prev]

list_init(link, lst) == node_init(link, lst)

list_is_empty(link, lst) == link[lst].prev = lst

(* Insert node at the end of the list.                                     *)
list_insert(link, lst, node) ==
    LET tied     == [link EXCEPT ![node] = [prev |-> link[lst].prev, next |-> lst]]
        appended == [tied EXCEPT ![tied[lst].prev].next = node]
    IN  [appended EXCEPT ![lst].prev = node]

list_get_head_node(link, lst) ==
    IF list_is_empty(link, lst) THEN NULL ELSE link[lst].next

list_get_tail_node(link, lst) ==
    IF list_is_empty(link, lst) THEN NULL ELSE link[lst].prev

-----------------------------------------------------------------------------
(* What a memory represents.                                               *)

(* The i-th node of list s; the dummy node is both before the first and    *)
(* after the last.                                                         *)
NodeAt(lst, s, i) == IF i \in 1..Len(s) THEN s[i] ELSE lst

(* Following next, and following prev backwards, from the dummy node meets *)
(* the nodes of s.                                                         *)
IsList(link, lst, s) ==
    \A i \in 0..Len(s) :
        /\ link[NodeAt(lst, s, i)].next = NodeAt(lst, s, i + 1)
        /\ link[NodeAt(lst, s, i + 1)].prev = NodeAt(lst, s, i)

(* A list of distinct nodes of Members, none of them the dummy node.       *)
Distinct(s) == \A i, j \in 1..Len(s) : s[i] = s[j] => i = j

Without(s, i) == [j \in 1..(Len(s) - 1) |-> IF j < i THEN s[j] ELSE s[j + 1]]
=============================================================================
