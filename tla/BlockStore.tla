----------------------------- MODULE BlockStore -----------------------------
(***************************************************************************)
(* What fs/blkpool.c promises to the rest of the file system, without      *)
(* buffers, free list or replacement: a store of blocks, and the working   *)
(* copies of the blocks that are checked out at the moment.  A block is    *)
(* checked out by one caller at a time, its copy starts as the stored      *)
(* contents, and checking it in stores the copy.                           *)
(*                                                                         *)
(* A copy that is not good is discarded when it is checked in.  Only of    *)
(* the blocks of Unreliable may a copy be other than the stored contents,  *)
(* good or not, and only for them may a check-in be lost.                  *)
(***************************************************************************)
CONSTANTS Blocks, Data, Unreliable

VARIABLES
    store,      \* the contents of every block
    open        \* the working copies, by block number

vars == <<store, open>>

Copies == [good : BOOLEAN, data : Data]

TypeOK ==
    /\ store \in [Blocks -> Data]
    /\ DOMAIN open \subseteq Blocks
    /\ \A n \in DOMAIN open : open[n] \in Copies

Init ==
    /\ store \in [Blocks -> Data]
    /\ open = [n \in {} |-> 0]

CheckOutAs(n, copy) ==
    /\ n \notin DOMAIN open
    /\ open' = [m \in DOMAIN open \cup {n} |-> IF m = n THEN copy ELSE open[m]]
    /\ UNCHANGED store

CheckOut(n) == CheckOutAs(n, [good |-> TRUE, data |-> store[n]])

CheckOutUnreliable(n, copy) ==
    /\ n \in Unreliable
    /\ CheckOutAs(n, copy)

Modify(n, d) ==
    /\ n \in DOMAIN open
    /\ open' = [open EXCEPT ![n].data = d]
    /\ UNCHANGED store

Leave(n) == open' = [m \in DOMAIN open \ {n} |-> open[m]]

CheckIn(n) ==
    /\ n \in DOMAIN open
    /\ store' = IF open[n].good THEN [store EXCEPT ![n] = open[n].data] ELSE store
    /\ Leave(n)

LoseCheckIn(n) ==
    /\ n \in DOMAIN open \cap Unreliable
    /\ UNCHANGED store
    /\ Leave(n)

Next ==
    \E n \in Blocks :
        \/ CheckOut(n)
        \/ \E copy \in Copies : CheckOutUnreliable(n, copy)
        \/ \E d \in Data : Modify(n, d)
        \/ CheckIn(n)
        \/ LoseCheckIn(n)

Spec == Init /\ [][Next]_vars
=============================================================================
