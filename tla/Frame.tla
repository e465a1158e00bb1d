------------------------------- MODULE Frame --------------------------------
(***************************************************************************)
(* The allocator of page frames, mm/frame.c: a bitmap in words, a bit for  *)
(* every frame from PADDR_MIN on.  A word is the set of the bits that are  *)
(* 1.  Addresses are unsigned and wrap at ADDRS (2^32 in the code).        *)
(*                                                                         *)
(* The functions have no caller yet; here a caller allocates frames, and   *)
(* frees any address of Freed, its own or not.                             *)
(***************************************************************************)
EXTENDS Integers, FiniteSetsExt

CONSTANTS
    ADDRS,          \* how many addresses there are
    PAGE_SIZE,      \* 4096 in the code
    PADDR_MIN,      \* address of the first frame
    LEN,            \* words of the bitmap
    WORD,           \* bits of a word
    UNIT,           \* frame_dealloc() takes the multiples of it, 1024
    Freed           \* addresses that the caller frees

ASSUME FrameAssumption ==
    /\ {ADDRS, PAGE_SIZE, PADDR_MIN, LEN, WORD, UNIT} \subseteq Nat \ {0}
    /\ PADDR_MIN % PAGE_SIZE = 0 /\ ADDRS % PAGE_SIZE = 0
    /\ PADDR_MIN + PAGE_SIZE * WORD * LEN < ADDRS
    /\ Freed \subseteq 0..(ADDRS - 1)

VARIABLES
    bitmap,         \* the words
    owned,          \* the frames that the caller has
    ret             \* the last call and what it returned

vars == <<bitmap, owned, ret>>

Words == 0..(LEN - 1)
Bits == 0..(WORD - 1)

-----------------------------------------------------------------------------
(* Faulty variant of _has_free_frame: the last free bit is not seen.       *)
_has_free_frame_spare(word) == Cardinality(word) < WORD - 1

_has_free_frame(word) == word # Bits

(* Faulty variant of _get_clear_bit_num: the lowest bit that is set, if    *)
(* there is one.                                                           *)
_get_clear_bit_num_set(word) == IF word = {} THEN 0 ELSE Min(word)

_get_clear_bit_num(word) == Min(Bits \ word)

_idx2paddr(i, j) == PADDR_MIN + PAGE_SIZE * (WORD * i + j)

(* Faulty variant of _page_num: it counts from address 0.                  *)
_page_num_absolute(paddr) == paddr \div PAGE_SIZE

(* The first line of _paddr2idx(), with its unsigned subtraction.          *)
_page_num(paddr) == ((paddr - PADDR_MIN) % ADDRS) \div PAGE_SIZE

frame_alloc ==
    LET free == {i \in Words : _has_free_frame(bitmap[i])}
    IN  IF free = {}
        THEN /\ ret' = [call |-> "alloc", paddr |-> 0]
             /\ UNCHANGED <<bitmap, owned>>
        ELSE LET i == Min(free)
                 j == _get_clear_bit_num(bitmap[i])
             IN  /\ bitmap' = [bitmap EXCEPT ![i] = @ \cup {j}]
                 /\ owned' = owned \cup {_idx2paddr(i, j)}
                 /\ ret' = [call |-> "alloc", paddr |-> _idx2paddr(i, j)]

(* Faulty variant of Frees: the bit is not looked at.                      *)
Frees_unset(paddr) ==
    /\ paddr % UNIT = 0
    /\ _page_num(paddr) \div WORD < LEN

(* The three tests of frame_dealloc().                                     *)
Frees(paddr) ==
    /\ paddr % UNIT = 0
    /\ _page_num(paddr) \div WORD < LEN
    /\ _page_num(paddr) % WORD \in bitmap[_page_num(paddr) \div WORD]

frame_dealloc(paddr) ==
    /\ ret' = [call |-> "dealloc", paddr |-> paddr, failed |-> ~Frees(paddr)]
    /\ IF Frees(paddr)
       THEN /\ bitmap' = [bitmap EXCEPT ![_page_num(paddr) \div WORD] =
                                @ \ {_page_num(paddr) % WORD}]
            /\ owned' = owned \ {paddr}
       ELSE UNCHANGED <<bitmap, owned>>

Init ==
    /\ bitmap = [i \in Words |-> {}]
    /\ owned = {}
    /\ ret = [call |-> "none"]

Next == frame_alloc \/ \E paddr \in Freed : frame_dealloc(paddr)

Spec == Init /\ [][Next]_vars
-----------------------------------------------------------------------------
(* Properties                                                              *)

Frames == {_idx2paddr(i, j) : i \in Words, j \in Bits}

(* A bit is 1 if and only if the caller has its frame, whatever page it    *)
(* tries to free, its own or not (frame.c:15-17).  Of addresses inside a   *)
(* page, which the check at frame.c:102 lets through, nothing is said.     *)
UsedIffOwned ==
    /\ owned \subseteq Frames
    /\ \A i \in Words, j \in Bits : j \in bitmap[i] <=> _idx2paddr(i, j) \in owned

(* A frame is never given to a caller that has it already, and none is     *)
(* given only if all are in use (frame.c:75-93).                           *)
AllocFresh ==
    [][ret'.call = "alloc" =>
        \/ ret'.paddr \in Frames \ owned
        \/ ret'.paddr = 0 /\ owned = Frames]_vars

(* frame_dealloc() succeeds for the frames that are in use and fails,      *)
(* changing nothing, for every other page: below the first frame, where    *)
(* the subtraction wraps, after the last, or free already (frame.c:96-118).*)
DeallocOwned ==
    [][ret'.call = "dealloc" =>
        /\ ret'.failed <=> ret'.paddr \notin owned
        /\ ret'.failed => UNCHANGED bitmap]_vars
=============================================================================
