------------------------------ MODULE MCFrame -------------------------------
(***************************************************************************)
(* Small instances of Frame: pages of 8 addresses, two of them below the   *)
(* frames and some above, and the unit of frame_dealloc() a quarter of a   *)
(* page as in the code.                                                    *)
(***************************************************************************)
EXTENDS Frame

Pages == {p \in 0..(ADDRS - 1) : p % PAGE_SIZE = 0}
=============================================================================
