----------------------------- MODULE MCFileData -----------------------------
(***************************************************************************)
(* A small disk for FileData: blocks of two bytes, one direct zone, and so *)
(* files of up to seven blocks, which take 11 with their tables.  Block b  *)
(* of the data holds <<2b, 2b + 1>>.                                       *)
(***************************************************************************)
EXTENDS FileData

Block(a, b) == [i \in 0..1 |-> IF i = 0 THEN a ELSE b]

(* The tables of the long file are 3, 6, 7 and 8.  It has two holes, one   *)
(* behind table 7, which is bad, and one behind table 8.                   *)
Disk == [n \in 0..14 |->
            CASE n = 0 -> Block(0, 2)
              [] n = 3 -> Block(4, 5)
              [] n = 6 -> Block(7, 8)
              [] n = 7 -> Block(9, 0)
              [] n = 8 -> Block(0, 12)
              [] OTHER -> Block(2 * n, 2 * n + 1)]

Zones(a, b, c) == [i \in 0..3 |-> CASE i = 0 -> a [] i = 1 -> b [] i = 2 -> c [] OTHER -> 0]

Long  == [i_size |-> 13, i_zone |-> Zones(2, 3, 6)]
Short == [i_size |-> 2, i_zone |-> Zones(13, 0, 0)]

LongShort == [long |-> Long, short |-> Short]

(* Both descriptors refer to the long file, or one of them to the short.   *)
TwoOrOne == { <<"long", "long">>, <<"long", "short">> }
OnlyShort == { <<"short">> }

Letters == <<31, 32, 33, 34, 35>>
(* Also the number of the superblock.                                      *)
Other == {Block(13, 1)}
=============================================================================
