----------------------------- MODULE OpenFiles ------------------------------
(***************************************************************************)
(* What the calls of fs/fs.c promise about files and descriptors, without  *)
(* inodes in memory, file table, counts and locks: a descriptor refers to  *)
(* the file whose path was given when it was opened, until it is closed.   *)
(*                                                                         *)
(* A file is the number of its inode on the disk.  Resolve is a definition *)
(* of what a path names that is independent of the walk of minix3_namei(). *)
(***************************************************************************)
EXTENDS Naturals, Sequences, FiniteSets

CONSTANTS
    NULL,
    Fds,            \* the descriptors
    InoNums,        \* the numbers of the inodes on the disk
    ROOT,           \* the number of the root directory
    Tree,           \* for every directory, its entries: from name to number
    Paths,          \* the paths that are asked for, as sequences of names and "/"
    Capacity        \* so many descriptors can be open in any case

(* Two separators side by side, for which the code has no use.             *)
IsRefused(p) == \E j \in 1..(Len(p) - 1) : p[j] = "/" /\ p[j + 1] = "/"

(* From directory d by one token of a path; a separator changes nothing,   *)
(* and 0 is no file.  In the root directory the name ".." stays there.     *)
Below(d, token) ==
    IF token = "/" \/ (d = ROOT /\ token = "..") THEN d
    ELSE IF d \in DOMAIN Tree /\ token \in DOMAIN Tree[d] THEN Tree[d][token]
    ELSE 0

(* The file that a path names, 0 if there is none.                         *)
Resolve(p) ==
    LET prefix[i \in 0..Len(p)] == IF i = 0 THEN ROOT ELSE Below(prefix[i - 1], p[i])
    IN  IF IsRefused(p) THEN 0 ELSE prefix[Len(p)]

Named == {Resolve(p) : p \in Paths} \ {0}

VARIABLES
    file,       \* the file of every descriptor, NULL if it is not open
    asked       \* the path of the call in progress, NULL if there is none

vars == <<file, asked>>

Init ==
    /\ file = [k \in Fds |-> NULL]
    /\ asked = NULL

Ask(p) ==
    /\ asked = NULL
    /\ asked' = p
    /\ UNCHANGED file

Lowest(k) == file[k] = NULL /\ \A j \in Fds : j < k => file[j] # NULL

(* The call succeeds with the lowest free descriptor, for the named file.  *)
Open(k) ==
    /\ asked # NULL
    /\ Lowest(k)
    /\ Resolve(asked) # 0
    /\ file' = [file EXCEPT ![k] = Resolve(asked)]
    /\ asked' = NULL

(* As above, but the path names nothing and a new file is made.            *)
Create(k, n) ==
    /\ asked # NULL
    /\ Lowest(k)
    /\ Resolve(asked) = 0
    /\ n \notin Named /\ \A j \in Fds : file[j] # n
    /\ file' = [file EXCEPT ![k] = n]
    /\ asked' = NULL

(* The call fails: there is no such file or too much is open already.      *)
Fail ==
    /\ asked # NULL
    /\ \/ Resolve(asked) = 0
       \/ Cardinality({k \in Fds : file[k] # NULL}) >= Capacity
    /\ asked' = NULL
    /\ UNCHANGED file

Close(k) ==
    /\ asked = NULL
    /\ file[k] # NULL
    /\ file' = [file EXCEPT ![k] = NULL]
    /\ UNCHANGED asked

Next ==
    \/ \E p \in Paths : Ask(p)
    \/ \E k \in Fds : Open(k) \/ Close(k)
    \/ \E k \in Fds, n \in InoNums : Create(k, n)
    \/ Fail

Spec == Init /\ [][Next]_vars
=============================================================================
