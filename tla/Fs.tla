--------------------------------- MODULE Fs ---------------------------------
(***************************************************************************)
(* The calls of fs/fs.c on paths and descriptors, with the path walk and   *)
(* the inode allocation of fs/minix3.c: what they do to the inodes in      *)
(* memory, the file table and the descriptors of the process.              *)
(*                                                                         *)
(* fs_open() and fs_creat() go step by step: call.pc is the place in the   *)
(* code, and each step makes at most one change to a reference count.  The *)
(* other calls are one step.  One call runs at a time.                     *)
(*                                                                         *)
(* The disk below is a tree of directories that does not change, and the   *)
(* bitmap of inodes; reading from it may fail if FaultyReads.  The blocks  *)
(* of a directory are not modelled here, the data of files in FileData.    *)
(***************************************************************************)
EXTENDS FileTable, Path

CONSTANTS
    ROOT,           \* MINIX3_ROOT_INODE_NUM
    Tree,           \* for every directory, its entries: from name to number
    Paths,          \* the paths asked for, see Path
    Calls,          \* the calls that are made
    MaxCount,       \* bound: no fs_creat() once an inode has more references
    Capacity        \* so many descriptors can be open in any case

ASSUME FsAssumption ==
    /\ InoNums = 1..NumInodes
    /\ ROOT = MINIX3_ROOT_INODE_NUM /\ ROOT \in DOMAIN Tree
    /\ DOMAIN Tree \subseteq InoNums
    /\ \A d \in DOMAIN Tree : \A c \in DOMAIN Tree[d] : Tree[d][c] \in InoNums
    /\ Calls \subseteq {"open", "creat", "close", "write", "dup"}

(* The paths as Path has them; and mkfs makes the root its own parent.     *)
ASSUME PathAssumption ==
    /\ Paths \subseteq Seq(STRING) \ {<< >>} /\ NULL \notin Paths
    /\ \A p \in Paths : \A j \in 1..(Len(p) - 1) : p[j] = SEP \/ p[j + 1] = SEP
    /\ ".." \in DOMAIN Tree[ROOT] /\ Tree[ROOT][".."] = ROOT

(* An unsigned has room for the references that there can be to an inode   *)
(* (of open files, a call, the process, and those lost) or to an entry.    *)
ASSUME UIntAssumption ==
    /\ MaxCount \in Nat
    /\ NUM_ENTRIES + MaxCount + 6 < UINT_MOD
    /\ FD_TABLE_NUM_ENTRIES < UINT_MOD

(* The one process; its root and working directory is the inode that       *)
(* ptable_init() got, the first of the pool.                               *)
icrd == 1

VARIABLES
    imap,       \* the bits that are set in the inode bitmap, see Layout
    call,       \* the call in progress
    lost        \* history: the references to every inode that were forgotten

vars == <<inode, ilink, fte, flink, fd, imap, lost, call>>

(* op: the call; path: what it was given; rest: what is left of it; wino:  *)
(* the working inode of the walk, then the inode found; new: the inode     *)
(* entered next; pdir: *pdir_ino; entry: the file table entry.             *)
Idle == [op |-> "none", pc |-> "idle", path |-> << >>, rest |-> << >>,
         wino |-> NULL, new |-> NULL, pdir |-> NULL, entry |-> NULL]

Go(label) == [call EXCEPT !.pc = label]

-----------------------------------------------------------------------------
(* minix3_namei()                                                          *)

(* An empty path, for which nothing is done at all, is not among Paths.    *)
Start(op) ==
    /\ call.pc = "idle"
    /\ op \in Calls
    /\ \E p \in Paths : call' = [Idle EXCEPT !.op = op, !.pc = "root", !.path = p,
                                                !.rest = FromRoot(p)]
    /\ UNCHANGED <<ivars, fvars, imap, lost>>

fs_open == Start("open")
fs_creat == Start("creat") /\ \A i \in Inos : inode[i].count <= MaxCount

Root ==
    /\ call.pc = "root"
    /\ \/ \E i \in Inos : /\ ipool_geti(ROOT, i)
                         /\ call' = [call EXCEPT !.wino = i, !.pc = "walk"]
       \/ geti_null(ROOT) /\ call' = Idle
       \/ geti_spins(ROOT) /\ call' = Go("spin")
    /\ UNCHANGED <<fvars, imap, lost>>

(* Faulty variant of MoreComponents: the last component is not looked up.  *)
MoreComponents_early == Len(call.rest) > 1

MoreComponents == call.rest # << >>
Component == component(call.rest)

(* Only fs_creat() asks for the directory of the last component.           *)
keep_pdir_ino == call.op = "creat" /\ rest(call.rest) = << >>

inode_is_dir(i) == inode[i].dinode \in DOMAIN Tree

Walkable == inode_is_dir(call.wino) /\ _component_is_valid(Component)

(* Not if a separator follows; then the entry of the root is looked up.    *)
StaysAtRoot ==
    /\ inode[call.wino].num = MINIX3_ROOT_INODE_NUM
    /\ _component_matches_str(Component, "..")

WalkEnds ==
    /\ call.pc = "walk"
    /\ ~MoreComponents
    /\ call' = Go("found")
    /\ UNCHANGED <<ivars, fvars, imap, lost>>

WalkRefused ==
    /\ call.pc = "walk"
    /\ MoreComponents /\ ~Walkable
    /\ ipool_puti(call.wino)
    /\ call' = Idle
    /\ UNCHANGED <<fvars, imap, lost>>

WalkStays ==
    /\ call.pc = "walk"
    /\ MoreComponents /\ Walkable /\ StaysAtRoot
    /\ call' = [call EXCEPT !.rest = rest(@)]
    /\ UNCHANGED <<ivars, fvars, imap, lost>>

(* _get_dir_entry_inode(): the directory is the one whose contents the     *)
(* working inode has.  That a name with a separator after it is the name   *)
(* of a directory is not checked: the check looks at the working inode.    *)
Entries == Tree[inode[call.wino].dinode]
Name    == NameOf(Component)

Lookup ==
    /\ call.pc = "walk"
    /\ MoreComponents /\ Walkable /\ ~StaysAtRoot
    /\ \/ /\ Name \notin DOMAIN Entries \/ FaultyReads
          /\ call' = Go("missing")
          /\ UNCHANGED ivars
       \/ /\ Name \in DOMAIN Entries
          /\ LET n == Entries[Name]
             IN  IF n = inode[call.wino].num
                 THEN /\ inode' = [inode EXCEPT ![call.wino].count = Plus(@)]
                      /\ call' = [call EXCEPT !.new = call.wino, !.pc = "enter"]
                      /\ UNCHANGED ilink
                 ELSE \/ \E i \in Inos : /\ ipool_geti(n, i)
                                        /\ call' = [call EXCEPT !.new = i, !.pc = "enter"]
                      \/ geti_null(n) /\ call' = Go("missing")
                      \/ geti_spins(n) /\ call' = Go("spin")
    /\ UNCHANGED <<fvars, imap, lost>>

(* Faulty variant of Missing: the directory that is handed over is also    *)
(* given back.                                                             *)
Missing_puts ==
    /\ call.pc = "missing"
    /\ ipool_puti(call.wino)
    /\ call' = IF keep_pdir_ino
               THEN [call EXCEPT !.pdir = call.wino, !.wino = NULL, !.pc = "alloci"]
               ELSE Idle
    /\ UNCHANGED <<fvars, imap, lost>>

Missing ==
    /\ call.pc = "missing"
    /\ IF keep_pdir_ino
       THEN /\ call' = [call EXCEPT !.pdir = call.wino, !.wino = NULL, !.pc = "alloci"]
            /\ UNCHANGED ivars
       ELSE /\ ipool_puti(call.wino)
            /\ call' = Idle
    /\ UNCHANGED <<fvars, imap, lost>>

(* Faulty variants of Enter: the parent is not given back; the working     *)
(* inode is taken from new after new has been cleared.                     *)
Enter_leaks ==
    /\ call.pc = "enter"
    /\ call' = [call EXCEPT !.pdir = IF keep_pdir_ino THEN call.wino ELSE @,
                            !.wino = call.new, !.new = NULL,
                            !.rest = rest(@), !.pc = "walk"]
    /\ UNCHANGED <<ivars, fvars, imap, lost>>

Enter_cleared ==
    /\ call.pc = "enter"
    /\ call' = [call EXCEPT !.pdir = IF keep_pdir_ino THEN call.wino ELSE @,
                            !.wino = NULL, !.new = NULL,
                            !.rest = rest(@), !.pc = "walk"]
    /\ IF keep_pdir_ino THEN UNCHANGED ivars ELSE ipool_puti(call.wino)
    /\ UNCHANGED <<fvars, imap, lost>>

Enter ==
    /\ call.pc = "enter"
    /\ call' = [call EXCEPT !.pdir = IF keep_pdir_ino THEN call.wino ELSE @,
                            !.wino = call.new, !.new = NULL,
                            !.rest = rest(@), !.pc = "walk"]
    /\ IF keep_pdir_ino THEN UNCHANGED ivars ELSE ipool_puti(call.wino)
    /\ UNCHANGED <<fvars, imap, lost>>

-----------------------------------------------------------------------------
(* minix3_alloci(), called by fs_creat() if the walk found the directory.  *)

Alloci ==
    /\ call.pc = "alloci"
    /\ \E n \in minix3_imap_get_free(imap, ~FaultyReads) :
        IF n = 0 THEN call' = Go("put_pdir") /\ UNCHANGED ivars
        ELSE \/ \E i \in Inos : /\ ipool_geti(n, i)
                               /\ call' = [call EXCEPT !.wino = i, !.pc = "seti"]
             \/ geti_null(n) /\ call' = Go("put_pdir")
             \/ geti_spins(n) /\ call' = Go("spin")
    /\ UNCHANGED <<fvars, imap, lost>>

minix3_imap_set(n) == imap' = imap \cup {Bit(n)}

(* assert(1 == ino->count), then the bit is set if there is one.           *)
Seti ==
    /\ call.pc = "seti"
    /\ LET n == inode[call.wino].num
       IN  IF inode[call.wino].count # 1
           THEN call' = Go("abort") /\ UNCHANGED <<ivars, imap>>
           ELSE \/ /\ InBitmap(n)
                   /\ minix3_imap_set(n)
                   /\ call' = Go("linked")
                   /\ UNCHANGED ivars
                \/ /\ FaultyReads \/ ~InBitmap(n)
                   /\ ipool_puti(call.wino)
                   /\ call' = [call EXCEPT !.wino = NULL, !.pc = "put_pdir"]
                   /\ UNCHANGED imap
    /\ UNCHANGED <<fvars, lost>>

(* _create_dir_entry() does nothing yet.                                   *)
Linked ==
    /\ call.pc = "linked"
    /\ ipool_puti(call.pdir)
    /\ call' = [call EXCEPT !.pdir = NULL, !.pc = "fte"]
    /\ UNCHANGED <<fvars, imap, lost>>

-----------------------------------------------------------------------------
(* The rest of fs_open() and fs_creat(): the file table entry and the      *)
(* descriptor, and the way back if there is none.                          *)

(* Faulty variant of Found: fs_open() does not unlock the inode.           *)
Found_locked ==
    /\ call.pc = "found"
    /\ call' = Go("fte")
    /\ UNCHANGED <<ivars, fvars, imap, lost>>

Found ==
    /\ call.pc = "found"
    /\ IF call.op = "open" THEN inode_unlock(call.wino) ELSE UNCHANGED ivars
    /\ call' = Go("fte")
    /\ UNCHANGED <<fvars, imap, lost>>

AllocFte ==
    /\ call.pc = "fte"
    /\ \/ \E t \in Ftes :
            /\ file_table_alloc_entry(t, call.wino)
            /\ call' = [call EXCEPT !.entry = t, !.pc = "fd"]
       \/ NoFreeEntry /\ call' = Go("put_ino") /\ UNCHANGED <<fte, flink>>
    /\ UNCHANGED <<ivars, fd, imap, lost>>

(* fs_creat() unlocks the inode only now, and returns without giving back  *)
(* the directory of a file that existed before.                            *)
AllocFd ==
    /\ call.pc = "fd"
    /\ \/ /\ \E k \in Fds : fd_table_alloc_entry(k, call.entry)
          /\ IF call.op = "creat" THEN inode_unlock(call.wino) ELSE UNCHANGED ivars
          /\ lost' = IF call.pdir = NULL THEN lost
                     ELSE [lost EXCEPT ![call.pdir] = @ + 1]
          /\ call' = Idle
       \/ /\ NoFreeFd
          /\ call' = Go("put_fte")
          /\ UNCHANGED <<fd, ivars, lost>>
    /\ UNCHANGED <<fte, flink, imap>>

PutFte ==
    /\ call.pc = "put_fte"
    /\ file_table_release_entry(call.entry)
    /\ call' = Go("put_ino")
    /\ UNCHANGED <<fd, imap, lost>>

(* After PutFte the reference has been given back already, and the second  *)
(* time ends what can be said.  That is only possible if descriptors share *)
(* an entry, for otherwise entries run out first.                          *)
PutIno ==
    /\ call.pc = "put_ino"
    /\ ipool_puti(call.wino)
    /\ call' = CASE call.entry # NULL -> Go("twice")
                 [] call.entry = NULL /\ call.pdir = NULL -> Idle
                 [] OTHER -> [call EXCEPT !.wino = NULL, !.pc = "put_pdir"]
    /\ UNCHANGED <<fvars, imap, lost>>

PutPdir ==
    /\ call.pc = "put_pdir"
    /\ ipool_puti(call.pdir)
    /\ call' = Idle
    /\ UNCHANGED <<fvars, imap, lost>>

-----------------------------------------------------------------------------
(* The calls on descriptors                                                *)

fs_close(k) ==
    /\ call.pc = "idle" /\ "close" \in Calls
    /\ fd_table_dealloc_entry(k)
    /\ UNCHANGED <<imap, lost, call>>

(* The inode is locked and, but for a failure of minix3_bmap(), unlocked.  *)
fs_write(k) ==
    /\ call.pc = "idle" /\ "write" \in Calls
    /\ fd[k] # NULL
    /\ \/ inode_unlock(fte[fd[k]].inode)
       \/ FaultyReads /\ inode_lock(fte[fd[k]].inode)
    /\ UNCHANGED <<fvars, imap, lost, call>>

(* No call of fs/fs.c duplicates descriptors yet; the table offers it.     *)
dup(k) ==
    /\ call.pc = "idle" /\ "dup" \in Calls
    /\ fd_table_dup_entry(k)
    /\ UNCHANGED <<imap, lost, call>>

-----------------------------------------------------------------------------
(* After fs_init() and ptable_init(): the root directory is in the first   *)
(* inode, referenced by the process and unlocked.                          *)
Init ==
    /\ inode = [i \in Inos |->
                  IF i = icrd
                  THEN [num |-> ROOT, count |-> 1, locked |-> FALSE,
                        valid |-> TRUE, dinode |-> ROOT]
                  ELSE [num |-> 0, count |-> 0, locked |-> FALSE,
                        valid |-> FALSE, dinode |-> 0]]
    /\ ilink = node_remove(InitIlink, icrd)
    /\ file_table_init
    /\ fd_table_init
    /\ imap = BitsOf({0} \cup DOMAIN Tree
                     \cup UNION {{Tree[d][c] : c \in DOMAIN Tree[d]} : d \in DOMAIN Tree})
    /\ call = Idle
    /\ lost = [i \in Inos |-> 0]

Step ==
    \/ Root \/ WalkEnds \/ WalkRefused \/ WalkStays \/ Lookup \/ Missing \/ Enter
    \/ Alloci \/ Seti \/ Linked
    \/ Found \/ AllocFte \/ AllocFd \/ PutFte \/ PutIno \/ PutPdir

Next ==
    \/ fs_open
    \/ fs_creat
    \/ \E k \in Fds : fs_close(k) \/ fs_write(k) \/ dup(k)
    \/ Step

(* while (1), the end of the program after a failed assertion, and a       *)
(* reference given back twice.                                             *)
Halt == call.pc \in {"spin", "abort", "twice"} /\ UNCHANGED vars

Spec == Init /\ [][Next \/ Halt]_vars

(* The processor runs a call that is in progress.                          *)
FairSpec == Spec /\ WF_vars(Step)
-----------------------------------------------------------------------------
(* Properties                                                              *)

Labels == {"idle", "root", "walk", "missing", "enter", "alloci", "seti", "linked",
           "found", "fte", "fd", "put_fte", "put_ino", "put_pdir", "spin", "abort", "twice"}

(* The pointers of a call are not null where they are used.                *)
TypeOK ==
    /\ inode \in [Inos -> [num : Nat, count : 0..(UINT_MOD - 1), locked : BOOLEAN,
                           valid : BOOLEAN, dinode : InoNums \cup {0}]]
    /\ ilink \in Links(INodes)
    /\ fte \in [Ftes -> [count : 0..(UINT_MOD - 1), inode : Inos \cup {NULL}]]
    /\ flink \in Links(FNodes)
    /\ fd \in [Fds -> Ftes \cup {NULL}]
    /\ imap \subseteq [blk : Nat, byte : 0..(BLOCK_SIZE - 1), bit : 0..(BYTE - 1)]
    /\ call.pc \in Labels
    /\ {call.wino, call.new, call.pdir} \subseteq Inos \cup {NULL}
    /\ call.entry \in Ftes \cup {NULL}
    /\ call.pc \in {"walk", "missing", "enter", "seti", "linked", "found",
                    "fte", "fd", "put_fte", "put_ino"} => call.wino \in Inos
    /\ call.pc = "enter" => call.new \in Inos
    /\ call.pc \in {"alloci", "seti", "linked", "put_pdir"} => call.pdir \in Inos
    /\ call.pc \in {"fd", "put_fte"} => call.entry \in Ftes

(* Who references inode i: open files, the process (its root directory),   *)
(* and the variables of the call in progress.  Once the file table entry   *)
(* is allocated the reference of wino is the entry's.                      *)
OpenRefs(i) == Cardinality({t \in Ftes : fte[t].count # 0 /\ fte[t].inode = i})
CallRefs(i) ==
    Cardinality({v \in {"wino", "new", "pdir"} :
                    /\ call[v] = i
                    /\ v = "wino" => call.entry = NULL})
References(i) == OpenRefs(i) + CallRefs(i) + (IF i = icrd THEN 1 ELSE 0)

(* Every reference is counted and given back exactly once, on every path   *)
(* through namei (minix3.c:394-471), fs_open and fs_creat (fs.c:34-122),   *)
(* so that no inode is freed under an open file.  Only fs_creat() of a     *)
(* file that exists forgets one, that of the directory, which is then lost *)
(* to the pool; and only after fs.c:115 is one given back twice.           *)
RefCount ==
    call.pc # "twice" => \A i \in Inos : inode[i].count = References(i) + lost[i]

(* ipool.c:87, "inode on the free list <--> count is zero", until one is   *)
(* given back twice.                                                       *)
InoSeqs == UNION {[1..k -> Inos] : k \in 0..IPOOL_SIZE}
FreeIffCountZero ==
    call.pc # "twice" =>
        \E s \in InoSeqs :
            /\ IsList(ilink, Dummy, s)
            /\ Distinct(s)
            /\ \A i \in Inos : (\E j \in 1..Len(s) : s[j] = i) <=> inode[i].count = 0

(* An entry of the file table counts the descriptors that refer to it, and *)
(* the call that is about to give it one (fd_table.c:47-102); it is on the *)
(* free list (file_table.c:31-42, 66-76) when there are none.              *)
FteSeqs == UNION {[1..k -> Ftes] : k \in 0..NUM_ENTRIES}
EntryCount ==
    /\ \A t \in Ftes :
        fte[t].count = Cardinality({k \in Fds : fd[k] = t})
                        + (IF call.entry = t /\ call.pc \in {"fd", "put_fte"} THEN 1 ELSE 0)
    /\ \E s \in FteSeqs :
        /\ IsList(flink, Dummy, s)
        /\ Distinct(s)
        /\ \A t \in Ftes : (\E j \in 1..Len(s) : s[j] = t) <=> fte[t].count = 0

(* No inode stays locked after a call, which would make the next walk over *)
(* it spin in ipool_geti() (ipool.c:97-103).                               *)
UnlockedWhenIdle == call.pc = "idle" => \A i \in Inos : ~inode[i].locked

(* inode.h:18, "actual data": the contents of an inode that is referenced  *)
(* are those of the inode on the disk that has its number, unless reading  *)
(* it has failed: then it is found again with the contents of another      *)
(* inode, and its valid, which nobody looks at, says so (ipool.c:96-134).  *)
ValidIsActual ==
    \A i \in Inos : inode[i].count # 0 /\ inode[i].valid => inode[i].dinode = inode[i].num

(* minix3.c:489, assert(1 == ino->count): the number that the bitmap gives *)
(* to a new file is nobody's.                                              *)
AssertHolds == call.pc # "abort"

(* Every call returns.                                                     *)
EveryCallReturns == call.pc # "idle" ~> call.pc = "idle"

(* The calls implement descriptors that refer to files.                    *)
file == [k \in Fds |-> IF fd[k] = NULL THEN NULL ELSE inode[fte[fd[k]].inode].num]
asked == IF call.pc = "idle" THEN NULL ELSE call.path

Files == INSTANCE OpenFiles

ImplementsOpenFiles == Files!Spec
=============================================================================
