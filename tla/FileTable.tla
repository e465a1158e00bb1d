----------------------------- MODULE FileTable ------------------------------
(***************************************************************************)
(* The table of open files, fs/file_table.c, and the file descriptors of   *)
(* the process, fs/fd_table.c.  Descriptors refer to entries of the table, *)
(* several of them to one after fd_table_dup_entry(), and an entry refers  *)
(* to an inode.                                                            *)
(***************************************************************************)
EXTENDS IPool

CONSTANTS
    NUM_ENTRIES,            \* number of entries of the file table
    FD_TABLE_NUM_ENTRIES    \* number of descriptors

ASSUME FileTableAssumption ==
    /\ NUM_ENTRIES \in Nat \ {0}
    /\ FD_TABLE_NUM_ENTRIES \in Nat \ {0}

Ftes   == 1..NUM_ENTRIES
FNodes == Ftes \cup {Dummy}
Fds    == 1..FD_TABLE_NUM_ENTRIES

VARIABLES
    fte,        \* the array of file_table_entry_t, without mode and offset
    flink,      \* the free_node of every entry and the dummy node
    fd          \* the entry that a descriptor refers to, NULL if not open

fvars == <<fte, flink, fd>>

file_table_init ==
    /\ fte = [t \in Ftes |-> [count |-> 0, inode |-> NULL]]
    /\ flink = [t \in FNodes |-> [prev |-> IF t = Dummy THEN NUM_ENTRIES ELSE t - 1,
                                  next |-> IF t = NUM_ENTRIES THEN Dummy ELSE t + 1]]

fd_table_init == fd = [k \in Fds |-> NULL]

(* The entry t is the first free one; it is set up for inode i.            *)
file_table_alloc_entry(t, i) ==
    /\ t = list_get_head_node(flink, Dummy)
    /\ flink' = node_remove(flink, t)
    /\ fte' = [fte EXCEPT ![t] = [count |-> 1, inode |-> i]]

NoFreeEntry == list_is_empty(flink, Dummy)

(* One reference less; with the last one _dealloc_entry() gives back the   *)
(* inode and the entry.                                                    *)
file_table_release_entry(t) ==
    LET count == Minus(fte[t].count)
    IN  /\ fte' = [fte EXCEPT ![t].count = count]
        /\ IF count = 0
           THEN ipool_puti(fte[t].inode) /\ flink' = list_insert(flink, Dummy, t)
           ELSE UNCHANGED <<flink, ivars>>

(* The descriptor that fd_table_alloc_entry() finds: the lowest one.       *)
IsFreeFd(k) == fd[k] = NULL /\ \A j \in Fds : j < k => fd[j] # NULL

NoFreeFd == \A k \in Fds : fd[k] # NULL

fd_table_alloc_entry(k, t) ==
    /\ IsFreeFd(k)
    /\ fd' = [fd EXCEPT ![k] = t]

(* Faulty variant of fd_table_dup_entry: the reference is not counted.     *)
fd_table_dup_entry_uncounted(k) ==
    /\ fd[k] # NULL
    /\ \/ /\ \E j \in Fds : fd_table_alloc_entry(j, fd[k])
          /\ UNCHANGED <<fte, flink, ivars>>
       \/ NoFreeFd /\ UNCHANGED <<fvars, ivars>>

(* The reference is taken first, and dropped again if no descriptor is     *)
(* free; it is never the last one.                                         *)
fd_table_dup_entry(k) ==
    /\ fd[k] # NULL
    /\ \/ \E j \in Fds :
            /\ fd_table_alloc_entry(j, fd[k])
            /\ fte' = [fte EXCEPT ![fd[k]].count = Plus(@)]
            /\ UNCHANGED <<flink, ivars>>
       \/ NoFreeFd /\ UNCHANGED <<fvars, ivars>>

(* Faulty variant of fd_table_dealloc_entry: the descriptor stays open.    *)
fd_table_dealloc_entry_open(k) ==
    /\ fd[k] # NULL
    /\ file_table_release_entry(fd[k])
    /\ UNCHANGED fd

fd_table_dealloc_entry(k) ==
    /\ fd[k] # NULL
    /\ file_table_release_entry(fd[k])
    /\ fd' = [fd EXCEPT ![k] = NULL]
=============================================================================
