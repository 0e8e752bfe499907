------------------------------- MODULE Files --------------------------------
(***************************************************************************)
(* The open files of processes: descriptor tables, current directories and *)
(* the system calls on them (sysfile.c, file.c, fs.c, vfs*.c) over Sfs,    *)
(* with the file half of fork, exec and exit (proc.c).                     *)
(*                                                                         *)
(* No process is created with CLONE_FS, so a table has one user, and the   *)
(* FD_INIT and FD_CLOSED states last within one call only.  A call that    *)
(* fails before it changes anything is no step; one whose assertion fails  *)
(* stops the kernel and is no step either.  The files_struct of alloc_proc *)
(* that copy_files replaces is memory, not an open file.                   *)
(***************************************************************************)
EXTENDS Sfs

CONSTANTS Proc,      \* user process slots
          NFD,       \* FILES_STRUCT_NENTRY
          StdFds,    \* the descriptors files_closeall skips (2 in the code)
          Root,      \* the root directory
          MaxSize,   \* bound: blocks of a file
          MaxLost    \* bound: references vfs_open forgets

NULL == "null"

ASSUME FilesAssumption ==
    /\ NFD \in Nat /\ StdFds \in 0 .. NFD /\ Root \in Dir /\ MaxSize \in Nat /\ MaxLost \in Nat
    /\ IsFiniteSet(Proc) /\ NULL \notin Ino

VARIABLES
    fd,      \* filesp->fd_array: node, pos and writable of each descriptor
    pwd,     \* filesp->pwd, NULL without a process
    s,       \* the file system (Sfs)
    lost     \* references to each inode that vfs_open took and nobody will drop

vars == <<fd, pwd, s, lost>>

Fd == 0 .. NFD - 1
Unused == [node |-> NULL, pos |-> 0, w |-> FALSE]

Live(p) == pwd[p] # NULL
Opened(p, n) == fd[p][n].node # NULL

-----------------------------------------------------------------------------
\* fd_array_alloc(NO_FD): the lowest free descriptor of a table.
hasFree(t) == \E n \in Fd : t[n].node = NULL
fd_array_alloc(t) == Min({n \in Fd : t[n].node = NULL})

\* How many of the descriptors ns of a table name the inode i.
uses(t, ns, i) == Cardinality({n \in ns : t[n].node = i})

\* fd_array_close of a set of descriptors of a table: a vfs_close for each, and
\* sfs_reclaim of an inode that loses its last reference.
closed(t, ns) == [n \in Fd |-> IF n \in ns THEN Unused ELSE t[n]]
fd_array_close(f, t, ns) ==
    [f EXCEPT !.node = [i \in Ino |->
        LET k == uses(t, ns, i)
        IN  IF k > 0 /\ f.node[i].ref = k THEN NoNode
            ELSE [f.node[i] EXCEPT !.ref = @ - k, !.open = @ - k]]]
openOf(t) == {n \in Fd : t[n].node # NULL}

\* fd_array_dup of a set of descriptors: vop_ref_inc and vop_open_inc for each.
fd_array_dup_NoRef(f, t, ns) ==
    [f EXCEPT !.node = [i \in Ino |-> [f.node[i] EXCEPT !.open = @ + uses(t, ns, i)]]]
fd_array_dup(f, t, ns) ==
    [f EXCEPT !.node = [i \in Ino |->
        [f.node[i] EXCEPT !.ref = @ + uses(t, ns, i), !.open = @ + uses(t, ns, i)]]]

\* vfs_open and file_open of a name that exists: O_RDONLY, O_RDWR, O_RDWR with O_TRUNC,
\* O_CREAT or O_APPEND, and O_RDONLY with O_CREAT, which truncates what it cannot write.
Mode == {"r", "w", "trunc", "append", "create"}
Modes(i) == IF i \in File THEN Mode ELSE IF i \in Dev THEN {"r", "w"} ELSE {"r"}
Truncating == {"trunc", "create"}
vfs_open(f, i, mode) ==
    LET g == inode_open_inc(sfs_load_inode(f, i), i)
    IN  IF mode \in Truncating THEN sfs_truncfile(g, i, 0) ELSE g

file_open(p, i, mode) ==
    /\ Live(p) /\ hasFree(fd[p]) /\ mode \in Modes(i)
    /\ mode \in Truncating => truncateAsserts(sfs_load_inode(s, i), i, 0)
    /\ LET t == vfs_open(s, i, mode)
       IN  /\ s' = t
           /\ fd' = [fd EXCEPT ![p][fd_array_alloc(fd[p])] =
                        [node |-> i, pos |-> IF mode = "append" THEN t.node[i].size ELSE 0,
                         w |-> mode \notin {"r", "create"}]]
    /\ UNCHANGED <<pwd, lost>>

\* O_CREAT with O_EXCL of a name that exists: -E_EXISTS without a vop_ref_dec.
vfs_open_Exists(p, i) ==
    /\ Live(p) /\ hasFree(fd[p]) /\ MapThenSumSet(LAMBDA j : lost[j], Ino) < MaxLost
    /\ s' = sfs_load_inode(s, i)
    /\ lost' = [lost EXCEPT ![i] = @ + 1]
    /\ UNCHANGED <<fd, pwd>>

file_close(p, n) ==
    /\ Live(p) /\ Opened(p, n)
    /\ s' = vfs_close(s, fd[p][n].node)
    /\ fd' = [fd EXCEPT ![p] = closed(@, {n})]
    /\ UNCHANGED <<pwd, lost>>

\* One block read or written at the descriptor's position.
file_read(p, n) ==
    /\ Live(p) /\ fd[p][n].node \in File
    /\ fd[p][n].pos < s.node[fd[p][n].node].size /\ ioAsserts(s, fd[p][n].node, fd[p][n].pos)
    /\ fd' = [fd EXCEPT ![p][n].pos = @ + 1]
    /\ UNCHANGED <<pwd, s, lost>>

file_write(p, n) ==
    /\ Live(p) /\ fd[p][n].node \in File /\ fd[p][n].w /\ fd[p][n].pos < MaxSize
    /\ ioAsserts(s, fd[p][n].node, fd[p][n].pos)
    /\ s' = sfs_write(s, fd[p][n].node, fd[p][n].pos)
    /\ fd' = [fd EXCEPT ![p][n].pos = @ + 1]
    /\ UNCHANGED <<pwd, lost>>

\* lseek, with sfs_tryseek: a position past the end grows the file, or fails.
file_seek(p, n, pos) ==
    /\ Live(p) /\ fd[p][n].node \in File
    /\ LET i == fd[p][n].node
           t == IF pos > s.node[i].size THEN sfs_truncfile(s, i, pos) ELSE s
       IN  /\ pos > s.node[i].size => truncateAsserts(s, i, pos)
           /\ s' = t
           /\ fd' = IF pos > t.node[i].size THEN fd ELSE [fd EXCEPT ![p][n].pos = pos]
    /\ UNCHANGED <<pwd, lost>>

\* file_dup to a free descriptor.
file_dup(p, n, m) ==
    /\ Live(p) /\ Opened(p, n) /\ ~Opened(p, m)
    /\ s' = fd_array_dup(s, fd[p], {n})
    /\ fd' = [fd EXCEPT ![p][m] = fd[p][n]]
    /\ UNCHANGED <<pwd, lost>>

\* vfs_chdir with vfs_set_curdir.
vfs_chdir(p, d) ==
    /\ Live(p) /\ d \in Dir /\ d # pwd[p]
    /\ s' = inode_ref_dec(sfs_load_inode(s, d), pwd[p])
    /\ pwd' = [pwd EXCEPT ![p] = d]
    /\ UNCHANGED <<fd, lost>>

-----------------------------------------------------------------------------
\* copy_files with dup_files; the first process is forked by init, in Root.
Fork(p, q) ==
    /\ Live(p) /\ ~Live(q)
    /\ s' = fd_array_dup(inode_ref_inc(s, pwd[p]), fd[p], openOf(fd[p]))
    /\ fd' = [fd EXCEPT ![q] = fd[p]]
    /\ pwd' = [pwd EXCEPT ![q] = pwd[p]]
    /\ UNCHANGED lost

Spawn(q) ==
    /\ \A p \in Proc : ~Live(p)
    /\ s' = inode_ref_inc(s, Root)
    /\ pwd' = [pwd EXCEPT ![q] = Root]
    /\ UNCHANGED <<fd, lost>>

\* do_execve: files_closeall, and the program's file, which stays open.
Exec(p, i) ==
    /\ Live(p) /\ i \in File
    /\ LET ns == {n \in openOf(fd[p]) : n >= StdFds}
           t  == closed(fd[p], ns)
       IN  /\ hasFree(t)
           /\ s' = vfs_open(fd_array_close(s, fd[p], ns), i, "r")
           /\ fd' = [fd EXCEPT ![p] = [t EXCEPT ![fd_array_alloc(t)] = [Unused EXCEPT !.node = i]]]
    /\ UNCHANGED <<pwd, lost>>

\* do_exit: put_files and files_destroy.
Exit(p) ==
    /\ Live(p)
    /\ s' = fd_array_close(inode_ref_dec(s, pwd[p]), fd[p], openOf(fd[p]))
    /\ fd' = [fd EXCEPT ![p] = [n \in Fd |-> Unused]]
    /\ pwd' = [pwd EXCEPT ![p] = NULL]
    /\ UNCHANGED lost

-----------------------------------------------------------------------------
\* Who holds an inode for ever: the root is bootfs_node and init's directory, a
\* device belongs to the device list.
permanent(i) == IF i = Root THEN 2 ELSE IF i \in Dev THEN 1 ELSE 0

Init ==
    /\ fd = [p \in Proc |-> [n \in Fd |-> Unused]]
    /\ pwd = [p \in Proc |-> NULL]
    /\ s = [node |-> [i \in Ino |-> [NoNode EXCEPT !.ref = permanent(i)]],
            free |-> unusedOnDisk, unused |-> Cardinality(unusedOnDisk)]
    /\ lost = [i \in Ino |-> 0]

Next ==
    \E p \in Proc :
        \/ \E i \in Ino : vfs_open_Exists(p, i) \/ vfs_chdir(p, i) \/ Exec(p, i)
        \/ \E i \in Ino, mode \in Mode : file_open(p, i, mode)
        \/ \E n \in Fd : file_close(p, n) \/ file_read(p, n) \/ file_write(p, n)
        \/ \E n \in Fd, pos \in 0 .. MaxSize : file_seek(p, n, pos)
        \/ \E n, m \in Fd : file_dup(p, n, m)
        \/ \E q \in Proc : Fork(p, q)
        \/ Spawn(p) \/ Exit(p)

Spec == Init /\ [][Next]_vars

-----------------------------------------------------------------------------
\* The counts of every inode are exactly what refers to it: open descriptors,
\* current directories, the permanent holders and the references vfs_open forgets.
\* So no inode is freed while in use, and none stays for any other reason,
\* whatever order of fork, exec, dup, chdir, close and exit.
RefsExact ==
    \A i \in Ino :
        LET open == {x \in Proc \X Fd : fd[x[1]][x[2]].node = i}
        IN  /\ s.node[i].open = Cardinality(open)
            /\ s.node[i].ref = Cardinality(open) + Cardinality({p \in Proc : pwd[p] = i})
                               + permanent(i) + lost[i]

\* The free map and the inodes in memory agree: a block of a file is in use, by one
\* file once, and unused_blocks counts the others (what sfs_bmap_get_nolock,
\* sfs_block_free and sfs_do_mount assert).
MapExact ==
    /\ \A i, j \in File :
           \A k \in DOMAIN s.node[i].blocks, l \in DOMAIN s.node[j].blocks :
               /\ s.node[i].blocks[k] \notin s.free
               /\ s.node[i].blocks[k] = s.node[j].blocks[l] => i = j /\ k = l
    /\ s.unused = Cardinality(s.free)

\* The inode is read from the disk, also by an exec that drops its last reference before.
Reread(i) == s'.node[i].ref > 0 /\ (s.node[i].ref = 0 \/ \E p \in Proc : Exec(p, i))

\* Writes, truncations and failed growths of files that several processes have open keep
\* map and inodes in agreement.  A load does not: the image on flash still has the
\* blocks that a truncation freed in memory (sfs_load_inode after disk0's ignored writes).
BlocksKept == [][MapExact => MapExact' \/ \E i \in File : Reread(i)]_vars
=============================================================================
