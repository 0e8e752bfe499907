-------------------------------- MODULE Sfs ---------------------------------
(***************************************************************************)
(* The in-memory state of the Simple File System and the reference counts  *)
(* of the VFS on its inodes (sfs_inode.c, bitmap.c, inode.c), as operators *)
(* on a record s: the inode cache, the free map and unused_blocks.         *)
(*                                                                         *)
(* The disk is flash: disk0_write_blks_nolock only prints a warning, so    *)
(* the image never changes, and dirty flags and write-backs do nothing.    *)
(* The kernel is not preemptive and no file system code sleeps: a call is  *)
(* one step, the locks are always free, reclaim_count is one.  Sizes are   *)
(* in blocks; files have direct blocks only (at most SFS_NDIRECT).         *)
(***************************************************************************)
EXTENDS Integers, Sequences, FiniteSets, FiniteSetsExt

CONSTANTS File, Dir, Dev,   \* inodes: SFS files and directories, devices
          Blocks,           \* the number of data blocks
          Image             \* the disk: the blocks of each file

Ino == File \cup Dir \cup Dev

ASSUME SfsAssumption ==
    /\ File \cap Dir = {} /\ (File \cup Dir) \cap Dev = {}
    /\ Blocks \in Nat /\ Image \in [File -> Seq(1 .. Blocks)]

\* sfs_do_mount: free map and superblock as they are on the disk.
unusedOnDisk == (1 .. Blocks) \ UNION {{Image[i][k] : k \in DOMAIN Image[i]} : i \in File}

\* An inode with ref_count 0 is not in memory.
NoNode == [ref |-> 0, open |-> 0, size |-> 0, blocks |-> <<>>]

-----------------------------------------------------------------------------
\* sfs_load_inode: lookup_sfs_nolock, or the disk inode read anew.
sfs_load_inode(s, i) ==
    IF s.node[i].ref > 0 THEN [s EXCEPT !.node[i].ref = @ + 1]
    ELSE LET b == IF i \in File THEN Image[i] ELSE <<>>
         IN  [s EXCEPT !.node[i] = [ref |-> 1, open |-> 0, size |-> Len(b), blocks |-> b]]

\* vop_ref_inc and vop_open_inc of an inode in memory; vfs_close; vop_ref_dec with
\* sfs_reclaim of an inode nobody refers to any more.
inode_ref_inc(s, i)  == [s EXCEPT !.node[i].ref = @ + 1]
inode_open_inc(s, i) == [s EXCEPT !.node[i].open = @ + 1]
inode_ref_dec(s, i)  ==
    IF s.node[i].ref = 1 THEN [s EXCEPT !.node[i] = NoNode]
    ELSE [s EXCEPT !.node[i].ref = @ - 1]
vfs_close(s, i) == inode_ref_dec([s EXCEPT !.node[i].open = @ - 1], i)

-----------------------------------------------------------------------------
\* sfs_block_alloc for the new last block: bitmap_alloc takes the lowest free one.
sfs_block_alloc(s, i) ==
    LET b == Min(s.free)
    IN  [s EXCEPT !.free = @ \ {b}, !.unused = @ - 1, !.node[i].blocks = Append(@, b)]

\* sfs_truncfile's loops: up to n blocks one at a time, or until the disk is full,
\* which leaves the blocks got so far and the old size; and down to n blocks, where
\* sfs_bmap_truncate_nolock gives back the last one each time.
grown(s, i, n) ==
    LET f[k \in 0 .. n] ==
            IF k <= Len(s.node[i].blocks) THEN s
            ELSE IF f[k - 1].free = {} THEN f[k - 1] ELSE sfs_block_alloc(f[k - 1], i)
    IN  f[n]
shrunk_NoCount(s, i, n) ==
    LET b == s.node[i].blocks
    IN  [s EXCEPT !.free = @ \cup {b[k] : k \in n + 1 .. Len(b)},
                  !.node[i].blocks = SubSeq(b, 1, n)]
shrunk(s, i, n) ==
    LET b == s.node[i].blocks
    IN  [s EXCEPT !.free = @ \cup {b[k] : k \in n + 1 .. Len(b)},
                  !.unused = @ + (Len(b) - n),
                  !.node[i].blocks = SubSeq(b, 1, n)]

sfs_truncfile(s, i, len) ==
    LET t == IF len > Len(s.node[i].blocks) THEN grown(s, i, len) ELSE shrunk(s, i, len)
    IN  IF s.node[i].size = len THEN s
        ELSE IF Len(t.node[i].blocks) < len THEN t
        ELSE [t EXCEPT !.node[i].size = len]

\* What sfs_truncfile, sfs_bmap_free_nolock and bitmap_free assert; when it fails
\* the kernel panics.
truncateAsserts(s, i, len) ==
    LET b == s.node[i].blocks
    IN  /\ s.node[i].size = len => Len(b) = len
        /\ \A k \in len + 1 .. Len(b) : b[k] \notin s.free
        /\ \A k, l \in len + 1 .. Len(b) : b[k] = b[l] => k = l

\* sfs_io_nolock of one block at index k: what it asserts, and what it does.
ioAsserts(s, i, k) ==
    LET b == s.node[i].blocks
    IN  k <= Len(b) /\ (IF k < Len(b) THEN b[k + 1] \notin s.free ELSE s.free # {})
sfs_write(s, i, k) ==
    LET t == IF k = Len(s.node[i].blocks) THEN sfs_block_alloc(s, i) ELSE s
    IN  [t EXCEPT !.node[i].size = IF k + 1 > @ THEN k + 1 ELSE @]
=============================================================================
