-------------------------------- MODULE Ext2 --------------------------------
(***************************************************************************)
(* The read-only ext2 driver of kernel/fs/ext2.c, as operators on a disk   *)
(* image in memory: `group' holds the inode table of each block group, the *)
(* blocks follow one another in `cell'.  A byte of a file, a block number  *)
(* in an indirect block and the header of a directory entry take one cell  *)
(* each.  `magic' is whether s_magic is EXT2_MAGIC.                        *)
(***************************************************************************)
EXTENDS Integers, Sequences

CONSTANTS block_size,        \* at most the 4096 of ext2_lookup's block_buf
          NDirect,           \* the entries of i_block before the indirect one
          inodes_per_group

ASSUME BlockAssumption == block_size \in Nat \ {0}

EXT2_ROOT_INO == 2

ext2_get_inode(disk, ino) ==
  disk.group[(ino - 1) \div inodes_per_group][(ino - 1) % inodes_per_group]

block_no(disk, in, block_idx) ==
  IF block_idx < NDirect THEN in.i_block[block_idx]
  ELSE disk.cell[in.i_block[NDirect] * block_size + block_idx - NDirect]

Least(a, b) == IF a <= b THEN a ELSE b

\* Mutant: the last block is copied to its end.
read_whole_blocks(disk, in, offset, len) ==
  LET loop[read \in Nat] ==
        LET off == offset + read IN
        IF read < len /\ off < in.i_size /\ block_no(disk, in, off \div block_size) # 0
        THEN LET block_off == off % block_size
                 to_copy   == Least(block_size - block_off, len - read)
                 base      == block_no(disk, in, off \div block_size) * block_size
             IN  [i \in 1 .. to_copy |-> disk.cell[base + block_off + i - 1]]
                   \o loop[read + to_copy]
        ELSE <<>>
  IN  loop[0]

\* Block by block, up to len bytes, the end of the file or a hole; off is the
\* offset that advances with read.
ext2_read_inode_data(disk, in, offset, len) ==
  LET loop[read \in Nat] ==
        LET off == offset + read IN
        IF read < len /\ off < in.i_size /\ block_no(disk, in, off \div block_size) # 0
        THEN LET block_off == off % block_size
                 to_copy   == Least(Least(block_size - block_off, len - read),
                                    in.i_size - off)
                 base      == block_no(disk, in, off \div block_size) * block_size
             IN  [i \in 1 .. to_copy |-> disk.cell[base + block_off + i - 1]]
                   \o loop[read + to_copy]
        ELSE <<>>
  IN  loop[0]

\* Mutant: entries that rec_len skips are looked at.
scan_every_cell(chunk, name) ==
  LET at[p \in Nat \ {0}] ==
        IF p > Len(chunk) THEN 0
        ELSE IF chunk[p].inode # 0 /\ chunk[p].name = name THEN chunk[p].inode
        ELSE at[p + 1]
  IN  at[1]

\* The entry called name in a block of a directory; 0 if there is none.
scan(chunk, name) ==
  LET at[p \in Nat \ {0}] ==
        IF p > Len(chunk) THEN 0
        ELSE IF chunk[p].rec_len = 0 THEN 0
        ELSE IF chunk[p].inode # 0 /\ chunk[p].name = name THEN chunk[p].inode
        ELSE at[p + chunk[p].rec_len]
  IN  at[1]

\* The inode number of a name in a directory; 0 if it has none.
ext2_lookup(disk, in, name) ==
  LET from[off \in Nat] ==
        LET chunk == ext2_read_inode_data(disk, in, off, block_size)
        IN  IF off >= in.i_size \/ chunk = <<>> THEN 0
            ELSE IF scan(chunk, name) # 0 THEN scan(chunk, name)
            ELSE from[off + Len(chunk)]
  IN  IF in.dir THEN from[0] ELSE 0
=============================================================================
