-------------------------------- MODULE Vfs ---------------------------------
(***************************************************************************)
(* Files: the mount table, the dentry cache and the descriptors of         *)
(* kernel/fs/vfs.c over the two filesystems of kernel/fs, and the          *)
(* descriptors of pipe_create in kernel/ipc/pipe.c.                        *)
(*                                                                         *)
(* Every operation runs inside a system call with interrupts off and is    *)
(* one action of the calling task t.  Calls that only return an error, or  *)
(* only look (fstat, readdir, write to a file), change nothing and are no  *)
(* actions.  Reading and writing a pipe is module Pipe.                    *)
(*                                                                         *)
(* A path is the sequence of its components after "/"; an empty component  *)
(* stands for a repeated slash.  kzmalloc panics rather than return NULL.  *)
(***************************************************************************)
EXTENDS Ext2, SequencesExt

CONSTANTS Task,
          Path, MountPath, \* the paths that callers pass
          NFd,           \* 256
          FirstPipeFd,   \* 3
          MAX_MOUNTS,
          File,          \* bound: the struct files there is memory for
          MaxPipes,      \* bound: pipes ever created
          Device, Image, \* Image[d]: what is on the disk
          U64,           \* offsets count modulo this
          Lens, Seeks,   \* the lengths and offsets that callers pass
          MaxNow         \* bound: timer ticks

ASSUME VfsAssumption ==
  /\ File \subseteq Nat \ {0} /\ NFd \in Nat /\ FirstPipeFd \in 0 .. NFd
  /\ U64 \in Nat \ {0} /\ Lens \subseteq Nat /\ Seeks \subseteq Int
  /\ Path \subseteq Seq(STRING)

Fd   == 0 .. (NFd - 1)
None == 0

VARIABLES
  mount_table,  \* the used entries: [path, root]
  vfs_root,
  dentry,       \* every struct dentry ever made; 1 is procfs_root_dentry
  file,         \* [File -> struct file], or NoFile where there is none
  fd_table,     \* task -> descriptor -> file
  pipe,         \* every struct pipe: its closed flags
  now           \* timer_ticks

vars == <<mount_table, vfs_root, dentry, file, fd_table, pipe, now>>

----------------------------------------------------------------------------
(* Inodes *)

Inode(fs, dev, ino, data) == [fs |-> fs, dev |-> dev, ino |-> ino, data |-> data]
NoInode == Inode("none", "none", 0, <<>>)
NoFile  == [inode |-> NoInode, offset |-> 0, ref_count |-> 0, ops |-> "none"]

\* The texts of meminfo and uptime depend on the time they are made.
proc_entries == <<"version", "meminfo", "uptime", "cpuinfo", "mounts">>
fill(i, t) == IF i \in {2, 3} THEN [k \in 1 .. (t + 1) |-> t] ELSE <<0>>

\* inode->ops->lookup
procfs_lookup(name) ==
  LET hits == {i \in DOMAIN proc_entries : proc_entries[i] = name}
  IN  IF hits = {} THEN NoInode
      ELSE LET i == CHOOSE i \in hits : TRUE
           IN  Inode("procfs", "none", i, fill(i, now))

lookup(in, name) ==
  CASE in.fs = "ext2" ->
         LET ino == ext2_lookup(Image[in.dev], ext2_get_inode(Image[in.dev], in.ino), name)
         IN  IF ino = 0 THEN NoInode ELSE Inode("ext2", in.dev, ino, <<>>)
    [] in.fs = "procfs" /\ in.ino = 0 -> procfs_lookup(name)
    [] OTHER -> NoInode

\* inode->fops: procfs has none for its root.
fops(in) == IF in.fs = "procfs" /\ in.ino = 0 THEN "none" ELSE in.fs

inode_size(in) ==
  CASE in.fs = "ext2" -> ext2_get_inode(Image[in.dev], in.ino).i_size
    [] OTHER -> Len(in.data)

----------------------------------------------------------------------------
(* Path resolution *)

Dentry(name, in, parent) ==
  [name |-> name, inode |-> in, parent |-> parent, children |-> <<>>]

\* One component: a child that is already there, or one the filesystem knows.
Walk(st, name) ==
  LET d    == st.tree[st.cur]
      hits == {i \in DOMAIN d.children : st.tree[d.children[i]].name = name}
      in   == lookup(d.inode, name)
      de   == Len(st.tree) + 1
  IN  IF st.cur = None \/ name = "" THEN st
      ELSE IF hits # {} THEN [st EXCEPT !.cur = d.children[Min(hits)]]
      ELSE IF in = NoInode THEN [st EXCEPT !.cur = None]
      ELSE [tree |-> Append([st.tree EXCEPT ![st.cur].children = <<de>> \o @],
                            Dentry(name, in, st.cur)),
            cur  |-> de]

\* What is made on the way stays, even if the walk fails further on.
lookup_path(path) ==
  LET after[k \in 0 .. Len(path)] ==
        IF k = 0 THEN [tree |-> dentry, cur |-> vfs_root] ELSE Walk(after[k - 1], path[k])
  IN  after[Len(path)]

----------------------------------------------------------------------------
(* Mounting *)

procfs_root == Dentry("/", Inode("procfs", "none", 0, <<>>), None)

\* kernel_start: vfs_init, ext2_register, procfs_register.
Init ==
  /\ mount_table = <<[path |-> <<"proc">>, root |-> 1]>>
  /\ vfs_root = None
  /\ dentry = <<procfs_root>>
  /\ file = [f \in File |-> NoFile]
  /\ fd_table = [t \in Task |-> [fd \in Fd |-> None]]
  /\ pipe = <<>>
  /\ now = 0

mount_at(path, root) ==
  /\ mount_table' = Append(mount_table, [path |-> path, root |-> root])
  /\ vfs_root' = IF path = <<>> THEN root ELSE vfs_root
  /\ UNCHANGED <<file, fd_table, pipe, now>>

\* ext2_mount makes a root of its own each time; procfs_mount resets its one.
vfs_mount_ext2(path, dev) ==
  /\ Len(mount_table) < MAX_MOUNTS
  /\ Image[dev].magic
  /\ dentry' = Append(dentry, Dentry("/", Inode("ext2", dev, EXT2_ROOT_INO, <<>>), None))
  /\ mount_at(path, Len(dentry'))

vfs_mount_procfs(path) ==
  /\ Len(mount_table) < MAX_MOUNTS
  /\ dentry' = [dentry EXCEPT ![1] = procfs_root]
  /\ mount_at(path, 1)

----------------------------------------------------------------------------
(* Descriptors *)

Unused == {f \in File : file[f] = NoFile}
FreeFds(t, first) == {fd \in first .. (NFd - 1) : fd_table[t][fd] = None}

NewFile(in, ops) == [inode |-> in, offset |-> 0, ref_count |-> 1, ops |-> ops]

\* Without a free descriptor (alloc_fd) the file stays allocated.
vfs_open(t, path) ==
  LET r == lookup_path(path)
      f == Min(Unused)
  IN  /\ dentry' = r.tree
      /\ IF r.cur = None
         THEN UNCHANGED <<file, fd_table>>
         ELSE /\ Unused # {}
              /\ file' = [file EXCEPT ![f] = NewFile(r.tree[r.cur].inode,
                                                     fops(r.tree[r.cur].inode))]
              /\ fd_table' = IF FreeFds(t, 0) = {} THEN fd_table
                             ELSE [fd_table EXCEPT ![t][Min(FreeFds(t, 0))] = f]
      /\ UNCHANGED <<mount_table, vfs_root, pipe, now>>

vfs_stat(path) ==
  /\ dentry' = lookup_path(path).tree
  /\ UNCHANGED <<mount_table, vfs_root, file, fd_table, pipe, now>>

\* f->ops->read
bytes_read(f, len) ==
  IF f.ops = "ext2"
  THEN ext2_read_inode_data(Image[f.inode.dev],
                            ext2_get_inode(Image[f.inode.dev], f.inode.ino), f.offset, len)
  ELSE SubSeq(f.inode.data, f.offset + 1, Least(f.offset + len, Len(f.inode.data)))

vfs_read(t, fd, len) ==
  LET f == fd_table[t][fd]
  IN  /\ f # None /\ file[f].ops \in {"ext2", "procfs"}
      /\ file' = [file EXCEPT ![f].offset = (@ + Len(bytes_read(file[f], len))) % U64]
      /\ UNCHANGED <<mount_table, vfs_root, dentry, fd_table, pipe, now>>

\* No filesystem has a seek of its own.
vfs_seek(t, fd, offset, whence) ==
  LET f    == fd_table[t][fd]
      from == CASE whence = "SEEK_SET" -> 0
                [] whence = "SEEK_CUR" -> file[f].offset
                [] whence = "SEEK_END" -> inode_size(file[f].inode)
  IN  /\ f # None
      /\ file' = [file EXCEPT ![f].offset = (from + offset) % U64]
      /\ UNCHANGED <<mount_table, vfs_root, dentry, fd_table, pipe, now>>

\* Mutant: the descriptor keeps its file.
vfs_close_keeping(t, fd) ==
  LET f == fd_table[t][fd]
  IN  /\ f # None
      /\ file' = [file EXCEPT ![f] = NoFile]
      /\ pipe' = [p \in DOMAIN pipe |->
                    IF file[f].inode.fs = "pipe" /\ file[f].inode.ino = p
                    THEN [pipe[p] EXCEPT ![file[f].ops] = TRUE] ELSE pipe[p]]
      /\ UNCHANGED <<mount_table, vfs_root, dentry, fd_table, now>>

\* Mutant: the file's own close is not called.
vfs_close_silently(t, fd) ==
  LET f == fd_table[t][fd]
  IN  /\ f # None
      /\ file' = [file EXCEPT ![f] = NoFile]
      /\ fd_table' = [fd_table EXCEPT ![t][fd] = None]
      /\ UNCHANGED <<mount_table, vfs_root, dentry, pipe, now>>

\* The last reference closes the file, which closes an end of a pipe, and frees it.
vfs_close(t, fd) ==
  LET f    == fd_table[t][fd]
      last == file[f].ref_count = 1
  IN  /\ f # None
      /\ file' = [file EXCEPT ![f] = IF last THEN NoFile
                                     ELSE [@ EXCEPT !.ref_count = @ - 1]]
      /\ fd_table' = [fd_table EXCEPT ![t][fd] = None]
      /\ pipe' = [p \in DOMAIN pipe |->
                    IF last /\ file[f].inode.fs = "pipe" /\ file[f].inode.ino = p
                    THEN [pipe[p] EXCEPT ![file[f].ops] = TRUE] ELSE pipe[p]]
      /\ UNCHANGED <<mount_table, vfs_root, dentry, now>>

\* The two lowest descriptors from FirstPipeFd on.  If there is only one, the read
\* end is installed in it before the call fails.
pipe_create(t) ==
  LET rf   == Min(Unused)
      wf   == Min(Unused \ {rf})
      in   == Inode("pipe", "none", Len(pipe) + 1, <<>>)
      free == FreeFds(t, FirstPipeFd)
      rest == free \ {Min(free)}
  IN  /\ Len(pipe) < MaxPipes /\ Unused # {} /\ Unused # {rf}
      /\ pipe' = Append(pipe, [read_closed |-> FALSE, write_closed |-> FALSE])
      /\ file' = [file EXCEPT ![rf] = NewFile(in, "read_closed"),
                              ![wf] = NewFile(in, "write_closed")]
      /\ fd_table' = [fd_table EXCEPT ![t] =
           [fd \in Fd |-> IF free # {} /\ fd = Min(free) THEN rf
                          ELSE IF free # {} /\ rest # {} /\ fd = Min(rest) THEN wf
                          ELSE @[fd]]]
      /\ UNCHANGED <<mount_table, vfs_root, dentry, now>>

tick == now < MaxNow /\ now' = now + 1
        /\ UNCHANGED <<mount_table, vfs_root, dentry, file, fd_table, pipe>>

Next ==
  \/ \E path \in MountPath : \/ \E dev \in Device : vfs_mount_ext2(path, dev)
                             \/ vfs_mount_procfs(path)
  \/ \E path \in Path : vfs_stat(path)
  \/ \E t \in Task :
       \/ \E path \in Path : vfs_open(t, path)
       \/ pipe_create(t)
       \/ \E fd \in Fd : \/ \E len \in Lens : vfs_read(t, fd, len)
                         \/ \E offset \in Seeks,
                               whence \in {"SEEK_SET", "SEEK_CUR", "SEEK_END"} :
                              vfs_seek(t, fd, offset, whence)
                         \/ vfs_close(t, fd)
  \/ tick

Spec == Init /\ [][Next]_vars

----------------------------------------------------------------------------
(* Properties *)

(***************************************************************************)
(* After any sequence of opens, closes and pipes, a descriptor leads to a  *)
(* file that is allocated, and to one no other descriptor leads to: no     *)
(* close can free a file under somebody else.                              *)
(***************************************************************************)
DescriptorsSound ==
  \A t1, t2 \in Task, fd1, fd2 \in Fd :
    fd_table[t1][fd1] # None =>
      /\ file[fd_table[t1][fd1]] # NoFile
      /\ fd_table[t1][fd1] = fd_table[t2][fd2] => t1 = t2 /\ fd1 = fd2

(***************************************************************************)
(* An end of a pipe is closed exactly when its struct file is gone, so the *)
(* other end is told about it, and only then.                              *)
(***************************************************************************)
EndsFollowFiles ==
  \A p \in DOMAIN pipe, end \in {"read_closed", "write_closed"} :
    pipe[p][end] <=> \A f \in File : ~(/\ file[f].inode.fs = "pipe"
                                       /\ file[f].inode.ino = p /\ file[f].ops = end)

\* What the directories of a disk say about a path, without walking any blocks.
Listed(dev, ino, name) ==
  IF ino \in DOMAIN Image[dev].listing /\ name \in DOMAIN Image[dev].listing[ino]
  THEN Image[dev].listing[ino][name] ELSE 0
Reference(dev, path) ==
  LET after[k \in 0 .. Len(path)] ==
        IF k = 0 THEN EXT2_ROOT_INO
        ELSE IF after[k - 1] = 0 \/ path[k] = "" THEN after[k - 1]
        ELSE Listed(dev, after[k - 1], path[k])
  IN  after[Len(path)]

(***************************************************************************)
(* lookup_path finds exactly what the mounted disk holds, whatever mixture *)
(* of cached children and directory blocks it goes through: deleted        *)
(* entries, entries in later blocks, names that are files in the middle of *)
(* a path, failed walks before it.                                         *)
(***************************************************************************)
PathsResolve ==
  vfs_root # None /\ dentry[vfs_root].inode.fs = "ext2" =>
    \A path \in Path :
      LET r == lookup_path(path)
          found == IF r.cur = None THEN 0 ELSE r.tree[r.cur].inode.ino
      IN  found = Reference(dentry[vfs_root].inode.dev, path)

(***************************************************************************)
(* A read of a file, from wherever reads and seeks have left its offset    *)
(* (past the end and wrapped around included), returns the bytes that      *)
(* follow in the file, as many as asked for unless the file ends or has a  *)
(* hole: across blocks, through the indirect block, in the last block.     *)
(***************************************************************************)
Hole == -1
BytesFrom(content, offset, len) ==
  LET n == Max({k \in 0 .. len : \A j \in 1 .. k : /\ offset + j <= Len(content)
                                                   /\ content[offset + j] # Hole})
  IN  SubSeq(content, offset + 1, offset + n)
ReadExact ==
  \A f \in File :
    (file[f].ops = "ext2" /\ file[f].inode.ino \in DOMAIN Image[file[f].inode.dev].content)
      => LET content == Image[file[f].inode.dev].content[file[f].inode.ino]
         IN  \A len \in 0 .. (Len(content) + 1) :
               bytes_read(file[f], len) = BytesFrom(content, file[f].offset, len)
----------------------------------------------------------------------------
(* What an image must be for its second description, listing and content, to be one. *)

\* The inode numbers that the directories of a disk hold.
Inodes(dev) ==
  {EXT2_ROOT_INO} \cup UNION {{Image[dev].listing[i][name] : name \in DOMAIN Image[dev].listing[i]} :
                                i \in DOMAIN Image[dev].listing}

\* The byte of a file at position k, where the blocks have it.
Cell(disk, in, k) ==
  disk.cell[block_no(disk, in, k \div block_size) * block_size + (k % block_size)]

\* An inode has a size, and block numbers up to it.
InodeOK(disk, in) ==
  in.i_size \in Nat /\ \A k \in 0 .. (in.i_size - 1) : block_no(disk, in, k \div block_size) \in Nat

(***************************************************************************)
(* What the images are: the records of a directory tile its blocks, each   *)
(* up to the next or to the block's end, and the ones in use are the       *)
(* entries of its listing.  rec_len is a number wherever one looks.        *)
(***************************************************************************)
Tiled(disk, in, records) ==
  /\ \A k \in 0 .. (in.i_size - 1) : k % block_size = 0 => k \in records
  /\ \A k \in records :
       LET next == k + Cell(disk, in, k).rec_len
       IN  /\ next > k /\ (next % block_size = 0 \/ next \in records)
           /\ \A j \in (k + 1) .. (next - 1) : j \notin records
Directory(disk, in, entries) ==
  /\ InodeOK(disk, in) /\ in.i_size % block_size = 0
  /\ \A k \in 0 .. (in.i_size - 1) :
       block_no(disk, in, k \div block_size) # 0 /\ Cell(disk, in, k).rec_len \in Nat
  /\ \E records \in SUBSET (0 .. (in.i_size - 1)) :
       LET used == {k \in records : Cell(disk, in, k).inode # 0}
       IN  /\ Tiled(disk, in, records)
           /\ DOMAIN entries = {Cell(disk, in, k).name : k \in used}
           /\ \A k \in used : entries[Cell(disk, in, k).name] = Cell(disk, in, k).inode
DiskLists ==
  \A dev \in Device : Image[dev].magic =>
    \A ino \in Inodes(dev) :
      LET in == ext2_get_inode(Image[dev], ino)
      IN  /\ in.dir <=> ino \in DOMAIN Image[dev].listing
          /\ in.dir => Directory(Image[dev], in, Image[dev].listing[ino])

(***************************************************************************)
(* Their inodes have sizes and block numbers, and the blocks of a file     *)
(* hold its content, with no block where it has a hole.                    *)
(***************************************************************************)
Holds(disk, in, content) ==
  /\ content = [k \in 1 .. in.i_size |-> content[k]]
  /\ \A k \in 0 .. (in.i_size - 1) :
       IF block_no(disk, in, k \div block_size) = 0 THEN content[k + 1] = Hole
       ELSE content[k + 1] = Cell(disk, in, k) /\ content[k + 1] # Hole
DiskHolds ==
  \A dev \in Device : Image[dev].magic =>
    \A ino \in Inodes(dev) :
      LET in == ext2_get_inode(Image[dev], ino)
      IN  /\ InodeOK(Image[dev], in)
          /\ ino \in DOMAIN Image[dev].content => Holds(Image[dev], in, Image[dev].content[ino])
=============================================================================
