------------------------------- MODULE MCVfs --------------------------------
(***************************************************************************)
(* Blocks of two cells, one direct block per inode, then the indirect one. *)
(* Inode 2 is the root, with entries in two blocks: "f" (inode 3, five     *)
(* bytes in three blocks), the deleted "old", a free entry, and "sub"      *)
(* (inode 4, in the second block group), which holds "g", another name of  *)
(* inode 3.  On the second device that file has a hole; the third has no   *)
(* ext2 on it.                                                             *)
(***************************************************************************)
EXTENDS Vfs

E(name, ino, rec_len) == [name |-> name, inode |-> ino, rec_len |-> rec_len]

OnDisk(dir, size, direct, indirect) ==
  [dir |-> dir, i_size |-> size, i_block |-> (0 :> direct @@ 1 :> indirect)]

Blocks(second) == <<
  <<0, 0>>,                                 \* 1: not used
  <<E("f", 3, 2), E("old", 3, 1)>>,         \* 2: root; "f" covers the deleted "old"
  <<4, 0>>,                                 \* 3: root's indirect block
  <<E("gone", 0, 1), E("sub", 4, 1)>>,      \* 4: root
  <<10, 11>>,                               \* 5: inode 3
  <<second, 8>>,                            \* 6: its indirect block
  <<12, 13>>,                               \* 7
  <<14, 99>>,                               \* 8: only the first byte is in the file
  <<E("g", 3, 2), E("", 0, 1)>>             \* 9: sub
>>

Disk(magic, second) ==
  [magic   |-> magic,
   cell    |-> [i \in 0 .. 19 |-> IF i < 2 THEN 0 ELSE Blocks(second)[i \div 2][(i % 2) + 1]],
   group   |-> (0 :> (0 :> OnDisk(FALSE, 0, 0, 0) @@ 1 :> OnDisk(TRUE, 4, 2, 3)
                        @@ 2 :> OnDisk(FALSE, 5, 5, 6))
             @@ 1 :> (0 :> OnDisk(TRUE, 2, 9, 0))),
   content |-> (3 :> IF second = 0 THEN <<10, 11, Hole, Hole, 14>>
                                   ELSE <<10, 11, 12, 13, 14>>),
   listing |-> (2 :> ("f" :> 3 @@ "sub" :> 4) @@ 4 :> ("g" :> 3))]

MCImage == ("disk" :> Disk(TRUE, 7) @@ "sparse" :> Disk(TRUE, 0) @@ "blank" :> Disk(FALSE, 7))
MCPath  == {<<"f">>, <<"sub", "", "g">>, <<"old">>, <<"sub", "f">>, <<"f", "g">>, <<"uptime">>}
MCMount == {<<>>, <<"proc">>}
MCSeeks == {-1}

\* The blocks hold what listing and content say.
ASSUME ImagesHold == DiskLists /\ DiskHolds
=============================================================================
