----------------------------- MODULE VfsProofs ------------------------------
(***************************************************************************)
(* For any number of tasks, descriptors, struct files and pipes, any disk  *)
(* images, block sizes and paths: descriptors lead to files of their own,  *)
(* the ends of a pipe follow its files, the dentry cache is faithful to    *)
(* the disk, and reads return the bytes of the file.                       *)
(***************************************************************************)
EXTENDS Vfs, NaturalsInduction, WellFoundedInduction, TLAPS

----------------------------------------------------------------------------
(* Numbers and sequences *)

\* A set of natural numbers that is not empty has a least element: Min is one.
LEMMA MinInSet ==
  ASSUME NEW T \in SUBSET Nat, T # {}
  PROVE  Min(T) \in T /\ \A k \in T : Min(T) <= k
<1> DEFINE R == OpToRel(<, Nat)
<1>1. IsWellFoundedOn(R, Nat)
  BY NatLessThanWellFounded
<1> HIDE DEF R
<1>2. PICK m \in T : \A y \in T : ~ (<<y, m>> \in R)
  BY <1>1, WFMin
<1>3. \A x, y \in Nat : x < y => <<x, y>> \in R
  BY DEF R, OpToRel
<1>4. ASSUME NEW k \in T PROVE m <= k
  <2>1. m \in Nat /\ k \in Nat /\ ~(<<k, m>> \in R)
    BY <1>2
  <2>2. ~(k < m)
    BY <1>3, <2>1
  <2> QED BY <2>1, <2>2
<1> QED BY <1>4 DEF Min

\* A set with 0 in it and the successor of each of its elements is Nat.
LEMMA NatSet ==
  ASSUME NEW S \in SUBSET Nat, 0 \in S, \A n \in S : n + 1 \in S
  PROVE  S = Nat
<1> SUFFICES ASSUME Nat \ S # {} PROVE FALSE
  OBVIOUS
<1>1. Min(Nat \ S) \in Nat \ S /\ \A k \in Nat \ S : Min(Nat \ S) <= k
  BY MinInSet
<1> DEFINE m == Min(Nat \ S)
<1>2. m \in Nat \ S /\ \A k \in Nat \ S : m <= k
  BY <1>1
<1> HIDE DEF m
<1>3. m # 0 /\ m - 1 \in Nat
  BY <1>2
<1>4. m - 1 \in S
  BY <1>2, <1>3
<1> QED BY <1>2, <1>3, <1>4

IsSeq(s) == \E S : s \in Seq(S)

\* What sequence operators do to a sequence of anything.
LEMMA SeqFacts ==
  ASSUME NEW s, IsSeq(s)
  PROVE  /\ Len(s) \in Nat /\ DOMAIN s = 1 .. Len(s)
         /\ \A x : /\ IsSeq(Append(s, x)) /\ Len(Append(s, x)) = Len(s) + 1
                   /\ Append(s, x)[Len(s) + 1] = x
                   /\ \A i \in 1 .. Len(s) : Append(s, x)[i] = s[i]
<1>1. PICK S : s \in Seq(S)
  BY DEF IsSeq
<1>2. ASSUME NEW x
      PROVE  /\ IsSeq(Append(s, x)) /\ Len(Append(s, x)) = Len(s) + 1
             /\ Append(s, x)[Len(s) + 1] = x
             /\ \A i \in 1 .. Len(s) : Append(s, x)[i] = s[i]
  <2>1. s \in Seq(S \cup {x}) /\ x \in S \cup {x}
    BY <1>1
  <2>2. Append(s, x) \in Seq(S \cup {x})
    BY <2>1
  <2>3. /\ Len(Append(s, x)) = Len(s) + 1 /\ Append(s, x)[Len(s) + 1] = x
        /\ \A i \in 1 .. Len(s) : Append(s, x)[i] = s[i]
    BY <2>1
  <2> QED BY <2>2, <2>3 DEF IsSeq
<1> QED BY <1>1, <1>2

Consed(x, s, c) ==
  /\ IsSeq(c) /\ Len(c) = Len(s) + 1
  /\ \A i \in 1 .. Len(c) : c[i] = x \/ \E j \in 1 .. Len(s) : c[i] = s[j]

\* A child is put in front of the others.
LEMMA SeqCons ==
  ASSUME NEW s, IsSeq(s), NEW x, NEW c, c = <<x>> \o s
  PROVE  Consed(x, s, c)
<1>1. PICK S : s \in Seq(S)
  BY DEF IsSeq
<1>2. s \in Seq(S \cup {x}) /\ <<x>> \in Seq(S \cup {x}) /\ Len(s) \in Nat
  BY <1>1
<1>3. c \in Seq(S \cup {x})
  BY <1>2
<1>4. Len(c) = 1 + Len(s) /\ \A i \in 1 .. Len(c) : c[i] = IF i = 1 THEN x ELSE s[i - 1]
  BY <1>2
<1>5. ASSUME NEW i \in 1 .. Len(c) PROVE c[i] = x \/ \E j \in 1 .. Len(s) : c[i] = s[j]
  <2>1. CASE i = 1
    BY <1>4, <2>1
  <2>2. CASE i # 1
    <3>1. i - 1 \in 1 .. Len(s) /\ c[i] = s[i - 1]
      BY <1>2, <1>4, <2>2
    <3> QED BY <3>1
  <2> QED BY <2>1, <2>2
<1> QED BY <1>2, <1>3, <1>4, <1>5 DEF Consed, IsSeq

Replaced(s, i, y, r) ==
  IsSeq(r) /\ Len(r) = Len(s) /\ r[i] = y /\ \A j \in 1 .. Len(s) : j # i => r[j] = s[j]

\* An element of a sequence is replaced.
LEMMA SeqReplace ==
  ASSUME NEW s, IsSeq(s), NEW i \in 1 .. Len(s), NEW y, NEW r, r = [s EXCEPT ![i] = y]
  PROVE  Replaced(s, i, y, r)
<1>1. PICK S : s \in Seq(S)
  BY DEF IsSeq
<1>2. s \in Seq(S \cup {y}) /\ DOMAIN s = 1 .. Len(s) /\ Len(s) \in Nat
  BY <1>1
<1>3. r \in Seq(S \cup {y}) /\ Len(r) = Len(s)
  BY <1>2
<1> QED BY <1>2, <1>3 DEF Replaced, IsSeq

----------------------------------------------------------------------------
(* The dentry cache *)

\* What a directory of an ext2 disk holds under a name.
Found(in, name) ==
  LET ino == ext2_lookup(Image[in.dev], ext2_get_inode(Image[in.dev], in.ino), name)
  IN  IF ino = 0 THEN NoInode ELSE Inode("ext2", in.dev, ino, <<>>)

IsDentry(d) ==
  d \in [name : {d.name}, inode : {d.inode}, parent : {d.parent}, children : {d.children}]

\* A child that is in the cache is what the disk holds under its name.
ChildOK(tree, i, c) ==
  /\ c \in 1 .. Len(tree)
  /\ tree[i].inode.fs = "ext2" =>
       tree[c].inode = Found(tree[i].inode, tree[c].name) /\ tree[c].inode # NoInode

DentryOK(tree, i) ==
  /\ IsDentry(tree[i]) /\ tree[i].inode.fs \in {"ext2", "procfs"} /\ IsSeq(tree[i].children)
  /\ \A j \in 1 .. Len(tree[i].children) : ChildOK(tree, i, tree[i].children[j])

TreeOK(tree) ==
  /\ IsSeq(tree) /\ Len(tree) >= 1
  /\ tree[1].inode = procfs_root.inode /\ tree[1].name = "/"
  /\ \A i \in 1 .. Len(tree) : DentryOK(tree, i)

\* A walk never changes the name or the inode of a dentry.
Extends(s, r) ==
  /\ Len(s) <= Len(r)
  /\ \A i \in 1 .. Len(s) : r[i].name = s[i].name /\ r[i].inode = s[i].inode

\* lookup makes inodes of the two filesystems.
LEMMA LookupFs ==
  ASSUME NEW in, NEW name, lookup(in, name) # NoInode
  PROVE  lookup(in, name).fs \in {"ext2", "procfs"}
<1>1. CASE in.fs = "ext2"
  BY <1>1 DEF lookup, Inode
<1>2. CASE in.fs = "procfs" /\ in.ino = 0
  <2>1. lookup(in, name) = procfs_lookup(name)
    BY <1>2 DEF lookup
  <2>2. procfs_lookup(name) = NoInode \/ procfs_lookup(name).fs = "procfs"
    BY DEF procfs_lookup, Inode
  <2> QED BY <2>1, <2>2
<1>3. CASE in.fs # "ext2" /\ ~(in.fs = "procfs" /\ in.ino = 0)
  BY <1>3 DEF lookup
<1> QED BY <1>1, <1>2, <1>3

\* In an ext2 directory lookup is what the disk holds.
LEMMA LookupExt2 ==
  ASSUME NEW in, NEW name, in.fs = "ext2"
  PROVE  lookup(in, name) = Found(in, name)
BY DEF lookup, Found

\* A dentry keeps its good children when the tree grows.
LEMMA ChildKept ==
  ASSUME NEW s, NEW r, Extends(s, r), NEW i \in 1 .. Len(s), NEW c, ChildOK(s, i, c),
         Len(s) \in Nat, Len(r) \in Nat
  PROVE  ChildOK(r, i, c)
<1>1. /\ c \in 1 .. Len(s) /\ c \in 1 .. Len(r) /\ r[c].name = s[c].name /\ r[c].inode = s[c].inode
      /\ r[i].inode = s[i].inode
  BY DEF Extends, ChildOK
<1> QED BY <1>1 DEF ChildOK

\* The state after one component: the tree is good and keeps what it had, and in an
\* ext2 directory the walk is where the disk says.
Walked(t, cur, name, r) ==
  /\ r = [tree |-> r.tree, cur |-> r.cur]
  /\ TreeOK(r.tree) /\ r.cur \in 0 .. Len(r.tree) /\ Extends(t, r.tree)
  /\ cur = 0 \/ name = "" => r.cur = cur
  /\ cur # 0 /\ name # "" /\ t[cur].inode.fs = "ext2" =>
       IF Found(t[cur].inode, name) = NoInode THEN r.cur = 0
       ELSE r.cur # 0 /\ r.tree[r.cur].inode = Found(t[cur].inode, name)

\* The parts of that, for a state that is built from a tree and a position.
LEMMA WalkedBy ==
  ASSUME NEW t, NEW cur, NEW name, NEW w, NEW c, NEW r, r = [tree |-> w, cur |-> c],
         TreeOK(w), c \in 0 .. Len(w), Extends(t, w),
         cur = 0 \/ name = "" => c = cur,
         (cur # 0 /\ name # "" /\ t[cur].inode.fs = "ext2") =>
            IF Found(t[cur].inode, name) = NoInode THEN c = 0
            ELSE c # 0 /\ w[c].inode = Found(t[cur].inode, name)
  PROVE  Walked(t, cur, name, r)
<1>1. r.tree = w /\ r.cur = c
  OBVIOUS
<1>2. r = [tree |-> r.tree, cur |-> r.cur]
  BY <1>1
<1> QED BY <1>1, <1>2 DEF Walked

\* One component of a path.
LEMMA WalkOK ==
  ASSUME NEW t, TreeOK(t), NEW cur \in 0 .. Len(t), NEW name,
         NEW r, r = Walk([tree |-> t, cur |-> cur], name)
  PROVE  Walked(t, cur, name, r)
<1> DEFINE st == [tree |-> t, cur |-> cur]
           d == t[cur]
           hits == {i \in DOMAIN d.children : t[d.children[i]].name = name}
           in == lookup(d.inode, name)
           de == Len(t) + 1
<1>0. Len(t) \in Nat /\ Extends(t, t) /\ IsSeq(t) /\ DOMAIN t = 1 .. Len(t)
  BY SeqFacts DEF TreeOK, Extends
<1>A. cur # 0 => cur \in 1 .. Len(t)
  <2>1. Len(t) \in Nat
    BY <1>0
  <2> QED BY <2>1
<1>1. CASE cur = 0 \/ name = ""
  <2>1. r = st
    BY <1>1 DEF Walk, None
  <2>2. r = [tree |-> t, cur |-> cur]
    BY <2>1
  <2> QED BY <1>0, <1>1, <2>2, WalkedBy
<1>2. CASE cur # 0 /\ name # "" /\ hits # {}
  <2>1. r = [st EXCEPT !.cur = d.children[Min(hits)]]
    BY <1>2 DEF Walk, None
  <2>2. DentryOK(t, cur) /\ IsSeq(d.children) /\ DOMAIN d.children = 1 .. Len(d.children)
        /\ Len(d.children) \in Nat
    <3>1. cur \in 1 .. Len(t)
      BY <1>A, <1>2
    <3>2. DentryOK(t, cur)
      BY <3>1 DEF TreeOK
    <3>3. IsSeq(d.children)
      BY <3>2 DEF DentryOK
    <3> HIDE DEF d
    <3> QED BY <3>2, <3>3, SeqFacts
  <2>3. Min(hits) \in hits
    <3>1. hits \in SUBSET Nat
      BY <2>2
    <3> HIDE DEF hits
    <3> QED BY <1>2, <3>1, MinInSet
  <2> DEFINE k == Min(hits)
             c == d.children[k]
  <2>4. k \in 1 .. Len(d.children) /\ t[c].name = name
    BY <2>2, <2>3
  <2>5. r = [tree |-> t, cur |-> c]
    BY <2>1
  <2> HIDE DEF k
  <2>6. ChildOK(t, cur, c)
    BY <2>2, <2>4 DEF DentryOK
  <2> HIDE DEF c
  <2>7. c \in 1 .. Len(t)
    BY <2>6 DEF ChildOK
  <2>8. d.inode.fs = "ext2" => t[c].inode = Found(d.inode, name) /\ t[c].inode # NoInode
    BY <2>4, <2>6 DEF ChildOK
  <2>9. c \in 0 .. Len(t) /\ c # 0
    BY <1>0, <2>7
  <2> HIDE DEF hits, in, st
  <2> QED BY <1>0, <1>2, <2>5, <2>8, <2>9, WalkedBy
<1>3. CASE cur # 0 /\ name # "" /\ hits = {} /\ in = NoInode
  <2>1. r = [st EXCEPT !.cur = 0]
    BY <1>3 DEF Walk, None
  <2>2. r = [tree |-> t, cur |-> 0]
    BY <2>1
  <2>3. d.inode.fs = "ext2" => Found(d.inode, name) = NoInode
    BY <1>3, LookupExt2
  <2>4. 0 \in 0 .. Len(t)
    BY <1>0
  <2> HIDE DEF hits, in, st
  <2> QED BY <1>0, <1>3, <2>2, <2>3, <2>4, WalkedBy
<1>4. CASE cur # 0 /\ name # "" /\ hits = {} /\ in # NoInode
  <2> DEFINE ch == <<de>> \o d.children
             dn == [d EXCEPT !.children = ch]
             u == [t EXCEPT ![cur] = dn]
             nd == Dentry(name, in, cur)
             w == Append(u, nd)
  <2>1. r = [tree |-> Append([t EXCEPT ![cur].children = <<de>> \o @], Dentry(name, in, cur)),
             cur |-> de]
    BY <1>4 DEF Walk, None
  <2>2. cur \in 1 .. Len(t) /\ DentryOK(t, cur) /\ IsDentry(d) /\ IsSeq(d.children)
        /\ Len(d.children) \in Nat
    <3>1. cur \in 1 .. Len(t)
      BY <1>A, <1>4
    <3>2. DentryOK(t, cur)
      BY <3>1 DEF TreeOK
    <3>3. IsDentry(d) /\ IsSeq(d.children)
      BY <3>2 DEF DentryOK
    <3> HIDE DEF d
    <3> QED BY <3>1, <3>2, <3>3, SeqFacts
  <2>3. r = [tree |-> w, cur |-> de]
    BY <1>0, <2>1, <2>2
  <2>4. dn.name = d.name /\ dn.inode = d.inode /\ dn.children = ch /\ IsDentry(dn)
    BY <2>2 DEF IsDentry
  <2>5. u = [t EXCEPT ![cur] = dn]
    OBVIOUS
  <2> HIDE DEF u
  <2>6. IsSeq(u) /\ Len(u) = Len(t) /\ u[cur] = dn /\ \A j \in 1 .. Len(t) : j # cur => u[j] = t[j]
    <3> HIDE DEF dn
    <3>1. Replaced(t, cur, dn, u)
      BY <1>0, <2>2, <2>5, SeqReplace
    <3> QED BY <3>1 DEF Replaced
  <2>7. /\ IsSeq(w) /\ Len(w) = Len(t) + 1 /\ w[de] = nd /\ w[cur] = dn
        /\ \A j \in 1 .. Len(t) : w[j] = u[j]
        /\ \A j \in 1 .. Len(t) : j # cur => w[j] = t[j]
    BY <1>0, <2>2, <2>6, SeqFacts
  <2> HIDE DEF w
  <2>8. nd.name = name /\ nd.inode = in /\ nd.children = <<>> /\ IsDentry(nd)
    BY DEF Dentry, IsDentry
  <2> HIDE DEF nd, dn
  <2>9. Len(w) \in Nat /\ Extends(t, w)
    BY <1>0, <2>4, <2>7 DEF Extends
  <2>10. DentryOK(w, de)
    <3>1. in.fs \in {"ext2", "procfs"}
      BY <1>4, LookupFs
    <3>2. IsSeq(<<>>) /\ Len(<<>>) = 0
      <4>1. <<>> \in Seq({})
        OBVIOUS
      <4> QED BY <4>1 DEF IsSeq
    <3> QED BY <2>7, <2>8, <3>1, <3>2 DEF DentryOK
  <2>11. DentryOK(w, cur)
    <3>1. ch = <<de>> \o d.children
      OBVIOUS
    <3> HIDE DEF ch
    <3>2. /\ IsSeq(ch) /\ Len(ch) = Len(d.children) + 1
          /\ \A i \in 1 .. Len(ch) : ch[i] = de \/ \E j \in 1 .. Len(d.children) : ch[i] = d.children[j]
      <4> DEFINE ds == d.children
      <4>1. IsSeq(ds) /\ ch = <<de>> \o ds
        BY <2>2, <3>1
      <4> HIDE DEF de, ds
      <4>2. Consed(de, ds, ch)
        BY <4>1, SeqCons
      <4> QED BY <4>2 DEF ds, Consed
    <3>3. ChildOK(w, cur, de)
      <4>1. w[cur].inode = d.inode /\ w[de].inode = in /\ w[de].name = name /\ de \in 1 .. Len(w)
        BY <1>0, <2>4, <2>7, <2>8
      <4>2. d.inode.fs = "ext2" => in = Found(d.inode, name)
        BY LookupExt2
      <4> HIDE DEF in, d, de
      <4> QED BY <1>4, <4>1, <4>2 DEF ChildOK
    <3>4. ASSUME NEW j \in 1 .. Len(d.children) PROVE ChildOK(w, cur, d.children[j])
      <4>1. ChildOK(t, cur, d.children[j])
        BY <2>2 DEF DentryOK
      <4> QED BY <1>0, <2>2, <2>9, <4>1, ChildKept
    <3>5. \A i \in 1 .. Len(ch) : ChildOK(w, cur, ch[i])
      BY <3>2, <3>3, <3>4
    <3>6. w[cur].children = ch /\ IsDentry(w[cur]) /\ w[cur].inode = d.inode
      BY <2>4, <2>7
    <3>7. d.inode.fs \in {"ext2", "procfs"}
      BY <2>2 DEF DentryOK
    <3> QED BY <3>2, <3>5, <3>6, <3>7 DEF DentryOK
  <2>12. ASSUME NEW i \in 1 .. Len(t), i # cur PROVE DentryOK(w, i)
    <3>1. DentryOK(t, i) /\ w[i] = t[i]
      BY <2>7, <2>12 DEF TreeOK
    <3>2. ASSUME NEW j \in 1 .. Len(t[i].children) PROVE ChildOK(w, i, t[i].children[j])
      BY <1>0, <2>9, <3>1, ChildKept DEF DentryOK
    <3> QED BY <3>1, <3>2 DEF DentryOK
  <2>13. TreeOK(w)
    <3>1. \A i \in 1 .. Len(w) : i = de \/ i = cur \/ (i \in 1 .. Len(t) /\ i # cur)
      BY <1>0, <2>7
    <3>2. \A i \in 1 .. Len(w) : DentryOK(w, i)
      BY <2>10, <2>11, <2>12, <3>1
    <3>3. w[1].inode = t[1].inode /\ w[1].name = t[1].name /\ Len(t) >= 1
      BY <1>0, <2>9 DEF Extends, TreeOK
    <3> QED BY <1>0, <2>7, <3>2, <3>3 DEF TreeOK
  <2>14. d.inode.fs = "ext2" => in = Found(d.inode, name)
    BY LookupExt2
  <2>16. de \in 0 .. Len(w) /\ de # 0 /\ w[de].inode = in
    BY <1>0, <2>7, <2>8
  <2> HIDE DEF in, de, hits, st
  <2> QED BY <1>4, <2>3, <2>9, <2>13, <2>14, <2>16, WalkedBy
<1> QED BY <1>1, <1>2, <1>3, <1>4

\* Growing is transitive.
LEMMA ExtendsTrans ==
  ASSUME NEW s, NEW t, NEW r, Extends(s, t), Extends(t, r),
         Len(s) \in Nat, Len(t) \in Nat, Len(r) \in Nat
  PROVE  Extends(s, r)
BY DEF Extends

----------------------------------------------------------------------------
(* Paths *)

PathStep(path, g, m) ==
  g = [k \in 0 .. m |-> IF k = 0 THEN [tree |-> dentry, cur |-> vfs_root]
                        ELSE Walk(g[k - 1], path[k])]

\* The function that lookup_path defines exists, so it satisfies its recursion.
LEMMA PathEquation ==
  ASSUME NEW path, Len(path) \in Nat
  PROVE  \E g : /\ lookup_path(path) = g[Len(path)]
                /\ g[0] = [tree |-> dentry, cur |-> vfs_root]
                /\ \A k \in 1 .. Len(path) : g[k] = Walk(g[k - 1], path[k])
<1> DEFINE S == {m \in Nat : \E g : PathStep(path, g, m)}
           first == [tree |-> dentry, cur |-> vfs_root]
           n == Len(path)
<1>1. 0 \in S
  <2> DEFINE g == [k \in 0 .. 0 |-> first]
  <2>1. PathStep(path, g, 0)
    BY DEF PathStep
  <2> QED BY <2>1
<1>2. ASSUME NEW m \in S PROVE m + 1 \in S
  <2>1. PICK g : PathStep(path, g, m)
    OBVIOUS
  <2> DEFINE h == [k \in 0 .. (m + 1) |-> IF k <= m THEN g[k] ELSE Walk(g[m], path[k])]
  <2>2. \A k \in 0 .. m : g[k] = IF k = 0 THEN first ELSE Walk(g[k - 1], path[k])
    BY <2>1 DEF PathStep
  <2> HIDE DEF first
  <2>3. \A k \in 0 .. (m + 1) : h[k] = IF k = 0 THEN first ELSE Walk(h[k - 1], path[k])
    BY <2>2
  <2>4. PathStep(path, h, m + 1)
    BY <2>3 DEF PathStep, first
  <2> QED BY <2>4
<1>3. \E g : PathStep(path, g, n)
  <2>1. S = Nat
    <3> HIDE DEF S
    <3>1. S \in SUBSET Nat
      BY DEF S
    <3> QED BY <1>1, <1>2, <3>1, NatSet
  <2> QED BY <2>1
<1> DEFINE g == CHOOSE g : PathStep(path, g, n)
<1>4. lookup_path(path) = g[n]
  BY DEF lookup_path, PathStep
<1>5. PathStep(path, g, n)
  BY <1>3
<1> HIDE DEF g
<1>6. g[0] = first /\ \A k \in 1 .. n : g[k] = Walk(g[k - 1], path[k])
  BY <1>5 DEF PathStep
<1> QED BY <1>4, <1>6

RefNext(dev, ino, name) == IF ino = 0 \/ name = "" THEN ino ELSE Listed(dev, ino, name)
RefStep(dev, path, g, m) ==
  g = [k \in 0 .. m |-> IF k = 0 THEN EXT2_ROOT_INO ELSE RefNext(dev, g[k - 1], path[k])]

\* Likewise the function that Reference defines.
LEMMA ReferenceEquation ==
  ASSUME NEW dev, NEW path, Len(path) \in Nat
  PROVE  \E g : /\ Reference(dev, path) = g[Len(path)]
                /\ g[0] = EXT2_ROOT_INO
                /\ \A k \in 1 .. Len(path) : g[k] = RefNext(dev, g[k - 1], path[k])
<1> DEFINE S == {m \in Nat : \E g : RefStep(dev, path, g, m)}
           n == Len(path)
<1>1. 0 \in S
  <2> DEFINE g == [k \in 0 .. 0 |-> EXT2_ROOT_INO]
  <2>1. RefStep(dev, path, g, 0)
    BY DEF RefStep
  <2> QED BY <2>1
<1>2. ASSUME NEW m \in S PROVE m + 1 \in S
  <2>1. PICK g : RefStep(dev, path, g, m)
    OBVIOUS
  <2> DEFINE h == [k \in 0 .. (m + 1) |-> IF k <= m THEN g[k] ELSE RefNext(dev, g[m], path[k])]
  <2>2. \A k \in 0 .. m : g[k] = IF k = 0 THEN EXT2_ROOT_INO ELSE RefNext(dev, g[k - 1], path[k])
    BY <2>1 DEF RefStep
  <2>3. \A k \in 0 .. (m + 1) :
          h[k] = IF k = 0 THEN EXT2_ROOT_INO ELSE RefNext(dev, h[k - 1], path[k])
    BY <2>2
  <2>4. RefStep(dev, path, h, m + 1)
    BY <2>3 DEF RefStep
  <2> HIDE DEF h
  <2> QED BY <2>4
<1>3. \E g : RefStep(dev, path, g, n)
  <2>1. S = Nat
    <3> HIDE DEF S
    <3>1. S \in SUBSET Nat
      BY DEF S
    <3> QED BY <1>1, <1>2, <3>1, NatSet
  <2> QED BY <2>1
<1> DEFINE g == CHOOSE g : RefStep(dev, path, g, n)
<1>4. Reference(dev, path) = g[n]
  BY DEF Reference, RefStep, RefNext
<1>5. RefStep(dev, path, g, n)
  BY <1>3
<1> HIDE DEF g
<1>6. g[0] = EXT2_ROOT_INO /\ \A k \in 1 .. n : g[k] = RefNext(dev, g[k - 1], path[k])
  BY <1>5 DEF RefStep
<1> QED BY <1>4, <1>6

\* Where a walk may be: in a good tree that has grown out of the cache.
Resolved(x) ==
  /\ x = [tree |-> x.tree, cur |-> x.cur]
  /\ TreeOK(x.tree) /\ x.cur \in 0 .. Len(x.tree) /\ Extends(dentry, x.tree)

\* One component leads from such a place to another.
LEMMA ResolvedStep ==
  ASSUME NEW x, Resolved(x), NEW name, NEW r, r = Walk(x, name), TreeOK(dentry)
  PROVE  Resolved(r) /\ Walked(x.tree, x.cur, name, r)
<1>1. x = [tree |-> x.tree, cur |-> x.cur] /\ TreeOK(x.tree) /\ x.cur \in 0 .. Len(x.tree)
      /\ Extends(dentry, x.tree)
  BY DEF Resolved
<1>2. r = Walk([tree |-> x.tree, cur |-> x.cur], name)
  BY <1>1
<1> DEFINE t == x.tree
           c == x.cur
<1>3. TreeOK(t) /\ c \in 0 .. Len(t) /\ r = Walk([tree |-> t, cur |-> c], name)
  BY <1>1, <1>2
<1> HIDE DEF t, c
<1>4. Walked(t, c, name, r)
  BY <1>3, WalkOK
<1>5. /\ r = [tree |-> r.tree, cur |-> r.cur] /\ TreeOK(r.tree) /\ r.cur \in 0 .. Len(r.tree)
      /\ Extends(t, r.tree)
  BY <1>4 DEF Walked
<1>6. \A s : TreeOK(s) => Len(s) \in Nat
  BY SeqFacts DEF TreeOK
<1>7. Extends(dentry, r.tree)
  BY <1>1, <1>3, <1>5, <1>6, ExtendsTrans DEF t
<1> QED BY <1>4, <1>5, <1>7 DEF Resolved, t, c

\* Every path resolves to a place in a good tree.
LEMMA LookupOK ==
  ASSUME TreeOK(dentry), vfs_root \in 0 .. Len(dentry), NEW path, Len(path) \in Nat
  PROVE  Resolved(lookup_path(path))
<1>1. PICK g : /\ lookup_path(path) = g[Len(path)]
               /\ g[0] = [tree |-> dentry, cur |-> vfs_root]
               /\ \A k \in 1 .. Len(path) : g[k] = Walk(g[k - 1], path[k])
  BY PathEquation
<1> DEFINE S == {m \in Nat : m <= Len(path) => Resolved(g[m])}
<1>2. 0 \in S
  <2>1. g[0].tree = dentry /\ g[0].cur = vfs_root /\ g[0] = [tree |-> g[0].tree, cur |-> g[0].cur]
    BY <1>1
  <2>2. Extends(dentry, dentry)
    BY SeqFacts DEF TreeOK, Extends
  <2>3. Resolved(g[0])
    BY <2>1, <2>2 DEF Resolved
  <2> QED BY <2>3
<1>3. ASSUME NEW m \in S PROVE m + 1 \in S
  <2> SUFFICES ASSUME m + 1 <= Len(path) PROVE Resolved(g[m + 1])
    OBVIOUS
  <2>1. m \in Nat /\ Resolved(g[m]) /\ m + 1 \in 1 .. Len(path) /\ (m + 1) - 1 = m
    OBVIOUS
  <2>2. g[m + 1] = Walk(g[m], path[m + 1])
    BY <1>1, <2>1
  <2> QED BY <2>1, <2>2, ResolvedStep
<1>4. S = Nat
  <2> HIDE DEF S
  <2>1. S \in SUBSET Nat
    BY DEF S
  <2> QED BY <1>2, <1>3, <2>1, NatSet
<1> QED BY <1>1, <1>4

----------------------------------------------------------------------------
(* Descriptors *)

Tables(T, fl) ==
  /\ T \in [Task -> [Fd -> File \cup {None}]]
  /\ \A t1, t2 \in Task, fd1, fd2 \in Fd :
       T[t1][fd1] # None =>
         /\ fl[T[t1][fd1]] # NoFile
         /\ T[t1][fd1] = T[t2][fd2] => t1 = t2 /\ fd1 = fd2

\* U is T with descriptor fd of task t set to x.
Put(T, U, t, fd, x) ==
  /\ U \in [Task -> [Fd -> File \cup {None}]]
  /\ \A t1 \in Task, fd1 \in Fd : U[t1][fd1] = IF t1 = t /\ fd1 = fd THEN x ELSE T[t1][fd1]

\* The assignment of current_task->fd_table[fd].
LEMMA PutExcept ==
  ASSUME NEW T \in [Task -> [Fd -> File \cup {None}]], NEW t \in Task, NEW fd \in Fd,
         NEW x \in File \cup {None}
  PROVE  Put(T, [T EXCEPT ![t][fd] = x], t, fd, x)
<1> DEFINE U == [T EXCEPT ![t][fd] = x]
<1>1. U \in [Task -> [Fd -> File \cup {None}]]
  OBVIOUS
<1>2. ASSUME NEW t1 \in Task, NEW fd1 \in Fd
      PROVE  U[t1][fd1] = IF t1 = t /\ fd1 = fd THEN x ELSE T[t1][fd1]
  OBVIOUS
<1> QED BY <1>1, <1>2 DEF Put

\* Other files may come and files may change, but none goes.
LEMMA TablesKeep ==
  ASSUME NEW T, NEW fl, NEW gl, Tables(T, fl), 0 \notin File,
         \A f \in File : fl[f] # NoFile => gl[f] # NoFile
  PROVE  Tables(T, gl)
BY DEF Tables, None

\* A descriptor is given a file that nobody has.
LEMMA TablesAdd ==
  ASSUME NEW T, NEW U, NEW fl, NEW gl, Tables(T, fl), 0 \notin File,
         NEW t \in Task, NEW fd \in Fd, NEW f \in File, Put(T, U, t, fd, f),
         fl[f] = NoFile, gl[f] # NoFile, \A h \in File : fl[h] # NoFile => gl[h] # NoFile
  PROVE  Tables(U, gl)
<1>1. \A t1 \in Task, fd1 \in Fd : T[t1][fd1] # f
  BY DEF Tables, None
<1>2. U \in [Task -> [Fd -> File \cup {None}]]
  BY DEF Put
<1>3. ASSUME NEW t1 \in Task, NEW t2 \in Task, NEW fd1 \in Fd, NEW fd2 \in Fd,
             U[t1][fd1] # None
      PROVE  /\ gl[U[t1][fd1]] # NoFile
             /\ U[t1][fd1] = U[t2][fd2] => t1 = t2 /\ fd1 = fd2
  <2>1. /\ U[t1][fd1] = IF t1 = t /\ fd1 = fd THEN f ELSE T[t1][fd1]
        /\ U[t2][fd2] = IF t2 = t /\ fd2 = fd THEN f ELSE T[t2][fd2]
    BY DEF Put
  <2>2. T[t1][fd1] \in File \cup {None}
    BY DEF Tables
  <2>3. T[t1][fd1] # None => /\ gl[T[t1][fd1]] # NoFile
                             /\ T[t1][fd1] = T[t2][fd2] => t1 = t2 /\ fd1 = fd2
    BY <2>2 DEF Tables
  <2> QED BY <1>1, <1>3, <2>1, <2>3
<1> QED BY <1>2, <1>3 DEF Tables

\* A descriptor is closed and its file is freed.
LEMMA TablesDrop ==
  ASSUME NEW T, NEW U, NEW fl, NEW gl, Tables(T, fl), 0 \notin File,
         NEW t \in Task, NEW fd \in Fd, T[t][fd] # None, Put(T, U, t, fd, None),
         \A h \in File : h # T[t][fd] => gl[h] = fl[h]
  PROVE  Tables(U, gl)
<1>2. U \in [Task -> [Fd -> File \cup {None}]]
  BY DEF Put
<1>3. ASSUME NEW t1 \in Task, NEW t2 \in Task, NEW fd1 \in Fd, NEW fd2 \in Fd,
             U[t1][fd1] # None
      PROVE  /\ gl[U[t1][fd1]] # NoFile
             /\ U[t1][fd1] = U[t2][fd2] => t1 = t2 /\ fd1 = fd2
  <2>1. /\ U[t1][fd1] = IF t1 = t /\ fd1 = fd THEN None ELSE T[t1][fd1]
        /\ U[t2][fd2] = IF t2 = t /\ fd2 = fd THEN None ELSE T[t2][fd2]
    BY DEF Put
  <2>2. U[t1][fd1] = T[t1][fd1] /\ ~(t1 = t /\ fd1 = fd)
    BY <1>3, <2>1
  <2>3. T[t1][fd1] \in File /\ T[t1][fd1] # T[t][fd]
    BY <1>3, <2>2 DEF Tables
  <2>4. fl[T[t1][fd1]] # NoFile /\ (T[t1][fd1] = T[t2][fd2] => t1 = t2 /\ fd1 = fd2)
    BY <1>3, <2>2 DEF Tables
  <2> QED BY <1>3, <2>1, <2>2, <2>3, <2>4
<1> QED BY <1>2, <1>3 DEF Tables

----------------------------------------------------------------------------
(* Files and pipes *)

End == {"read_closed", "write_closed"}
IsFile(x) == x = [inode |-> x.inode, offset |-> x.offset, ref_count |-> 1, ops |-> x.ops]
IsEnd(fl, f, p, e) == fl[f].inode.fs = "pipe" /\ fl[f].inode.ino = p /\ fl[f].ops = e

\* A struct file has one reference; an end of a pipe has at most one file.
FilesOK(fl, n) ==
  /\ DOMAIN fl = File
  /\ \A f \in File : fl[f] = NoFile \/ IsFile(fl[f])
  /\ \A f \in File : fl[f].inode.fs = "pipe" => fl[f].inode.ino \in 1 .. n /\ fl[f].ops \in End
  /\ \A f, g \in File, p \in 1 .. n, e \in End : IsEnd(fl, f, p, e) /\ IsEnd(fl, g, p, e) => f = g

PipesOK(ps, fl) ==
  /\ IsSeq(ps) /\ \A p \in 1 .. Len(ps) : ps[p] \in [End -> BOOLEAN]
  /\ \A p \in 1 .. Len(ps), e \in End : ps[p][e] <=> \A f \in File : ~IsEnd(fl, f, p, e)

\* A free slot of file is no file.
LEMMA NoFileFacts ==
  /\ NoFile.inode.fs = "none" /\ NoFile.ref_count = 0
  /\ \A x : IsFile(x) => x # NoFile /\ x.ref_count = 1
BY DEF NoFile, NoInode, Inode, IsFile

\* vfs_open: a file that is no end of a pipe comes.
LEMMA FileComes ==
  ASSUME NEW fl, NEW gl, NEW ps, FilesOK(fl, Len(ps)), PipesOK(ps, fl), NEW f \in File,
         fl[f] = NoFile, NEW x, IsFile(x), x.inode.fs # "pipe", gl = [fl EXCEPT ![f] = x]
  PROVE  FilesOK(gl, Len(ps)) /\ PipesOK(ps, gl)
<1>1. DOMAIN gl = File /\ gl[f] = x /\ \A g \in File : g # f => gl[g] = fl[g]
  BY DEF FilesOK
<1>2. \A g \in File : \A p, e : IsEnd(gl, g, p, e) <=> IsEnd(fl, g, p, e)
  BY <1>1, NoFileFacts DEF IsEnd
<1>3. FilesOK(gl, Len(ps))
  <2>1. \A g \in File : gl[g] = NoFile \/ IsFile(gl[g])
    BY <1>1 DEF FilesOK
  <2>2. \A g \in File : gl[g].inode.fs = "pipe" => gl[g].inode.ino \in 1 .. Len(ps) /\ gl[g].ops \in End
    BY <1>1 DEF FilesOK
  <2>3. \A g, h \in File, p \in 1 .. Len(ps), e \in End :
          IsEnd(gl, g, p, e) /\ IsEnd(gl, h, p, e) => g = h
    BY <1>2 DEF FilesOK
  <2> QED BY <1>1, <2>1, <2>2, <2>3 DEF FilesOK
<1>4. PipesOK(ps, gl)
  BY <1>2 DEF PipesOK
<1> QED BY <1>3, <1>4

\* vfs_read, vfs_seek: only the offset of a file changes.
LEMMA FileMoves ==
  ASSUME NEW fl, NEW gl, NEW ps, FilesOK(fl, Len(ps)), PipesOK(ps, fl), NEW f \in File,
         fl[f] # NoFile, NEW v, gl = [fl EXCEPT ![f].offset = v]
  PROVE  /\ FilesOK(gl, Len(ps)) /\ PipesOK(ps, gl)
         /\ \A g \in File : fl[g] # NoFile => gl[g] # NoFile
<1>1. DOMAIN gl = File /\ \A g \in File : g # f => gl[g] = fl[g]
  BY DEF FilesOK
<1>2. IsFile(fl[f]) /\ gl[f] = [fl[f] EXCEPT !.offset = v]
  BY DEF FilesOK
<1>3. IsFile(gl[f]) /\ gl[f].inode = fl[f].inode /\ gl[f].ops = fl[f].ops
  BY <1>2 DEF IsFile
<1>4. \A g \in File : gl[g].inode = fl[g].inode /\ gl[g].ops = fl[g].ops
  BY <1>1, <1>3
<1>5. \A g \in File : \A p, e : IsEnd(gl, g, p, e) <=> IsEnd(fl, g, p, e)
  BY <1>4 DEF IsEnd
<1>6. FilesOK(gl, Len(ps))
  <2>1. \A g \in File : gl[g] = NoFile \/ IsFile(gl[g])
    BY <1>1, <1>3 DEF FilesOK
  <2>2. \A g \in File : gl[g].inode.fs = "pipe" => gl[g].inode.ino \in 1 .. Len(ps) /\ gl[g].ops \in End
    BY <1>4 DEF FilesOK
  <2>3. \A g, h \in File, p \in 1 .. Len(ps), e \in End :
          IsEnd(gl, g, p, e) /\ IsEnd(gl, h, p, e) => g = h
    BY <1>5 DEF FilesOK
  <2> QED BY <1>1, <2>1, <2>2, <2>3 DEF FilesOK
<1>7. PipesOK(ps, gl)
  BY <1>5 DEF PipesOK
<1>8. \A g \in File : fl[g] # NoFile => gl[g] # NoFile
  BY <1>1, <1>3, NoFileFacts
<1> QED BY <1>6, <1>7, <1>8

\* vfs_close: the file goes, and with it the end of the pipe that it was.
LEMMA FileGoes ==
  ASSUME NEW fl, NEW gl, NEW ps, NEW qs, FilesOK(fl, Len(ps)), PipesOK(ps, fl), NEW f \in File,
         IsFile(fl[f]), gl = [fl EXCEPT ![f] = NoFile],
         qs = [p \in DOMAIN ps |-> IF fl[f].inode.fs = "pipe" /\ fl[f].inode.ino = p
                                   THEN [ps[p] EXCEPT ![fl[f].ops] = TRUE] ELSE ps[p]]
  PROVE  Len(qs) = Len(ps) /\ FilesOK(gl, Len(ps)) /\ PipesOK(qs, gl)
<1>1. DOMAIN gl = File /\ gl[f] = NoFile /\ \A g \in File : g # f => gl[g] = fl[g]
  BY DEF FilesOK
<1>2. \A p, e : /\ ~IsEnd(gl, f, p, e)
                /\ \A g \in File : g # f => (IsEnd(gl, g, p, e) <=> IsEnd(fl, g, p, e))
  BY <1>1, NoFileFacts DEF IsEnd
<1>3. FilesOK(gl, Len(ps))
  <2>1. \A g \in File : gl[g] = NoFile \/ IsFile(gl[g])
    BY <1>1 DEF FilesOK
  <2>2. \A g \in File : gl[g].inode.fs = "pipe" => gl[g].inode.ino \in 1 .. Len(ps) /\ gl[g].ops \in End
    BY <1>1, NoFileFacts DEF FilesOK
  <2>3. \A g, h \in File, p \in 1 .. Len(ps), e \in End :
          IsEnd(gl, g, p, e) /\ IsEnd(gl, h, p, e) => g = h
    <3> SUFFICES ASSUME NEW g \in File, NEW h \in File, NEW p \in 1 .. Len(ps), NEW e \in End,
                        IsEnd(gl, g, p, e), IsEnd(gl, h, p, e)
                 PROVE  g = h
      OBVIOUS
    <3>1. IsEnd(fl, g, p, e) /\ IsEnd(fl, h, p, e)
      BY <1>2
    <3> QED BY <3>1 DEF FilesOK
  <2> QED BY <1>1, <2>1, <2>2, <2>3 DEF FilesOK
<1>4. IsSeq(ps) /\ Len(ps) \in Nat /\ DOMAIN ps = 1 .. Len(ps)
  BY SeqFacts DEF PipesOK
<1>5. \A p \in 1 .. Len(ps) :
        qs[p] = IF fl[f].inode.fs = "pipe" /\ fl[f].inode.ino = p
                THEN [ps[p] EXCEPT ![fl[f].ops] = TRUE] ELSE ps[p]
  BY <1>4
<1>6. \A p \in 1 .. Len(ps) : ps[p] \in [End -> BOOLEAN] /\ qs[p] \in [End -> BOOLEAN]
  <2> SUFFICES ASSUME NEW p \in 1 .. Len(ps)
               PROVE  ps[p] \in [End -> BOOLEAN] /\ qs[p] \in [End -> BOOLEAN]
    OBVIOUS
  <2>1. ps[p] \in [End -> BOOLEAN]
    BY DEF PipesOK
  <2>2. \A x : [ps[p] EXCEPT ![x] = TRUE] \in [End -> BOOLEAN]
    BY <2>1
  <2> QED BY <1>5, <2>1, <2>2
<1>7. IsSeq(qs) /\ Len(qs) = Len(ps)
  <2>1. qs \in [1 .. Len(ps) -> [End -> BOOLEAN]]
    BY <1>4, <1>6
  <2>2. qs \in Seq([End -> BOOLEAN]) /\ Len(qs) = Len(ps)
    BY <1>4, <2>1
  <2> QED BY <2>2 DEF IsSeq
<1>8. ASSUME NEW p \in 1 .. Len(ps), NEW e \in End
      PROVE  qs[p][e] <=> \A g \in File : ~IsEnd(gl, g, p, e)
  <2>1. ps[p][e] <=> \A g \in File : ~IsEnd(fl, g, p, e)
    BY DEF PipesOK
  <2>2. CASE IsEnd(fl, f, p, e)
    <3>1. qs[p] = [ps[p] EXCEPT ![e] = TRUE]
      BY <1>5, <2>2 DEF IsEnd
    <3>2. qs[p][e]
      <4>1. ps[p] \in [End -> BOOLEAN]
        BY <1>6
      <4> QED BY <3>1, <4>1
    <3>3. \A g \in File : IsEnd(fl, g, p, e) => g = f
      BY <2>2 DEF FilesOK
    <3> QED BY <1>2, <3>2, <3>3
  <2>3. CASE ~IsEnd(fl, f, p, e)
    <3>1. qs[p][e] = ps[p][e]
      <4>1. CASE fl[f].inode.fs = "pipe" /\ fl[f].inode.ino = p
        <5>1. fl[f].ops # e /\ qs[p] = [ps[p] EXCEPT ![fl[f].ops] = TRUE]
          BY <1>5, <2>3, <4>1 DEF IsEnd
        <5> QED BY <1>6, <5>1
      <4>2. CASE ~(fl[f].inode.fs = "pipe" /\ fl[f].inode.ino = p)
        BY <1>5, <4>2
      <4> QED BY <4>1, <4>2
    <3>2. \A g \in File : IsEnd(gl, g, p, e) <=> IsEnd(fl, g, p, e)
      BY <1>2, <2>3
    <3> QED BY <2>1, <3>1, <3>2
  <2> QED BY <2>2, <2>3
<1>9. PipesOK(qs, gl)
  BY <1>6, <1>7, <1>8 DEF PipesOK
<1> QED BY <1>3, <1>7, <1>9

PipeMade(fl, gl, qs, rf, wf) ==
  /\ FilesOK(gl, Len(qs)) /\ PipesOK(qs, gl) /\ gl[rf] # NoFile /\ gl[wf] # NoFile
  /\ \A g \in File : g # rf /\ g # wf => gl[g] = fl[g]

\* pipe_create: a pipe comes with both its ends open, each with a file.
LEMMA PipeComes ==
  ASSUME NEW fl, NEW gl, NEW ps, NEW qs, FilesOK(fl, Len(ps)), PipesOK(ps, fl),
         NEW rf \in File, NEW wf \in File, rf # wf, fl[rf] = NoFile, fl[wf] = NoFile,
         NEW in, in = Inode("pipe", "none", Len(ps) + 1, <<>>),
         gl = [fl EXCEPT ![rf] = NewFile(in, "read_closed"), ![wf] = NewFile(in, "write_closed")],
         qs = Append(ps, [read_closed |-> FALSE, write_closed |-> FALSE])
  PROVE  PipeMade(fl, gl, qs, rf, wf)
<1> DEFINE n == Len(ps) + 1
           new == [read_closed |-> FALSE, write_closed |-> FALSE]
           r == NewFile(in, "read_closed")
           w == NewFile(in, "write_closed")
<1>1. /\ DOMAIN gl = File /\ gl[rf] = r /\ gl[wf] = w
      /\ \A g \in File : g # rf /\ g # wf => gl[g] = fl[g]
  BY DEF FilesOK
<1>2. /\ in.fs = "pipe" /\ in.ino = n
      /\ r.inode = in /\ r.ops = "read_closed" /\ IsFile(r)
      /\ w.inode = in /\ w.ops = "write_closed" /\ IsFile(w)
  BY DEF Inode, NewFile, IsFile
<1> HIDE DEF r, w
<1>3. IsSeq(ps) /\ Len(ps) \in Nat /\ DOMAIN ps = 1 .. Len(ps)
  BY SeqFacts DEF PipesOK
<1>4. /\ IsSeq(qs) /\ Len(qs) = n /\ qs[n] = new
      /\ \A i \in 1 .. Len(ps) : qs[i] = ps[i]
  <2> HIDE DEF new
  <2>1. qs = Append(ps, new)
    BY DEF new
  <2> QED BY <1>3, <2>1, SeqFacts
<1>5. new \in [End -> BOOLEAN] /\ \A e \in End : ~new[e]
  <2>1. DOMAIN new = End
    BY DEF End
  <2>2. new["read_closed"] = FALSE /\ new["write_closed"] = FALSE
    OBVIOUS
  <2>3. new = [e \in DOMAIN new |-> new[e]]
    OBVIOUS
  <2> HIDE DEF new
  <2>4. \A e \in End : new[e] = FALSE
    BY <2>2 DEF End
  <2>5. new = [e \in End |-> FALSE]
    BY <2>1, <2>3, <2>4, Zenon
  <2> QED BY <2>4, <2>5
<1> HIDE DEF new
<1>6. \A p, e : /\ IsEnd(gl, rf, p, e) <=> p = n /\ e = "read_closed"
                /\ IsEnd(gl, wf, p, e) <=> p = n /\ e = "write_closed"
                /\ \A g \in File : g # rf /\ g # wf => (IsEnd(gl, g, p, e) <=> IsEnd(fl, g, p, e))
  <2> HIDE DEF n
  <2> QED BY <1>1, <1>2 DEF IsEnd
<1>7. \A g \in File : \A e : ~IsEnd(fl, g, n, e)
  <2> SUFFICES ASSUME NEW g \in File, NEW e, IsEnd(fl, g, n, e) PROVE FALSE
    OBVIOUS
  <2>1. n \in 1 .. Len(ps)
    BY DEF IsEnd, FilesOK
  <2> QED BY <1>3, <2>1
<1>8. \A g \in File : \A e, p : p \in 1 .. Len(ps) => (IsEnd(gl, g, p, e) <=> IsEnd(fl, g, p, e))
  <2> SUFFICES ASSUME NEW g \in File, NEW e, NEW p \in 1 .. Len(ps)
               PROVE  IsEnd(gl, g, p, e) <=> IsEnd(fl, g, p, e)
    OBVIOUS
  <2>1. p # n
    BY <1>3
  <2>2. ~IsEnd(fl, rf, p, e) /\ ~IsEnd(fl, wf, p, e)
    BY NoFileFacts DEF IsEnd
  <2> QED BY <1>6, <2>1, <2>2
<1>9. FilesOK(gl, Len(qs))
  <2>1. \A g \in File : gl[g] = NoFile \/ IsFile(gl[g])
    BY <1>1, <1>2 DEF FilesOK
  <2>2. \A g \in File : gl[g].inode.fs = "pipe" => gl[g].inode.ino \in 1 .. n /\ gl[g].ops \in End
    <3> SUFFICES ASSUME NEW g \in File, gl[g].inode.fs = "pipe"
                 PROVE  gl[g].inode.ino \in 1 .. n /\ gl[g].ops \in End
      OBVIOUS
    <3>1. CASE g = rf \/ g = wf
      <4>1. n \in 1 .. n
        BY <1>3
      <4> HIDE DEF n
      <4> QED BY <1>1, <1>2, <3>1, <4>1 DEF End
    <3>2. CASE g # rf /\ g # wf
      <4>1. fl[g].inode.ino \in 1 .. Len(ps) /\ fl[g].ops \in End
        BY <1>1, <3>2 DEF FilesOK
      <4> QED BY <1>1, <1>3, <3>2, <4>1
    <3> QED BY <3>1, <3>2
  <2>3. ASSUME NEW g \in File, NEW h \in File, NEW p \in 1 .. n, NEW e \in End,
               IsEnd(gl, g, p, e), IsEnd(gl, h, p, e)
        PROVE  g = h
    <3>1. CASE p \in 1 .. Len(ps)
      <4>1. IsEnd(fl, g, p, e) /\ IsEnd(fl, h, p, e)
        BY <1>8, <2>3, <3>1
      <4> QED BY <3>1, <4>1 DEF FilesOK
    <3>2. CASE p = n
      <4> HIDE DEF n
      <4>1. (g = rf /\ e = "read_closed") \/ (g = wf /\ e = "write_closed")
        BY <1>6, <1>7, <2>3, <3>2
      <4>2. (h = rf /\ e = "read_closed") \/ (h = wf /\ e = "write_closed")
        BY <1>6, <1>7, <2>3, <3>2
      <4>3. "read_closed" # "write_closed"
        OBVIOUS
      <4> QED BY <4>1, <4>2, <4>3
    <3>3. p \in 1 .. Len(ps) \/ p = n
      BY <1>3
    <3> QED BY <3>1, <3>2, <3>3
  <2> HIDE DEF n
  <2> QED BY <1>1, <1>4, <2>1, <2>2, <2>3 DEF FilesOK
<1>10. PipesOK(qs, gl)
  <2>1. \A p \in 1 .. n : p \in 1 .. Len(ps) \/ p = n
    BY <1>3
  <2> HIDE DEF n
  <2>2. \A p \in 1 .. n : qs[p] \in [End -> BOOLEAN]
    BY <1>4, <1>5, <2>1 DEF PipesOK
  <2>3. ASSUME NEW p \in 1 .. n, NEW e \in End
        PROVE  qs[p][e] <=> \A g \in File : ~IsEnd(gl, g, p, e)
    <3>1. CASE p \in 1 .. Len(ps)
      <4>1. ps[p][e] <=> \A g \in File : ~IsEnd(fl, g, p, e)
        BY <3>1 DEF PipesOK
      <4>2. qs[p] = ps[p]
        BY <1>4, <3>1
      <4> QED BY <1>8, <3>1, <4>1, <4>2
    <3>2. CASE p = n
      <4>1. ~qs[p][e]
        BY <1>4, <1>5, <3>2
      <4>2. IsEnd(gl, rf, n, "read_closed") /\ IsEnd(gl, wf, n, "write_closed")
        BY <1>6
      <4> QED BY <3>2, <4>1, <4>2 DEF End
    <3> QED BY <2>1, <3>1, <3>2
  <2> QED BY <1>4, <2>2, <2>3 DEF PipesOK
<1> QED BY <1>1, <1>2, <1>9, <1>10, NoFileFacts DEF PipeMade

----------------------------------------------------------------------------
(* The invariant *)

\* What a mount of ext2 on "/" leaves behind.
RootOK(tree, root) ==
  root # None /\ tree[root].inode.fs = "ext2" =>
    \E dev \in Device : /\ Image[dev].magic
                        /\ tree[root].inode = Inode("ext2", dev, EXT2_ROOT_INO, <<>>)

CacheInv == TreeOK(dentry) /\ vfs_root \in 0 .. Len(dentry) /\ RootOK(dentry, vfs_root)
FileInv  == Tables(fd_table, file) /\ FilesOK(file, Len(pipe)) /\ PipesOK(pipe, file)
VfsInv   == CacheInv /\ FileInv

\* The cache keeps the root when it only grows.
LEMMA RootKept ==
  ASSUME NEW s, NEW r, Extends(s, r), Len(s) \in Nat, Len(r) \in Nat,
         NEW root \in 0 .. Len(s), RootOK(s, root)
  PROVE  root \in 0 .. Len(r) /\ RootOK(r, root)
<1>1. root \in 0 .. Len(r)
  BY DEF Extends
<1>2. root # None => r[root].inode = s[root].inode
  BY DEF Extends, None
<1> QED BY <1>1, <1>2 DEF RootOK

\* vfs_stat, vfs_open: what lookup_path makes.
LEMMA LookupKeeps ==
  ASSUME CacheInv, NEW path \in Path
  PROVE  LET r == lookup_path(path)
         IN  /\ TreeOK(r.tree) /\ r.cur \in 0 .. Len(r.tree)
             /\ vfs_root \in 0 .. Len(r.tree) /\ RootOK(r.tree, vfs_root)
<1> DEFINE r == lookup_path(path)
<1>1. Len(path) \in Nat
  BY VfsAssumption
<1>2. Resolved(r)
  BY <1>1, LookupOK DEF CacheInv
<1> HIDE DEF r
<1>3. TreeOK(r.tree) /\ r.cur \in 0 .. Len(r.tree) /\ Extends(dentry, r.tree)
  BY <1>2 DEF Resolved
<1>4. \A s : TreeOK(s) => Len(s) \in Nat
  BY SeqFacts DEF TreeOK
<1>5. vfs_root \in 0 .. Len(r.tree) /\ RootOK(r.tree, vfs_root)
  BY <1>3, <1>4, RootKept DEF CacheInv
<1> QED BY <1>3, <1>5 DEF r

\* A dentry that is not replaced stays good when the tree grows.
LEMMA DentryKept ==
  ASSUME NEW s, NEW r, TreeOK(s), Extends(s, r), Len(s) \in Nat, Len(r) \in Nat,
         NEW i \in 1 .. Len(s), r[i] = s[i]
  PROVE  DentryOK(r, i)
<1>1. DentryOK(s, i)
  BY DEF TreeOK
<1>2. ASSUME NEW j \in 1 .. Len(s[i].children) PROVE ChildOK(r, i, s[i].children[j])
  <2>1. ChildOK(s, i, s[i].children[j])
    BY <1>1 DEF DentryOK
  <2> QED BY <2>1, ChildKept
<1> QED BY <1>1, <1>2 DEF DentryOK

Fresh(r, i, name, in) == DentryOK(r, i) /\ r[i].inode = in /\ r[i].name = name

\* A dentry without children is good.
LEMMA DentryFresh ==
  ASSUME NEW r, NEW i, NEW name, NEW in, NEW parent, r[i] = Dentry(name, in, parent),
         in.fs \in {"ext2", "procfs"}
  PROVE  Fresh(r, i, name, in)
<1>1. IsSeq(<<>>) /\ Len(<<>>) = 0
  <2>1. <<>> \in Seq({})
    OBVIOUS
  <2> QED BY <2>1 DEF IsSeq
<1>2. r[i].children = <<>> /\ r[i].inode = in /\ r[i].name = name /\ IsDentry(r[i])
  BY DEF Dentry, IsDentry
<1> QED BY <1>1, <1>2 DEF Fresh, DentryOK

CacheOK(tree, root) == TreeOK(tree) /\ root \in 0 .. Len(tree) /\ RootOK(tree, root)

\* ext2_mount.
LEMMA MountExt2 ==
  ASSUME CacheInv, NEW dev \in Device, Image[dev].magic,
         NEW r, NEW in, in = Inode("ext2", dev, EXT2_ROOT_INO, <<>>),
         r = Append(dentry, Dentry("/", in, None)),
         NEW root, root = Len(r) \/ root = vfs_root
  PROVE  CacheOK(r, root)
<1> DEFINE n == Len(dentry) + 1
           nd == Dentry("/", in, None)
<1>1. TreeOK(dentry) /\ IsSeq(dentry) /\ vfs_root \in 0 .. Len(dentry) /\ RootOK(dentry, vfs_root)
      /\ Len(dentry) >= 1
  BY DEF CacheInv, TreeOK
<1>2. Len(dentry) \in Nat /\ n \in Nat \ {0}
  BY <1>1, SeqFacts
<1>3. r = Append(dentry, nd)
  OBVIOUS
<1> HIDE DEF nd
<1>4. IsSeq(r) /\ Len(r) = n /\ r[n] = nd /\ \A i \in 1 .. Len(dentry) : r[i] = dentry[i]
  BY <1>1, <1>3, SeqFacts
<1>5. Extends(dentry, r) /\ Len(r) \in Nat
  BY <1>2, <1>4 DEF Extends
<1>6. in.fs = "ext2"
  BY DEF Inode
<1>7. DentryOK(r, n) /\ r[n].inode = in
  <2> HIDE DEF n
  <2>1. r[n] = Dentry("/", in, None) /\ in.fs \in {"ext2", "procfs"}
    BY <1>4, <1>6 DEF nd
  <2>2. Fresh(r, n, "/", in)
    BY <2>1, DentryFresh
  <2> QED BY <2>2 DEF Fresh
<1>8. \A i \in 1 .. Len(dentry) : DentryOK(r, i)
  BY <1>1, <1>2, <1>4, <1>5, DentryKept
<1>9. TreeOK(r)
  <2>1. \A i \in 1 .. Len(r) : i \in 1 .. Len(dentry) \/ i = n
    BY <1>2, <1>4
  <2>2. r[1] = dentry[1] /\ Len(r) >= 1
    BY <1>1, <1>2, <1>4
  <2> HIDE DEF n
  <2>3. \A i \in 1 .. Len(r) : DentryOK(r, i)
    BY <1>7, <1>8, <2>1
  <2> QED BY <1>1, <1>4, <2>2, <2>3 DEF TreeOK
<1>10. vfs_root \in 0 .. Len(r) /\ RootOK(r, vfs_root)
  BY <1>1, <1>2, <1>5, RootKept
<1>11. n \in 0 .. Len(r)
  BY <1>2, <1>4
<1>12. RootOK(r, n)
  <2> HIDE DEF n
  <2> QED BY <1>7 DEF RootOK
<1> HIDE DEF n
<1> QED BY <1>4, <1>9, <1>10, <1>11, <1>12 DEF CacheOK

\* procfs_mount: the root of procfs loses its children and is what it was.
LEMMA MountProcfs ==
  ASSUME CacheInv, NEW r, r = [dentry EXCEPT ![1] = procfs_root],
         NEW root, root = 1 \/ root = vfs_root
  PROVE  CacheOK(r, root)
<1>1. /\ TreeOK(dentry) /\ IsSeq(dentry) /\ vfs_root \in 0 .. Len(dentry)
      /\ RootOK(dentry, vfs_root) /\ Len(dentry) >= 1
      /\ dentry[1].inode = procfs_root.inode /\ dentry[1].name = "/"
  BY DEF CacheInv, TreeOK
<1>2. Len(dentry) \in Nat /\ 1 \in 1 .. Len(dentry)
  BY <1>1, SeqFacts
<1>3. /\ IsSeq(r) /\ Len(r) = Len(dentry) /\ r[1] = procfs_root
      /\ \A j \in 1 .. Len(dentry) : j # 1 => r[j] = dentry[j]
  <2>1. Replaced(dentry, 1, procfs_root, r)
    BY <1>1, <1>2, SeqReplace
  <2> QED BY <2>1 DEF Replaced
<1> DEFINE in == Inode("procfs", "none", 0, <<>>)
<1>4. r[1] = Dentry("/", in, None) /\ in.fs = "procfs"
  BY <1>3 DEF procfs_root, Inode
<1> HIDE DEF in
<1>5. DentryOK(r, 1) /\ r[1].inode = in /\ r[1].name = "/"
  <2>1. in.fs \in {"ext2", "procfs"}
    BY <1>4
  <2>2. Fresh(r, 1, "/", in)
    BY <1>4, <2>1, DentryFresh
  <2> QED BY <2>2 DEF Fresh
<1>6. Extends(dentry, r)
  BY <1>1, <1>2, <1>3, <1>5 DEF Extends
<1>7. \A i \in 1 .. Len(dentry) : i # 1 => DentryOK(r, i)
  BY <1>1, <1>2, <1>3, <1>6, DentryKept
<1>8. TreeOK(r)
  BY <1>1, <1>3, <1>5, <1>7 DEF TreeOK
<1>9. vfs_root \in 0 .. Len(r) /\ RootOK(r, vfs_root)
  BY <1>1, <1>2, <1>3, <1>6, RootKept
<1>10. 1 \in 0 .. Len(r) /\ RootOK(r, 1)
  <2>1. r[1].inode.fs # "ext2"
    BY <1>4, <1>5
  <2> QED BY <1>2, <1>3, <2>1 DEF RootOK
<1> QED BY <1>8, <1>9, <1>10 DEF CacheOK

\* The struct files that kzmalloc may return.
LEMMA UnusedFile ==
  ASSUME NEW S \in SUBSET File, S # {}
  PROVE  Min(S) \in S /\ Min(S) \in File
<1>1. S \in SUBSET Nat
  BY VfsAssumption
<1> QED BY <1>1, MinInSet

\* The descriptor that alloc_fd returns.
LEMMA FreeFd ==
  ASSUME NEW T \in SUBSET Fd, T # {}
  PROVE  Min(T) \in T
<1>1. T \in SUBSET Nat
  BY VfsAssumption DEF Fd
<1> QED BY <1>1, MinInSet

\* The invariant holds after kernel_start has registered the filesystems.
LEMMA VfsInvInit == Init => VfsInv
<1> SUFFICES ASSUME Init PROVE VfsInv
  OBVIOUS
<1>1. dentry = <<procfs_root>> /\ vfs_root = 0
  BY DEF Init, None
<1>2. IsSeq(dentry) /\ Len(dentry) = 1 /\ dentry[1] = procfs_root
  <2>1. dentry \in Seq({procfs_root})
    BY <1>1
  <2> QED BY <1>1, <2>1 DEF IsSeq
<1>3. DentryOK(dentry, 1) /\ dentry[1].name = "/"
  <2> DEFINE in == Inode("procfs", "none", 0, <<>>)
  <2>1. dentry[1] = Dentry("/", in, None) /\ in.fs = "procfs"
    BY <1>2 DEF procfs_root, Inode
  <2> HIDE DEF in
  <2>2. in.fs \in {"ext2", "procfs"}
    BY <2>1
  <2>3. Fresh(dentry, 1, "/", in)
    BY <2>1, <2>2, DentryFresh
  <2> QED BY <2>3 DEF Fresh
<1>4. CacheInv
  <2>1. TreeOK(dentry)
    BY <1>2, <1>3 DEF TreeOK
  <2> QED BY <1>1, <1>2, <2>1 DEF CacheInv, RootOK, None
<1>5. Tables(fd_table, file)
  BY DEF Init, Tables
<1>6. IsSeq(pipe) /\ Len(pipe) = 0
  <2>1. pipe = <<>> /\ pipe \in Seq({})
    BY DEF Init
  <2> QED BY <2>1 DEF IsSeq
<1>7. FilesOK(file, 0)
  <2>1. DOMAIN file = File /\ \A f \in File : file[f] = NoFile
    BY DEF Init
  <2>2. \A f \in File : file[f].inode.fs # "pipe"
    BY <2>1, NoFileFacts
  <2> QED BY <2>1, <2>2 DEF FilesOK, IsEnd
<1>8. PipesOK(pipe, file)
  BY <1>6 DEF PipesOK
<1> QED BY <1>4, <1>5, <1>6, <1>7, <1>8 DEF VfsInv, FileInv

\* vfs_open.
LEMMA OpenStep ==
  ASSUME VfsInv, NEW t \in Task, NEW path \in Path, vfs_open(t, path)
  PROVE  VfsInv'
<1> DEFINE r == lookup_path(path)
           f == Min(Unused)
           in == r.tree[r.cur].inode
<1>1. /\ TreeOK(r.tree) /\ r.cur \in 0 .. Len(r.tree)
      /\ vfs_root \in 0 .. Len(r.tree) /\ RootOK(r.tree, vfs_root)
  BY LookupKeeps DEF VfsInv
<1>2. /\ dentry' = r.tree /\ UNCHANGED <<vfs_root, pipe>>
      /\ IF r.cur = None
         THEN UNCHANGED <<file, fd_table>>
         ELSE /\ Unused # {}
              /\ file' = [file EXCEPT ![f] = NewFile(in, fops(in))]
              /\ fd_table' = IF FreeFds(t, 0) = {} THEN fd_table
                             ELSE [fd_table EXCEPT ![t][Min(FreeFds(t, 0))] = f]
  BY DEF vfs_open
<1> HIDE DEF r
<1>3. CacheInv'
  BY <1>1, <1>2 DEF CacheInv
<1>4. FileInv
  BY DEF VfsInv
<1>5. FileInv'
  <2>1. CASE r.cur = None
    BY <1>2, <1>4, <2>1 DEF FileInv
  <2>2. CASE r.cur # None
    <3>1. in.fs \in {"ext2", "procfs"}
      <4>1. r.cur \in 1 .. Len(r.tree)
        <5>1. Len(r.tree) \in Nat
          BY <1>1, SeqFacts DEF TreeOK
        <5> HIDE DEF in, f
        <5> QED BY <1>1, <2>2, <5>1 DEF None
      <4>2. DentryOK(r.tree, r.cur)
        BY <1>1, <4>1 DEF TreeOK
      <4> QED BY <4>2 DEF DentryOK
    <3> HIDE DEF in
    <3>2. f \in File /\ file[f] = NoFile
      <4>1. Unused \in SUBSET File /\ Unused # {}
        BY <1>2, <2>2 DEF Unused
      <4>2. f \in Unused
        BY <4>1, UnusedFile
      <4> QED BY <4>2 DEF Unused
    <3> HIDE DEF f
    <3> DEFINE x == NewFile(in, fops(in))
    <3>3. IsFile(x) /\ x.inode.fs # "pipe"
      BY <3>1 DEF IsFile, NewFile
    <3>4. file' = [file EXCEPT ![f] = x]
      BY <1>2, <2>2
    <3> HIDE DEF x
    <3>5. FilesOK(file', Len(pipe)) /\ PipesOK(pipe, file')
      BY <1>4, <3>2, <3>3, <3>4, FileComes DEF FileInv
    <3>6. file'[f] # NoFile /\ \A g \in File : file[g] # NoFile => file'[g] # NoFile
      BY <1>4, <3>2, <3>3, <3>4, NoFileFacts DEF FileInv, FilesOK
    <3>7. Tables(fd_table, file) /\ 0 \notin File
      BY <1>4, VfsAssumption DEF FileInv
    <3>8. CASE FreeFds(t, 0) = {}
      <4>1. fd_table' = fd_table
        BY <1>2, <2>2, <3>8
      <4>2. Tables(fd_table, file')
        BY <3>6, <3>7, TablesKeep
      <4> QED BY <1>2, <3>5, <4>1, <4>2 DEF FileInv
    <3>9. CASE FreeFds(t, 0) # {}
      <4> DEFINE fd == Min(FreeFds(t, 0))
      <4>1. FreeFds(t, 0) \in SUBSET Fd
        BY DEF FreeFds, Fd
      <4>2. fd \in Fd
        BY <3>9, <4>1, FreeFd
      <4>3. fd_table' = [fd_table EXCEPT ![t][fd] = f]
        BY <1>2, <2>2, <3>9
      <4> HIDE DEF fd
      <4>4. Put(fd_table, fd_table', t, fd, f)
        <5>1. fd_table \in [Task -> [Fd -> File \cup {None}]]
          BY <3>7 DEF Tables
        <5> QED BY <3>2, <4>2, <4>3, <5>1, PutExcept
      <4>5. Tables(fd_table', file')
        BY <3>2, <3>6, <3>7, <4>2, <4>4, TablesAdd
      <4> QED BY <1>2, <3>5, <4>5 DEF FileInv
    <3> QED BY <3>8, <3>9
  <2> QED BY <2>1, <2>2
<1> QED BY <1>3, <1>5 DEF VfsInv

\* vfs_read, vfs_seek.
LEMMA MoveStep ==
  ASSUME VfsInv, NEW t \in Task, NEW fd \in Fd, NEW v, fd_table[t][fd] # None,
         file' = [file EXCEPT ![fd_table[t][fd]].offset = v],
         UNCHANGED <<vfs_root, dentry, fd_table, pipe>>
  PROVE  VfsInv'
<1> DEFINE f == fd_table[t][fd]
<1>1. FileInv /\ CacheInv
  BY DEF VfsInv
<1>2. CacheInv'
  BY <1>1 DEF CacheInv
<1>3. f \in File /\ file[f] # NoFile /\ Tables(fd_table, file) /\ 0 \notin File
  BY <1>1, VfsAssumption DEF FileInv, Tables
<1>4. file' = [file EXCEPT ![f].offset = v]
  OBVIOUS
<1> HIDE DEF f
<1>5. /\ FilesOK(file', Len(pipe)) /\ PipesOK(pipe, file')
      /\ \A g \in File : file[g] # NoFile => file'[g] # NoFile
  BY <1>1, <1>3, <1>4, FileMoves DEF FileInv
<1>6. Tables(fd_table, file')
  BY <1>3, <1>5, TablesKeep
<1> QED BY <1>2, <1>5, <1>6 DEF VfsInv, FileInv

\* vfs_close.
LEMMA CloseStep ==
  ASSUME VfsInv, NEW t \in Task, NEW fd \in Fd, vfs_close(t, fd)
  PROVE  VfsInv'
<1> DEFINE f == fd_table[t][fd]
<1>1. FileInv /\ CacheInv
  BY DEF VfsInv
<1>2. CacheInv'
  BY <1>1 DEF CacheInv, vfs_close
<1>3. f # None
  BY DEF vfs_close
<1>4. f \in File /\ file[f] # NoFile /\ Tables(fd_table, file) /\ 0 \notin File
  BY <1>1, <1>3, VfsAssumption DEF FileInv, Tables
<1>5. IsFile(file[f]) /\ file[f].ref_count = 1
  BY <1>1, <1>4, NoFileFacts DEF FileInv, FilesOK
<1>6. /\ file' = [file EXCEPT ![f] = NoFile]
      /\ fd_table' = [fd_table EXCEPT ![t][fd] = None]
      /\ pipe' = [p \in DOMAIN pipe |->
                    IF file[f].inode.fs = "pipe" /\ file[f].inode.ino = p
                    THEN [pipe[p] EXCEPT ![file[f].ops] = TRUE] ELSE pipe[p]]
  BY <1>5 DEF vfs_close
<1>7. Put(fd_table, fd_table', t, fd, None)
  <2>1. fd_table \in [Task -> [Fd -> File \cup {None}]]
    BY <1>4 DEF Tables
  <2> QED BY <1>6, <2>1, PutExcept
<1>8. \A h \in File : h # f => file'[h] = file[h]
  BY <1>1, <1>4, <1>6 DEF FileInv, FilesOK
<1>9. Tables(fd_table', file')
  BY <1>3, <1>4, <1>7, <1>8, TablesDrop
<1> HIDE DEF f
<1>10. Len(pipe') = Len(pipe) /\ FilesOK(file', Len(pipe)) /\ PipesOK(pipe', file')
  BY <1>1, <1>4, <1>5, <1>6, FileGoes DEF FileInv
<1> QED BY <1>2, <1>9, <1>10 DEF VfsInv, FileInv

\* pipe_create.
LEMMA PipeStep ==
  ASSUME VfsInv, NEW t \in Task, pipe_create(t)
  PROVE  VfsInv'
<1> DEFINE rf == Min(Unused)
           wf == Min(Unused \ {rf})
           in == Inode("pipe", "none", Len(pipe) + 1, <<>>)
           free == FreeFds(t, FirstPipeFd)
           fd1 == Min(free)
           rest == free \ {fd1}
           fd2 == Min(rest)
<1>1. FileInv /\ CacheInv
  BY DEF VfsInv
<1>2. CacheInv'
  BY <1>1 DEF CacheInv, pipe_create
<1>3. /\ Unused # {} /\ Unused # {rf}
      /\ pipe' = Append(pipe, [read_closed |-> FALSE, write_closed |-> FALSE])
      /\ file' = [file EXCEPT ![rf] = NewFile(in, "read_closed"),
                              ![wf] = NewFile(in, "write_closed")]
      /\ fd_table' = [fd_table EXCEPT ![t] =
           [fd \in Fd |-> IF free # {} /\ fd = fd1 THEN rf
                          ELSE IF free # {} /\ rest # {} /\ fd = fd2 THEN wf
                          ELSE fd_table[t][fd]]]
  BY DEF pipe_create
<1>4. Unused \in SUBSET File /\ free \in SUBSET Fd
  BY VfsAssumption DEF Unused, FreeFds, Fd
<1>5. /\ rf \in Unused /\ rf \in File
  BY <1>3, <1>4, UnusedFile
<1>6. wf \in Unused \ {rf} /\ wf \in File
  <2> HIDE DEF rf
  <2>1. Unused \ {rf} \in SUBSET File /\ Unused \ {rf} # {}
    BY <1>3, <1>4, <1>5
  <2> QED BY <2>1, UnusedFile
<1>7. file[rf] = NoFile /\ file[wf] = NoFile /\ rf # wf
  BY <1>5, <1>6 DEF Unused
<1>8. free # {} => fd1 \in free /\ fd1 \in Fd
  BY <1>4, FreeFd
<1>9. free # {} /\ rest # {} => fd2 \in free /\ fd2 \in Fd /\ fd2 # fd1
  <2>1. rest \in SUBSET Fd
    BY <1>4
  <2> HIDE DEF fd1
  <2>2. rest # {} => fd2 \in rest
    <3> HIDE DEF rest
    <3> QED BY <2>1, FreeFd
  <2> QED BY <1>4, <2>2
<1>10. in = Inode("pipe", "none", Len(pipe) + 1, <<>>)
  OBVIOUS
<1> HIDE DEF rf, wf, in, free, fd1, rest, fd2
<1>11. /\ FilesOK(file', Len(pipe')) /\ PipesOK(pipe', file') /\ file'[rf] # NoFile /\ file'[wf] # NoFile
       /\ \A g \in File : g # rf /\ g # wf => file'[g] = file[g]
  <2>1. FilesOK(file, Len(pipe)) /\ PipesOK(pipe, file)
    BY <1>1 DEF FileInv
  <2>2. PipeMade(file, file', pipe', rf, wf)
    BY <1>3, <1>5, <1>6, <1>7, <1>10, <2>1, PipeComes
  <2> QED BY <2>2 DEF PipeMade
<1>12. Tables(fd_table, file) /\ 0 \notin File /\ fd_table \in [Task -> [Fd -> File \cup {None}]]
  BY <1>1, VfsAssumption DEF FileInv, Tables
<1>13. /\ fd_table' \in [Task -> [Fd -> File \cup {None}]]
       /\ \A t1 \in Task, fd \in Fd :
            fd_table'[t1][fd] = IF t1 # t THEN fd_table[t1][fd]
                                ELSE IF free # {} /\ fd = fd1 THEN rf
                                ELSE IF free # {} /\ rest # {} /\ fd = fd2 THEN wf
                                ELSE fd_table[t][fd]
  BY <1>3, <1>5, <1>6, <1>12
<1>14. \A g \in File : file[g] # NoFile => file'[g] # NoFile
  BY <1>7, <1>11
<1>15. Tables(fd_table', file')
  <2>1. CASE free = {}
    <3>1. fd_table' = fd_table
      BY <1>12, <1>13, <2>1
    <3> QED BY <1>12, <1>14, <3>1, TablesKeep
  <2>2. CASE free # {} /\ rest = {}
    <3>1. Put(fd_table, fd_table', t, fd1, rf)
      BY <1>13, <2>2 DEF Put
    <3> QED BY <1>5, <1>7, <1>8, <1>11, <1>12, <1>14, <2>2, <3>1, TablesAdd
  <2>3. CASE free # {} /\ rest # {}
    <3> DEFINE U == [fd_table EXCEPT ![t][fd1] = rf]
               fl == [file EXCEPT ![rf] = file'[rf]]
    <3>1. Put(fd_table, U, t, fd1, rf)
      BY <1>5, <1>8, <1>12, <2>3, PutExcept
    <3>2. fl[rf] # NoFile /\ fl[wf] = NoFile /\ \A g \in File : g # rf => fl[g] = file[g]
      BY <1>1, <1>5, <1>6, <1>7, <1>11 DEF FileInv, FilesOK
    <3>3. \A g \in File : fl[g] # NoFile => file'[g] # NoFile
      BY <1>11, <1>14, <3>2
    <3>4. \A g \in File : file[g] # NoFile => fl[g] # NoFile
      BY <1>7, <3>2
    <3> HIDE DEF U, fl
    <3>5. Tables(U, fl)
      BY <1>5, <1>7, <1>8, <1>12, <2>3, <3>1, <3>2, <3>4, TablesAdd
    <3>6. Put(U, fd_table', t, fd2, wf)
      <4>1. ASSUME NEW t1 \in Task, NEW fd \in Fd
            PROVE  fd_table'[t1][fd] = IF t1 = t /\ fd = fd2 THEN wf ELSE U[t1][fd]
        <5>1. U[t1][fd] = IF t1 = t /\ fd = fd1 THEN rf ELSE fd_table[t1][fd]
          BY <3>1 DEF Put
        <5> QED BY <1>9, <1>13, <2>3, <5>1
      <4> QED BY <1>13, <4>1 DEF Put
    <3> QED BY <1>6, <1>9, <1>11, <1>12, <2>3, <3>2, <3>3, <3>5, <3>6, TablesAdd
  <2> QED BY <2>1, <2>2, <2>3
<1> QED BY <1>2, <1>11, <1>15 DEF VfsInv, FileInv

\* Every call keeps the invariant.
LEMMA VfsInvStep == VfsInv /\ [Next]_vars => VfsInv'
<1> SUFFICES ASSUME VfsInv, [Next]_vars PROVE VfsInv'
  OBVIOUS
<1>1. ASSUME NEW path \in MountPath, NEW dev \in Device, vfs_mount_ext2(path, dev)
      PROVE  VfsInv'
  <2> DEFINE in == Inode("ext2", dev, EXT2_ROOT_INO, <<>>)
  <2>1. /\ Image[dev].magic /\ dentry' = Append(dentry, Dentry("/", in, None))
        /\ (vfs_root' = Len(dentry') \/ vfs_root' = vfs_root)
        /\ UNCHANGED <<file, fd_table, pipe>>
    BY <1>1 DEF vfs_mount_ext2, mount_at
  <2>2. in = Inode("ext2", dev, EXT2_ROOT_INO, <<>>)
    OBVIOUS
  <2> HIDE DEF in
  <2>3. CacheInv
    BY DEF VfsInv
  <2> DEFINE r == dentry'
             root == vfs_root'
  <2>4. r = Append(dentry, Dentry("/", in, None)) /\ (root = Len(r) \/ root = vfs_root)
    BY <2>1
  <2> HIDE DEF r, root
  <2>5. CacheOK(r, root)
    BY <2>1, <2>2, <2>3, <2>4, MountExt2
  <2> QED BY <2>1, <2>5 DEF r, root, VfsInv, CacheOK, CacheInv, FileInv
<1>2. ASSUME NEW path \in MountPath, vfs_mount_procfs(path) PROVE VfsInv'
  <2>1. /\ dentry' = [dentry EXCEPT ![1] = procfs_root]
        /\ (vfs_root' = 1 \/ vfs_root' = vfs_root)
        /\ UNCHANGED <<file, fd_table, pipe>>
    BY <1>2 DEF vfs_mount_procfs, mount_at
  <2>2. CacheOK(dentry', vfs_root')
    BY <2>1, MountProcfs DEF VfsInv
  <2> QED BY <2>1, <2>2 DEF VfsInv, CacheOK, CacheInv, FileInv
<1>3. ASSUME NEW path \in Path, vfs_stat(path) PROVE VfsInv'
  <2>1. dentry' = lookup_path(path).tree /\ UNCHANGED <<vfs_root, file, fd_table, pipe>>
    BY <1>3 DEF vfs_stat
  <2>2. /\ TreeOK(lookup_path(path).tree) /\ vfs_root \in 0 .. Len(lookup_path(path).tree)
        /\ RootOK(lookup_path(path).tree, vfs_root)
    BY LookupKeeps DEF VfsInv
  <2> QED BY <2>1, <2>2 DEF VfsInv, CacheInv, FileInv
<1>4. ASSUME NEW t \in Task, NEW fd \in Fd, NEW len \in Lens, vfs_read(t, fd, len) PROVE VfsInv'
  <2> DEFINE f == fd_table[t][fd]
             v == (file[f].offset + Len(bytes_read(file[f], len))) % U64
  <2>1. /\ f # None /\ UNCHANGED <<vfs_root, dentry, fd_table, pipe>>
        /\ file' = [file EXCEPT ![f].offset = (@ + Len(bytes_read(file[f], len))) % U64]
    BY <1>4 DEF vfs_read
  <2>2. file' = [file EXCEPT ![f].offset = v]
    BY <2>1
  <2> HIDE DEF v
  <2> QED BY <2>1, <2>2, MoveStep
<1>5. ASSUME NEW t \in Task, NEW fd \in Fd, NEW offset \in Seeks,
             NEW whence \in {"SEEK_SET", "SEEK_CUR", "SEEK_END"}, vfs_seek(t, fd, offset, whence)
      PROVE  VfsInv'
  <2>1. PICK v : /\ fd_table[t][fd] # None /\ UNCHANGED <<vfs_root, dentry, fd_table, pipe>>
                 /\ file' = [file EXCEPT ![fd_table[t][fd]].offset = v]
    BY <1>5 DEF vfs_seek
  <2> QED BY <2>1, MoveStep
<1>6. CASE tick
  BY <1>6 DEF tick, VfsInv, CacheInv, FileInv
<1>7. CASE UNCHANGED vars
  BY <1>7 DEF vars, VfsInv, CacheInv, FileInv
<1> QED BY <1>1, <1>2, <1>3, <1>4, <1>5, <1>6, <1>7, OpenStep, CloseStep, PipeStep DEF Next

\* The invariant is an invariant of the specification.
LEMMA VfsInvHolds == Spec => []VfsInv
BY VfsInvInit, VfsInvStep, PTL DEF Spec

----------------------------------------------------------------------------
(* Theorems *)

(***************************************************************************)
(* After any sequence of vfs_open, vfs_close and pipe_create, by any       *)
(* tasks, on descriptors and files that may run out, an open descriptor    *)
(* leads to an allocated struct file of its own.                           *)
(***************************************************************************)
THEOREM DescriptorsSoundHolds == Spec => []DescriptorsSound
<1>1. VfsInv => DescriptorsSound
  BY DEF VfsInv, FileInv, Tables, DescriptorsSound
<1> QED BY <1>1, VfsInvHolds, PTL

(***************************************************************************)
(* read_closed and write_closed of a pipe are set by pipe_close exactly    *)
(* when the struct file of that end is freed.                              *)
(***************************************************************************)
THEOREM EndsFollowFilesHolds == Spec => []EndsFollowFiles
<1>1. VfsInv => EndsFollowFiles
  <2> SUFFICES ASSUME VfsInv, NEW p \in DOMAIN pipe, NEW e \in End
               PROVE  pipe[p][e] <=> \A f \in File : ~(/\ file[f].inode.fs = "pipe"
                                                       /\ file[f].inode.ino = p /\ file[f].ops = e)
    BY DEF EndsFollowFiles, End
  <2>1. PipesOK(pipe, file)
    BY DEF VfsInv, FileInv
  <2>2. p \in 1 .. Len(pipe)
    BY <2>1, SeqFacts DEF PipesOK
  <2> QED BY <2>1, <2>2 DEF PipesOK, IsEnd
<1> QED BY <1>1, VfsInvHolds, PTL

\* ext2_lookup reads every directory of a disk as it is, for the names in Path.
DiskDecodes ==
  \A dev \in Device : Image[dev].magic =>
    \A ino \in Inodes(dev), path \in Path : \A k \in 1 .. Len(path) :
      path[k] # "" => ext2_lookup(Image[dev], ext2_get_inode(Image[dev], ino), path[k])
                        = Listed(dev, ino, path[k])

\* A walk is at an inode of a disk, or nowhere.
At(x, dev, ino) ==
  IF ino = 0 THEN x.cur = 0
  ELSE ino \in Inodes(dev) /\ x.cur # 0 /\ x.tree[x.cur].inode = Inode("ext2", dev, ino, <<>>)

\* One component of a path, in the cache or not, leads where the disk says.
LEMMA AtStep ==
  ASSUME DiskDecodes, TreeOK(dentry), NEW dev \in Device, Image[dev].magic,
         NEW path \in Path, NEW k \in 1 .. Len(path), NEW name, name = path[k],
         NEW x, Resolved(x), NEW ino, At(x, dev, ino), NEW r, r = Walk(x, name)
  PROVE  At(r, dev, RefNext(dev, ino, name))
<1>1. Walked(x.tree, x.cur, name, r)
  BY ResolvedStep
<1>2. CASE ino = 0
  <2>1. x.cur = 0 /\ r.cur = 0 /\ RefNext(dev, ino, name) = 0
    BY <1>1, <1>2 DEF At, Walked, RefNext
  <2> QED BY <2>1 DEF At
<1> DEFINE in == Inode("ext2", dev, ino, <<>>)
           j == ext2_lookup(Image[dev], ext2_get_inode(Image[dev], ino), name)
           c == x.cur
           s == x.tree
<1>3. ASSUME ino # 0 PROVE ino \in Inodes(dev) /\ c # 0 /\ s[c].inode = in
  BY <1>3 DEF At
<1>4. in.fs = "ext2" /\ in.dev = dev /\ in.ino = ino
  BY DEF Inode
<1> HIDE DEF in
<1>5. CASE ino # 0 /\ name # ""
  <2>1. j = Listed(dev, ino, name) /\ RefNext(dev, ino, name) = j
    BY <1>3, <1>5 DEF DiskDecodes, RefNext
  <2>2. Found(in, name) = IF j = 0 THEN NoInode ELSE Inode("ext2", dev, j, <<>>)
    BY <1>4 DEF Found
  <2>3. j # 0 => j \in Inodes(dev)
    BY <2>1 DEF Listed, Inodes
  <2> HIDE DEF j
  <2>4. j # 0 => Inode("ext2", dev, j, <<>>) # NoInode
    BY DEF Inode, NoInode
  <2>5. IF Found(in, name) = NoInode THEN r.cur = 0
        ELSE r.cur # 0 /\ r.tree[r.cur].inode = Found(in, name)
    BY <1>1, <1>3, <1>4, <1>5 DEF Walked
  <2>6. CASE j = 0
    BY <2>1, <2>2, <2>5, <2>6 DEF At
  <2>7. CASE j # 0
    BY <2>1, <2>2, <2>3, <2>4, <2>5, <2>7 DEF At
  <2> QED BY <2>6, <2>7
<1>6. CASE ino # 0 /\ name = ""
  <2>1. r.cur = c /\ RefNext(dev, ino, name) = ino
    BY <1>1, <1>6 DEF Walked, RefNext
  <2>2. c \in 1 .. Len(s) /\ Extends(s, r.tree)
    <3>1. TreeOK(s) /\ c \in 0 .. Len(s)
      BY DEF Resolved
    <3>2. Len(s) \in Nat
      BY <3>1, SeqFacts DEF TreeOK
    <3>3. c # 0
      BY <1>3, <1>6
    <3>4. Extends(s, r.tree)
      BY <1>1 DEF Walked
    <3> HIDE DEF c, s
    <3> QED BY <3>1, <3>2, <3>3, <3>4
  <2>3. r.tree[r.cur].inode = in
    BY <1>3, <1>6, <2>1, <2>2 DEF Extends
  <2> QED BY <1>3, <1>6, <2>1, <2>3 DEF At, in
<1> QED BY <1>2, <1>5, <1>6

\* Then lookup_path finds what the disk holds, in every state of the cache.
LEMMA PathsFromLookups ==
  ASSUME DiskDecodes PROVE Spec => []PathsResolve
<1>1. VfsInv => PathsResolve
  <2> SUFFICES ASSUME CacheInv, vfs_root # None, dentry[vfs_root].inode.fs = "ext2",
                      NEW path \in Path
               PROVE  LET r == lookup_path(path)
                          found == IF r.cur = None THEN 0 ELSE r.tree[r.cur].inode.ino
                      IN  found = Reference(dentry[vfs_root].inode.dev, path)
    BY DEF PathsResolve, VfsInv
  <2>1. PICK dev \in Device : /\ Image[dev].magic
                              /\ dentry[vfs_root].inode = Inode("ext2", dev, EXT2_ROOT_INO, <<>>)
    BY DEF CacheInv, RootOK
  <2>2. dentry[vfs_root].inode.dev = dev /\ TreeOK(dentry) /\ vfs_root \in 0 .. Len(dentry)
    BY <2>1 DEF Inode, CacheInv
  <2>3. Len(path) \in Nat
    BY VfsAssumption
  <2>4. PICK g : /\ lookup_path(path) = g[Len(path)]
                 /\ g[0] = [tree |-> dentry, cur |-> vfs_root]
                 /\ \A k \in 1 .. Len(path) : g[k] = Walk(g[k - 1], path[k])
    BY <2>3, PathEquation
  <2>5. PICK h : /\ Reference(dev, path) = h[Len(path)]
                 /\ h[0] = EXT2_ROOT_INO
                 /\ \A k \in 1 .. Len(path) : h[k] = RefNext(dev, h[k - 1], path[k])
    BY <2>3, ReferenceEquation
  <2> DEFINE S == {m \in Nat : m <= Len(path) => Resolved(g[m]) /\ At(g[m], dev, h[m])}
  <2>6. 0 \in S
    <3>1. g[0].tree = dentry /\ g[0].cur = vfs_root /\ g[0] = [tree |-> g[0].tree, cur |-> g[0].cur]
      BY <2>4
    <3>2. Extends(dentry, dentry)
      BY <2>2, SeqFacts DEF TreeOK, Extends
    <3>3. Resolved(g[0])
      BY <2>2, <3>1, <3>2 DEF Resolved
    <3>4. At(g[0], dev, h[0])
      BY <2>1, <2>5, <3>1 DEF At, Inodes, EXT2_ROOT_INO, None
    <3> QED BY <3>3, <3>4
  <2>7. ASSUME NEW m \in S PROVE m + 1 \in S
    <3> SUFFICES ASSUME m + 1 <= Len(path)
                 PROVE  Resolved(g[m + 1]) /\ At(g[m + 1], dev, h[m + 1])
      OBVIOUS
    <3>1. /\ m \in Nat /\ Resolved(g[m]) /\ At(g[m], dev, h[m])
          /\ m + 1 \in 1 .. Len(path) /\ (m + 1) - 1 = m
      BY <2>3
    <3>2. g[m + 1] = Walk(g[m], path[m + 1]) /\ h[m + 1] = RefNext(dev, h[m], path[m + 1])
      BY <2>4, <2>5, <3>1
    <3>3. Resolved(g[m + 1])
      BY <2>2, <3>1, <3>2, ResolvedStep
    <3>4. At(g[m + 1], dev, h[m + 1])
      BY <2>1, <2>2, <3>1, <3>2, AtStep
    <3> QED BY <3>3, <3>4
  <2>8. S = Nat
    <3> HIDE DEF S
    <3>1. S \in SUBSET Nat
      BY DEF S
    <3> QED BY <2>6, <2>7, <3>1, NatSet
  <2> DEFINE r == lookup_path(path)
  <2>9. At(r, dev, Reference(dev, path))
    BY <2>3, <2>4, <2>5, <2>8
  <2> HIDE DEF r
  <2>10. (IF r.cur = None THEN 0 ELSE r.tree[r.cur].inode.ino) = Reference(dev, path)
    BY <2>9 DEF At, Inode, None
  <2> QED BY <2>2, <2>10 DEF r
<1> QED BY <1>1, VfsInvHolds, PTL

----------------------------------------------------------------------------
(* Reading a file *)

\* How far one can go from off, at most m steps, within a set of positions.
Span(P, off, m) == Max({k \in 0 .. m : \A j \in 1 .. k : off + j - 1 \in P})
IsSpan(P, off, m, n) ==
  /\ n \in 0 .. m /\ \A j \in 1 .. n : off + j - 1 \in P
  /\ n = m \/ off + n \notin P

\* That is where the first position outside the set is.
LEMMA SpanIs ==
  ASSUME NEW P, NEW off \in Nat, NEW m \in Nat, NEW n, IsSpan(P, off, m, n)
  PROVE  Span(P, off, m) = n
<1> DEFINE S == {k \in 0 .. m : \A j \in 1 .. k : off + j - 1 \in P}
<1>1. n \in S
  BY DEF IsSpan
<1>2. ASSUME NEW k \in S, k > n PROVE FALSE
  <2>1. n + 1 \in 1 .. k /\ off + (n + 1) - 1 = off + n /\ n # m
    BY <1>2 DEF IsSpan
  <2>2. off + n \in P
    BY <2>1
  <2> QED BY <2>1, <2>2 DEF IsSpan
<1>3. \A k \in S : k \in Int /\ n >= k
  <2> TAKE k \in S
  <2>1. k \in Int /\ n \in Int
    BY <1>1
  <2> QED BY <1>2, <2>1
<1> HIDE DEF S
<1>4. \A x \in S : (\A y \in S : x >= y) => x = n
  BY <1>1, <1>3
<1>5. Max(S) = n
  BY <1>1, <1>3, <1>4 DEF Max
<1> QED BY <1>5 DEF S, Span

\* There is such a place.
LEMMA SpanExists ==
  ASSUME NEW P, NEW off \in Nat, NEW m \in Nat
  PROVE  IsSpan(P, off, m, Span(P, off, m))
<1> DEFINE T == {k \in 0 .. m : k = m \/ off + k \notin P}
           n == Min(T)
<1>1. m \in T /\ T \in SUBSET Nat
  OBVIOUS
<1>2. n \in T /\ \A k \in T : n <= k
  <2> HIDE DEF T
  <2> QED BY <1>1, MinInSet
<1> HIDE DEF n
<1>3. ASSUME NEW j \in 1 .. n PROVE off + j - 1 \in P
  <2>1. n \in 0 .. m
    BY <1>2
  <2>2. j - 1 \in 0 .. m /\ j - 1 # m /\ ~(n <= j - 1) /\ off + (j - 1) = off + j - 1
    BY <2>1
  <2>3. j - 1 \notin T
    BY <1>2, <2>2
  <2> QED BY <2>2, <2>3
<1>4. IsSpan(P, off, m, n)
  BY <1>2, <1>3 DEF IsSpan
<1> QED BY <1>4, SpanIs

\* Steps that stay in the set are followed by the rest of the way.
LEMMA SpanSplit ==
  ASSUME NEW P, NEW off \in Nat, NEW m \in Nat, NEW c \in 0 .. m,
         \A j \in 1 .. c : off + j - 1 \in P
  PROVE  Span(P, off, m) = c + Span(P, off + c, m - c)
<1> DEFINE n == Span(P, off + c, m - c)
<1>1. IsSpan(P, off + c, m - c, n)
  BY SpanExists
<1> HIDE DEF n
<1>2. n \in 0 .. (m - c) /\ (n = m - c \/ off + c + n \notin P)
      /\ \A j \in 1 .. n : off + c + j - 1 \in P
  BY <1>1 DEF IsSpan
<1>3. ASSUME NEW j \in 1 .. (c + n) PROVE off + j - 1 \in P
  <2>1. CASE j <= c
    BY <1>2, <2>1
  <2>2. CASE j > c
    <3>1. j - c \in 1 .. n /\ off + c + (j - c) - 1 = off + j - 1
      BY <1>2, <2>2
    <3>2. off + c + (j - c) - 1 \in P
      BY <1>2, <3>1
    <3> QED BY <3>1, <3>2
  <2> QED BY <1>2, <2>1, <2>2
<1>4. c + n \in 0 .. m /\ (c + n = m \/ off + (c + n) \notin P)
  <2>1. off + (c + n) = off + c + n
    BY <1>2
  <2> QED BY <1>2, <2>1
<1>5. IsSpan(P, off, m, c + n)
  BY <1>3, <1>4 DEF IsSpan
<1> QED BY <1>5, SpanIs DEF n

\* Positions in one block.
LEMMA SameBlock ==
  ASSUME NEW b \in Nat \ {0}, NEW off \in Nat, NEW i \in Nat, (off % b) + i < b
  PROVE  (off + i) \div b = off \div b /\ (off + i) % b = (off % b) + i
<1> DEFINE q == off \div b
           r == off % b
<1>1. q \in Nat /\ r \in 0 .. (b - 1) /\ off = b * q + r
  OBVIOUS
<1> DEFINE p == (off + i) \div b
           s == (off + i) % b
<1>2. p \in Nat /\ s \in 0 .. (b - 1) /\ off + i = b * p + s
  <2>1. off + i \in Nat
    OBVIOUS
  <2> QED BY <2>1
<1>3. r + i < b
  OBVIOUS
<1> HIDE DEF p, s, q, r
<1>4. b * p + s = b * q + (r + i)
  BY <1>1, <1>2
<1>5. p = q
  <2>1. ASSUME p > q PROVE FALSE
    <3>1. p - q >= 1 /\ b * (p - q) >= b
      BY <1>1, <1>2, <2>1
    <3>2. b * (p - q) = b * p - b * q
      BY <1>1, <1>2
    <3> QED BY <1>1, <1>2, <1>3, <1>4, <3>1, <3>2
  <2>2. ASSUME p < q PROVE FALSE
    <3>1. q - p >= 1 /\ b * (q - p) >= b
      BY <1>1, <1>2, <2>2
    <3>2. b * (q - p) = b * q - b * p
      BY <1>1, <1>2
    <3> QED BY <1>1, <1>2, <1>3, <1>4, <3>1, <3>2
  <2> QED BY <1>1, <1>2, <2>1, <2>2
<1>6. s = r + i
  <2>1. b * q \in Int
    BY <1>1
  <2> QED BY <1>1, <1>2, <1>4, <1>5, <2>1
<1> QED BY <1>5, <1>6 DEF p, q, r, s

\* A function on 1 .. n is a sequence.
LEMMA FcnIsSeq ==
  ASSUME NEW V, NEW n \in Nat, NEW f \in [1 .. n -> V]
  PROVE  f \in Seq(V) /\ Len(f) = n
OBVIOUS

\* Two pieces of a sequence that follow each other.
LEMMA Pieces ==
  ASSUME NEW a \in Nat, NEW b \in Nat, NEW u, u = [i \in 1 .. (a + b) |-> u[i]],
         NEW s, s = [i \in 1 .. a |-> u[i]], NEW t, t = [i \in 1 .. b |-> u[a + i]]
  PROVE  s \o t = u
<1> DEFINE V == {u[i] : i \in 1 .. (a + b)}
<1>1. s \in Seq(V) /\ Len(s) = a
  <2>1. s \in [1 .. a -> V]
    OBVIOUS
  <2> HIDE DEF V
  <2> QED BY <2>1, FcnIsSeq
<1>2. t \in Seq(V) /\ Len(t) = b
  <2>1. ASSUME NEW i \in 1 .. b PROVE u[a + i] \in V
    <3>1. a + i \in 1 .. (a + b)
      OBVIOUS
    <3> QED BY <3>1
  <2>2. t \in [1 .. b -> V]
    <3> HIDE DEF V
    <3> QED BY <2>1, FcnIsSeq
  <2> HIDE DEF V
  <2> QED BY <2>2, FcnIsSeq
<1>3. u \in Seq(V) /\ Len(u) = a + b
  <2>1. u \in [1 .. (a + b) -> V]
    OBVIOUS
  <2> HIDE DEF V
  <2> QED BY <2>1, FcnIsSeq
<1>4. ASSUME NEW i \in 1 .. (a + b) PROVE (s \o t)[i] = u[i]
  <2>1. CASE i <= a
    <3>1. (s \o t)[i] = s[i]
      <4> HIDE DEF V
      <4> QED BY <1>1, <1>2, <2>1
    <3> QED BY <2>1, <3>1
  <2>2. CASE i > a
    <3>1. (s \o t)[i] = t[i - a]
      <4> HIDE DEF V
      <4> QED BY <1>1, <1>2, <2>2
    <3>2. i - a \in 1 .. b /\ a + (i - a) = i
      BY <2>2
    <3>3. t[i - a] = u[a + (i - a)]
      BY <3>2
    <3> QED BY <3>1, <3>2, <3>3
  <2> QED BY <2>1, <2>2
<1> HIDE DEF V
<1>5. s \o t \in Seq(V) /\ Len(s \o t) = a + b
  BY <1>1, <1>2
<1>6. s \o t = u
  <2>1. DOMAIN (s \o t) = 1 .. (a + b) /\ DOMAIN u = 1 .. (a + b)
    BY <1>3, <1>5
  <2> DEFINE w == s \o t
  <2>2. w \in Seq(V) /\ DOMAIN w = DOMAIN u /\ \A i \in DOMAIN u : w[i] = u[i]
    BY <1>4, <1>5, <2>1
  <2> HIDE DEF w
  <2>3. w = [i \in DOMAIN w |-> w[i]] /\ u = [i \in DOMAIN u |-> u[i]]
    BY <1>3, <2>2
  <2>4. w = u
    BY <2>2, <2>3
  <2> QED BY <2>4 DEF w
<1> QED BY <1>6

\* The positions before the end and outside holes.
Readable(disk, in) == {k \in Nat : k < in.i_size /\ block_no(disk, in, k \div block_size) # 0}

Bytes(disk, in, off, m) ==
  [i \in 1 .. Span(Readable(disk, in), off, m) |-> Cell(disk, in, off + i - 1)]

Chunk(disk, in, off, c) ==
  LET block_off == off % block_size
      base      == block_no(disk, in, off \div block_size) * block_size
  IN  [i \in 1 .. c |-> disk.cell[base + block_off + i - 1]]
ToCopy(in, off, m) ==
  Least(Least(block_size - (off % block_size), m), in.i_size - off)
Copied(disk, in, off, m, c) ==
  c \in 1 .. m /\ Bytes(disk, in, off, m) = Chunk(disk, in, off, c) \o Bytes(disk, in, off + c, m - c)

\* One round of the loop copies bytes that follow in the file.
LEMMA ChunkStep ==
  ASSUME NEW disk, NEW in, InodeOK(disk, in), NEW off \in Nat, NEW m \in Nat \ {0},
         off \in Readable(disk, in), NEW c, c = ToCopy(in, off, m)
  PROVE  Copied(disk, in, off, m, c)
<1> DEFINE P == Readable(disk, in)
           bs == block_size
           no == block_no(disk, in, off \div block_size)
<1>1. bs \in Nat \ {0} /\ off % bs \in 0 .. (bs - 1) /\ in.i_size \in Nat /\ off < in.i_size
  BY BlockAssumption DEF InodeOK, Readable
<1>2. c \in 1 .. m /\ c <= bs - (off % bs) /\ c <= in.i_size - off
  <2> DEFINE r == off % bs
             z == in.i_size
  <2>1. r \in 0 .. (bs - 1) /\ z \in Nat /\ off < z /\ c = Least(Least(bs - r, m), z - off)
    BY <1>1 DEF ToCopy
  <2> HIDE DEF r, z, bs
  <2>2. c \in 1 .. m /\ c <= bs - r /\ c <= z - off
    BY <1>1, <2>1 DEF Least
  <2> QED BY <2>2 DEF r, z
<1>3. no \in Nat /\ no # 0
  <2>1. off \in 0 .. (in.i_size - 1)
    BY <1>1
  <2> QED BY <2>1 DEF InodeOK, Readable
<1>4. ASSUME NEW i \in 1 .. c
      PROVE  /\ off + i - 1 \in P
             /\ Cell(disk, in, off + i - 1) = disk.cell[no * bs + (off % bs) + i - 1]
  <2> DEFINE k == off + (i - 1)
  <2>1. i - 1 \in Nat /\ (off % bs) + (i - 1) < bs /\ k = off + i - 1 /\ k \in Nat /\ k < in.i_size
    BY <1>1, <1>2
  <2>2. k \div bs = off \div bs /\ k % bs = (off % bs) + (i - 1)
    BY <1>1, <2>1, SameBlock
  <2>3. block_no(disk, in, k \div bs) = no
    BY <2>2
  <2> DEFINE r == off % bs
  <2>4. no * bs + (r + (i - 1)) = no * bs + r + i - 1
    <3>1. no * bs \in Int /\ r \in Int
      BY <1>1, <1>3
    <3> HIDE DEF no, r
    <3> QED BY <3>1
  <2>5. Cell(disk, in, k) = disk.cell[no * bs + (r + (i - 1))]
    BY <2>2, <2>3 DEF Cell
  <2>6. k \in P
    BY <1>3, <2>1, <2>3 DEF Readable
  <2> QED BY <2>1, <2>4, <2>5, <2>6
<1> DEFINE n == Span(P, off + c, m - c)
<1>5. n \in Nat /\ Span(P, off, m) = c + n
  <2>1. off + c \in Nat /\ m - c \in Nat /\ c \in 0 .. m
    BY <1>2
  <2> HIDE DEF P
  <2>2. n \in 0 .. (m - c)
    BY <2>1, SpanExists DEF IsSpan
  <2>3. \A j \in 1 .. c : off + j - 1 \in P
    BY <1>4
  <2>4. Span(P, off, m) = c + n
    BY <2>1, <2>3, SpanSplit
  <2> QED BY <2>2, <2>4
<1> HIDE DEF n
<1> DEFINE u == Bytes(disk, in, off, m)
           s == Chunk(disk, in, off, c)
           t == Bytes(disk, in, off + c, m - c)
<1>6. u = [i \in 1 .. (c + n) |-> Cell(disk, in, off + i - 1)]
  BY <1>5 DEF Bytes
<1>7. t = [i \in 1 .. n |-> Cell(disk, in, off + c + i - 1)]
  BY DEF Bytes, n
<1>8. s = [i \in 1 .. c |-> disk.cell[no * bs + (off % bs) + i - 1]]
  BY DEF Chunk
<1> HIDE DEF u, s, t, no, bs, P
<1>9. c \in Nat
  BY <1>2
<1>10. u = [i \in 1 .. (c + n) |-> u[i]]
  BY <1>6
<1>11. s = [i \in 1 .. c |-> u[i]]
  <2>1. \A i \in 1 .. c : i \in 1 .. (c + n)
    BY <1>5, <1>9
  <2>2. \A i \in 1 .. c : u[i] = disk.cell[no * bs + (off % bs) + i - 1]
    BY <1>4, <1>6, <2>1
  <2> QED BY <1>8, <2>2
<1>12. t = [i \in 1 .. n |-> u[c + i]]
  <2>1. \A i \in 1 .. n : c + i \in 1 .. (c + n) /\ off + (c + i) - 1 = off + c + i - 1
    BY <1>5, <1>9
  <2>2. \A i \in 1 .. n : u[c + i] = Cell(disk, in, off + c + i - 1)
    BY <1>6, <2>1
  <2> QED BY <1>7, <2>2
<1>13. s \o t = u
  BY <1>5, <1>9, <1>10, <1>11, <1>12, Pieces
<1> QED BY <1>2, <1>13 DEF Copied, u, s, t

\* Where the loop stops there is nothing to read.
LEMMA NoChunk ==
  ASSUME NEW disk, NEW in, NEW off \in Nat, NEW m \in Nat, m = 0 \/ off \notin Readable(disk, in)
  PROVE  Bytes(disk, in, off, m) = <<>>
<1> DEFINE P == Readable(disk, in)
<1>1. IsSpan(P, off, m, 0)
  BY DEF IsSpan
<1> HIDE DEF P
<1>2. Span(P, off, m) = 0
  BY <1>1, SpanIs
<1> QED BY <1>2 DEF Bytes, P

\* The loop of ext2_read_inode_data, as an equation.
ReadLoop(disk, in, offset, len, loop) ==
  loop = [read \in Nat |->
        LET off == offset + read IN
        IF read < len /\ off < in.i_size /\ block_no(disk, in, off \div block_size) # 0
        THEN LET block_off == off % block_size
                 to_copy   == Least(Least(block_size - block_off, len - read),
                                    in.i_size - off)
                 base      == block_no(disk, in, off \div block_size) * block_size
             IN  [i \in 1 .. to_copy |-> disk.cell[base + block_off + i - 1]]
                   \o loop[read + to_copy]
        ELSE <<>>]
Round(disk, in, offset, len, loop, read) ==
  IF read < len /\ offset + read \in Readable(disk, in)
  THEN Chunk(disk, in, offset + read, ToCopy(in, offset + read, len - read))
         \o loop[read + ToCopy(in, offset + read, len - read)]
  ELSE <<>>

\* The same, round by round.
LEMMA LoopRounds ==
  ASSUME NEW disk, NEW in, NEW offset \in Nat, NEW len \in Nat, NEW loop
  PROVE  ReadLoop(disk, in, offset, len, loop)
           <=> loop = [read \in Nat |-> Round(disk, in, offset, len, loop, read)]
<1> DEFINE Body(read) ==
        LET off == offset + read IN
        IF read < len /\ off < in.i_size /\ block_no(disk, in, off \div block_size) # 0
        THEN LET block_off == off % block_size
                 to_copy   == Least(Least(block_size - block_off, len - read),
                                    in.i_size - off)
                 base      == block_no(disk, in, off \div block_size) * block_size
             IN  [i \in 1 .. to_copy |-> disk.cell[base + block_off + i - 1]]
                   \o loop[read + to_copy]
        ELSE <<>>
<1>1. ASSUME NEW read \in Nat PROVE Body(read) = Round(disk, in, offset, len, loop, read)
  <2>1. offset + read \in Nat
    OBVIOUS
  <2>2. offset + read \in Readable(disk, in)
          <=> /\ offset + read < in.i_size
              /\ block_no(disk, in, (offset + read) \div block_size) # 0
    BY <2>1 DEF Readable
  <2> QED BY <2>2 DEF Round, Chunk, ToCopy
<1>2. [read \in Nat |-> Body(read)] = [read \in Nat |-> Round(disk, in, offset, len, loop, read)]
  <2> HIDE DEF Body
  <2> QED BY <1>1
<1>3. ReadLoop(disk, in, offset, len, loop) <=> loop = [read \in Nat |-> Body(read)]
  BY DEF ReadLoop
<1> HIDE DEF Body
<1> QED BY <1>2, <1>3

\* What is left to read after some rounds.
Rest(disk, in, offset, len) ==
  [read \in Nat |-> IF read < len THEN Bytes(disk, in, offset + read, len - read) ELSE <<>>]

\* One round leads from one rest to the next.
LEMMA RestRound ==
  ASSUME NEW disk, NEW in, InodeOK(disk, in), NEW offset \in Nat, NEW len \in Nat,
         NEW h, h = Rest(disk, in, offset, len), NEW read \in Nat
  PROVE  /\ h[read] = Round(disk, in, offset, len, h, read)
         /\ read < len /\ offset + read \in Readable(disk, in) =>
              ToCopy(in, offset + read, len - read) \in 1 .. (len - read)
<1> DEFINE off == offset + read
           m == len - read
           c == ToCopy(in, off, m)
<1>1. off \in Nat
  OBVIOUS
<1>2. h[read] = IF read < len THEN Bytes(disk, in, off, m) ELSE <<>>
  BY DEF Rest
<1>3. CASE read < len /\ off \in Readable(disk, in)
  <2>1. m \in Nat \ {0}
    BY <1>3
  <2> HIDE DEF off, m
  <2>2. Copied(disk, in, off, m, c)
    BY <1>1, <1>3, <2>1, ChunkStep
  <2> HIDE DEF c
  <2>3. c \in 1 .. m /\ Bytes(disk, in, off, m) = Chunk(disk, in, off, c) \o Bytes(disk, in, off + c, m - c)
    BY <2>2 DEF Copied
  <2>4. h[read + c] = Bytes(disk, in, off + c, m - c)
    <3>1. read + c \in Nat /\ off + c = offset + (read + c) /\ m - c = len - (read + c)
          /\ off + c \in Nat /\ m - c \in Nat
      BY <2>1, <2>3 DEF off, m
    <3>2. h[read + c] = IF read + c < len THEN Bytes(disk, in, off + c, m - c) ELSE <<>>
      BY <3>1 DEF Rest
    <3>3. CASE read + c < len
      BY <3>2, <3>3
    <3>4. CASE ~(read + c < len)
      <4>1. m - c = 0
        BY <2>3, <3>1, <3>4
      <4>2. Bytes(disk, in, off + c, m - c) = <<>>
        BY <3>1, <4>1, NoChunk
      <4> QED BY <3>2, <3>4, <4>2
    <3> QED BY <3>3, <3>4
  <2>5. Round(disk, in, offset, len, h, read) = Chunk(disk, in, off, c) \o h[read + c]
    BY <1>3 DEF Round, off, m, c
  <2>6. h[read] = Bytes(disk, in, off, m)
    BY <1>2, <1>3
  <2> QED BY <2>3, <2>4, <2>5, <2>6 DEF off, m, c
<1>4. CASE ~(read < len /\ off \in Readable(disk, in))
  <2>1. Round(disk, in, offset, len, h, read) = <<>>
    BY <1>4 DEF Round
  <2>2. read < len => Bytes(disk, in, off, m) = <<>>
    <3> SUFFICES ASSUME read < len PROVE Bytes(disk, in, off, m) = <<>>
      OBVIOUS
    <3>1. m \in Nat /\ off \notin Readable(disk, in)
      BY <1>4
    <3> HIDE DEF off, m
    <3> QED BY <1>1, <3>1, NoChunk
  <2> QED BY <1>2, <1>4, <2>1, <2>2
<1> QED BY <1>3, <1>4

\* ext2_read_inode_data returns the bytes up to len, the end or a hole.
LEMMA ReadIs ==
  ASSUME NEW disk, NEW in, InodeOK(disk, in), NEW offset \in Nat, NEW len \in Nat
  PROVE  ext2_read_inode_data(disk, in, offset, len) = Bytes(disk, in, offset, len)
<1> DEFINE h == Rest(disk, in, offset, len)
           g == CHOOSE g : ReadLoop(disk, in, offset, len, g)
<1>1. ext2_read_inode_data(disk, in, offset, len) = g[0]
  BY DEF ext2_read_inode_data, ReadLoop
<1>2. ReadLoop(disk, in, offset, len, h)
  <2>1. \A read \in Nat : h[read] = Round(disk, in, offset, len, h, read)
    <3> HIDE DEF h
    <3>1. h = Rest(disk, in, offset, len)
      BY DEF h
    <3> QED BY <3>1, RestRound
  <2>2. h = [read \in Nat |-> h[read]]
    BY DEF Rest
  <2> HIDE DEF h
  <2>3. h = [read \in Nat |-> Round(disk, in, offset, len, h, read)]
    BY <2>1, <2>2
  <2> QED BY <2>3, LoopRounds
<1>3. ReadLoop(disk, in, offset, len, g)
  <2> HIDE DEF h
  <2> QED BY <1>2
<1> HIDE DEF g
<1>4. ASSUME NEW read \in Nat PROVE g[read] = Round(disk, in, offset, len, g, read)
  <2>1. g = [read_1 \in Nat |-> Round(disk, in, offset, len, g, read_1)]
    BY <1>3, LoopRounds
  <2> QED BY <2>1
<1> DEFINE S == {n \in Nat : \A read \in Nat : len - read <= n => g[read] = h[read]}
<1>5. h = Rest(disk, in, offset, len)
  OBVIOUS
<1> HIDE DEF h
<1>6. 0 \in S
  <2> SUFFICES ASSUME NEW read \in Nat, len - read <= 0 PROVE g[read] = h[read]
    OBVIOUS
  <2>1. ~(read < len)
    OBVIOUS
  <2>2. g[read] = Round(disk, in, offset, len, g, read)
        /\ h[read] = Round(disk, in, offset, len, h, read)
    BY <1>4, <1>5, RestRound
  <2> QED BY <2>1, <2>2 DEF Round
<1>7. ASSUME NEW n \in S PROVE n + 1 \in S
  <2> SUFFICES ASSUME NEW read \in Nat, len - read <= n + 1 PROVE g[read] = h[read]
    OBVIOUS
  <2>1. n \in Nat /\ \A k \in Nat : len - k <= n => g[k] = h[k]
    OBVIOUS
  <2> HIDE DEF S
  <2>2. g[read] = Round(disk, in, offset, len, g, read)
        /\ h[read] = Round(disk, in, offset, len, h, read)
    BY <1>4, <1>5, RestRound
  <2> DEFINE c == ToCopy(in, offset + read, len - read)
  <2>3. CASE read < len /\ offset + read \in Readable(disk, in)
    <3>1. c \in 1 .. (len - read)
      BY <1>5, <2>3, RestRound
    <3> HIDE DEF c
    <3>2. read + c \in Nat /\ len - (read + c) <= n
      BY <2>1, <3>1
    <3>3. g[read + c] = h[read + c]
      BY <2>1, <3>2
    <3> QED BY <2>2, <3>3 DEF Round, c
  <2>4. CASE ~(read < len /\ offset + read \in Readable(disk, in))
    BY <2>2, <2>4 DEF Round
  <2> QED BY <2>3, <2>4
<1>8. S = Nat
  <2> HIDE DEF S
  <2>1. S \in SUBSET Nat
    BY DEF S
  <2> QED BY <1>6, <1>7, <2>1, NatSet
<1>9. g[0] = h[0]
  <2>1. len \in S
    <3> HIDE DEF S
    <3> QED BY <1>8
  <2> QED BY <2>1
<1>10. h[0] = Bytes(disk, in, offset, len)
  <2>1. offset + 0 = offset /\ len - 0 = len
    OBVIOUS
  <2>2. h[0] = IF 0 < len THEN Bytes(disk, in, offset, len) ELSE <<>>
    BY <2>1 DEF h, Rest
  <2>3. len = 0 => Bytes(disk, in, offset, len) = <<>>
    BY NoChunk
  <2> QED BY <2>2, <2>3
<1> QED BY <1>1, <1>9, <1>10

\* A part of a sequence; an empty one may begin after the end.
LEMMA Slice ==
  ASSUME NEW V, NEW s \in Seq(V), NEW o \in Nat, NEW n \in Nat, n = 0 \/ o + n \in 1 .. Len(s)
  PROVE  SubSeq(s, o + 1, o + n) = [i \in 1 .. n |-> s[o + i]]
<1>1. CASE n = 0
  <2>1. SubSeq(s, o + 1, o + 0) = <<>> /\ [i \in 1 .. 0 |-> s[o + i]] = <<>>
    OBVIOUS
  <2> QED BY <1>1, <2>1
<1>2. CASE n # 0
  BY <1>2
<1> QED BY <1>1, <1>2

\* The bytes in the blocks are the bytes of the content.
LEMMA BytesAre ==
  ASSUME NEW disk, NEW in, InodeOK(disk, in), NEW content, Holds(disk, in, content),
         NEW offset \in Nat, NEW len \in Nat
  PROVE  Bytes(disk, in, offset, len) = BytesFrom(content, offset, len)
<1> DEFINE P == Readable(disk, in)
           T == {k \in 0 .. len : \A j \in 1 .. k : /\ offset + j <= Len(content)
                                                  /\ content[offset + j] # Hole}
           U == {k \in 0 .. len : \A j \in 1 .. k : offset + j - 1 \in P}
           z == in.i_size
           n == Span(P, offset, len)
<1>1. z \in Nat /\ content = [k \in 1 .. z |-> content[k]]
  BY DEF InodeOK, Holds
<1>2. DOMAIN content = 1 .. z /\ IsSeq(content) /\ Len(content) = z
  <2> DEFINE V == {content[k] : k \in 1 .. z}
  <2>1. content \in [1 .. z -> V]
    BY <1>1
  <2> HIDE DEF V, z
  <2>2. content \in Seq(V) /\ Len(content) = z
    BY <1>1, <2>1, FcnIsSeq
  <2> QED BY <1>1, <2>1, <2>2 DEF IsSeq
<1>3. ASSUME NEW k \in Nat
      PROVE  /\ k \in P <=> (k + 1 <= Len(content) /\ content[k + 1] # Hole)
             /\ k \in P => k + 1 \in 1 .. z /\ content[k + 1] = Cell(disk, in, k)
  <2>1. k + 1 <= Len(content) <=> k < z
    BY <1>1, <1>2
  <2>2. ASSUME k < z
        PROVE  IF block_no(disk, in, k \div block_size) = 0 THEN content[k + 1] = Hole
               ELSE content[k + 1] = Cell(disk, in, k) /\ content[k + 1] # Hole
    <3>1. k \in 0 .. (z - 1)
      BY <1>1, <2>2
    <3> QED BY <3>1 DEF Holds
  <2>3. k < z => k + 1 \in 1 .. z
    BY <1>1
  <2> QED BY <2>1, <2>2, <2>3 DEF Readable
<1>4. U = T
  <2>1. ASSUME NEW j \in Nat \ {0}
        PROVE  offset + j - 1 \in P <=> (offset + j <= Len(content) /\ content[offset + j] # Hole)
    <3>1. offset + j - 1 \in Nat /\ (offset + j - 1) + 1 = offset + j
      OBVIOUS
    <3> HIDE DEF P
    <3> QED BY <1>3, <3>1
  <2> HIDE DEF P
  <2>2. ASSUME NEW k \in 0 .. len
        PROVE  (\A j \in 1 .. k : offset + j - 1 \in P)
                 <=> \A j \in 1 .. k : offset + j <= Len(content) /\ content[offset + j] # Hole
    <3>1. \A j \in 1 .. k : j \in Nat \ {0}
      OBVIOUS
    <3> QED BY <2>1, <3>1
  <2> QED BY <2>2
<1>5. n = Max(U) /\ BytesFrom(content, offset, len) = SubSeq(content, offset + 1, offset + Max(T))
  BY DEF Span, BytesFrom
<1> HIDE DEF P, T, U
<1>6. IsSpan(P, offset, len, n)
  BY SpanExists
<1> HIDE DEF n
<1>7. n \in Nat /\ \A j \in 1 .. n : offset + j - 1 \in P
  BY <1>6 DEF IsSpan
<1> DEFINE b == Bytes(disk, in, offset, len)
           s == SubSeq(content, offset + 1, offset + n)
<1>8. b = [i \in 1 .. n |-> Cell(disk, in, offset + i - 1)]
  BY DEF Bytes, n, P
<1>9. ASSUME NEW i \in 1 .. n
      PROVE  offset + i \in 1 .. z /\ content[offset + i] = Cell(disk, in, offset + i - 1)
  <2>1. offset + i - 1 \in Nat /\ (offset + i - 1) + 1 = offset + i
    BY <1>7
  <2>2. offset + i - 1 \in P
    BY <1>7
  <2> QED BY <1>3, <2>1, <2>2
<1>10. s = [i \in 1 .. n |-> content[offset + i]]
  <2>1. n = 0 \/ offset + n \in 1 .. z
    <3>1. n = 0 \/ n \in 1 .. n
      BY <1>7
    <3> QED BY <1>9, <3>1
  <2>2. PICK V : content \in Seq(V)
    BY <1>2 DEF IsSeq
  <2> QED BY <1>2, <1>7, <2>1, <2>2, Slice
<1> HIDE DEF b, s
<1>11. b = s
  BY <1>8, <1>9, <1>10
<1> QED BY <1>4, <1>5, <1>11 DEF b, s

----------------------------------------------------------------------------
(* Looking up a name *)

\* A search that goes on from p at a later place until it stops.
Search(D, stop, val, next, f) == f = [p \in D |-> IF stop[p] THEN val[p] ELSE f[next[p]]]

\* Such a function exists when beyond some place every search has stopped.
LEMMA SearchExists ==
  ASSUME NEW L \in Nat, NEW D \in SUBSET Nat, NEW stop, NEW val, NEW next,
         \A p \in D : p > L => stop[p],
         \A p \in D : ~stop[p] => next[p] \in D /\ next[p] > p
  PROVE  \E f : Search(D, stop, val, next, f)
<1> DEFINE Body(f, p) == IF stop[p] THEN val[p] ELSE f[next[p]]
           Right(f, n) == /\ f = [p \in D |-> f[p]]
                          /\ \A p \in D : p + n > L => f[p] = Body(f, p)
           S == {n \in Nat : \E f : Right(f, n)}
<1>1. 0 \in S
  <2> DEFINE f == [p \in D |-> val[p]]
  <2>1. Right(f, 0)
    OBVIOUS
  <2> QED BY <2>1
<1>2. ASSUME NEW n \in S PROVE n + 1 \in S
  <2>1. PICK f : Right(f, n)
    OBVIOUS
  <2> DEFINE g == [p \in D |-> IF p + n = L THEN Body(f, p) ELSE f[p]]
  <2>2. ASSUME NEW p \in D, p + (n + 1) > L PROVE g[p] = Body(g, p)
    <3>1. CASE stop[p]
      BY <2>1, <2>2, <3>1
    <3>2. CASE ~stop[p]
      <4> DEFINE q == next[p]
      <4>1. q \in D /\ q > p
        BY <3>2
      <4> HIDE DEF q
      <4>2. q + n # L
        BY <2>2, <4>1
      <4>3. g[q] = f[q]
        BY <4>1, <4>2
      <4>4. g[p] = f[q]
        <5>1. CASE p + n = L
          BY <3>2, <5>1 DEF q
        <5>2. CASE p + n # L
          <6>1. p + n > L
            BY <2>2, <5>2
          <6> QED BY <2>1, <3>2, <5>2, <6>1 DEF q
        <5> QED BY <5>1, <5>2
      <4> QED BY <3>2, <4>3, <4>4 DEF q
    <3> QED BY <3>1, <3>2
  <2>3. g = [p \in D |-> g[p]]
    OBVIOUS
  <2> HIDE DEF g, Body
  <2>4. Right(g, n + 1)
    BY <2>2, <2>3
  <2>5. n + 1 \in Nat
    OBVIOUS
  <2> HIDE DEF Right
  <2> QED BY <2>4, <2>5
<1>3. S = Nat
  <2> HIDE DEF S
  <2>1. S \in SUBSET Nat
    BY DEF S
  <2> QED BY <1>1, <1>2, <2>1, NatSet
<1>4. L + 1 \in S
  <2> HIDE DEF S
  <2> QED BY <1>3
<1>5. PICK f : Right(f, L + 1)
  BY <1>4
<1>6. \A p \in D : f[p] = Body(f, p)
  <2>1. \A p \in D : p + (L + 1) > L
    OBVIOUS
  <2> QED BY <1>5, <2>1
<1>7. f = [p \in D |-> Body(f, p)]
  <2> HIDE DEF Body
  <2> QED BY <1>5, <1>6
<1> QED BY <1>7 DEF Search

\* The search through a block.
ScanRule(chunk, name, at) ==
  at = [p \in Nat \ {0} |->
        IF p > Len(chunk) THEN 0
        ELSE IF chunk[p].rec_len = 0 THEN 0
        ELSE IF chunk[p].inode # 0 /\ chunk[p].name = name THEN chunk[p].inode
        ELSE at[p + chunk[p].rec_len]]

\* Its equation, when rec_len is a number in every cell of the block.
LEMMA ScanEquation ==
  ASSUME NEW chunk, Len(chunk) \in Nat, NEW name,
         \A p \in 1 .. Len(chunk) : chunk[p].rec_len \in Nat
  PROVE  \E at : scan(chunk, name) = at[1] /\ ScanRule(chunk, name, at)
<1> DEFINE D == Nat \ {0}
           end(p) == p > Len(chunk) \/ chunk[p].rec_len = 0
           hit(p) == chunk[p].inode # 0 /\ chunk[p].name = name
           stop == [p \in D |-> end(p) \/ hit(p)]
           val == [p \in D |-> IF end(p) THEN 0 ELSE chunk[p].inode]
           next == [p \in D |-> p + chunk[p].rec_len]
<1>1. D \in SUBSET Nat /\ \A p \in D : p > Len(chunk) => stop[p]
  OBVIOUS
<1>2. ASSUME NEW p \in D, ~stop[p] PROVE next[p] \in D /\ next[p] > p
  <2>0. ~(p > Len(chunk)) /\ chunk[p].rec_len # 0
    BY <1>2
  <2>1. p \in 1 .. Len(chunk) /\ chunk[p].rec_len # 0
    BY <2>0
  <2>2. chunk[p].rec_len \in Nat
    BY <2>1
  <2> QED BY <2>1, <2>2
<1>3. ASSUME NEW at PROVE Search(D, stop, val, next, at) <=> ScanRule(chunk, name, at)
  <2> DEFINE A(p) == IF stop[p] THEN val[p] ELSE at[next[p]]
             B(p) == IF p > Len(chunk) THEN 0
                     ELSE IF chunk[p].rec_len = 0 THEN 0
                     ELSE IF chunk[p].inode # 0 /\ chunk[p].name = name THEN chunk[p].inode
                     ELSE at[p + chunk[p].rec_len]
  <2>1. \A p \in D : A(p) = B(p)
    OBVIOUS
  <2>2. /\ Search(D, stop, val, next, at) <=> at = [p \in D |-> A(p)]
        /\ ScanRule(chunk, name, at) <=> at = [p \in D |-> B(p)]
    BY DEF Search, ScanRule
  <2> HIDE DEF A, B, D, stop, val, next
  <2> QED BY <2>1, <2>2
<1> HIDE DEF stop, val, next, D
<1>4. \E at : Search(D, stop, val, next, at)
  BY <1>1, <1>2, SearchExists
<1> DEFINE r == CHOOSE at : ScanRule(chunk, name, at)
<1>5. ScanRule(chunk, name, r)
  BY <1>3, <1>4
<1>6. scan(chunk, name) = r[1]
  BY DEF scan, ScanRule
<1> HIDE DEF r
<1> QED BY <1>5, <1>6

\* The greatest of a set of numbers with a bound.
LEMMA MaxInSet ==
  ASSUME NEW n \in Nat, NEW T \in SUBSET (0 .. n), T # {}
  PROVE  \E m \in T : \A k \in T : k <= m
<1> DEFINE U == {x \in 0 .. n : n - x \in T}
           m == Min(U)
<1>1. ASSUME NEW k \in T PROVE n - k \in U
  <2>1. k \in 0 .. n
    OBVIOUS
  <2>2. n - k \in 0 .. n /\ n - (n - k) = k
    BY <2>1
  <2> QED BY <2>2
<1>2. U \in SUBSET Nat /\ U # {}
  <2>1. PICK k : k \in T
    OBVIOUS
  <2>2. n - k \in U
    BY <1>1, <2>1
  <2> QED BY <2>2
<1>3. m \in U /\ \A k \in U : m <= k
  BY <1>2, MinInSet
<1> HIDE DEF m
<1>4. m \in 0 .. n /\ n - m \in T
  BY <1>3
<1>5. ASSUME NEW k \in T PROVE k <= n - m
  <2>1. k \in 0 .. n /\ m <= n - k
    BY <1>1, <1>3
  <2> QED BY <1>4, <2>1
<1> QED BY <1>4, <1>5

\* Where blocks begin.
LEMMA BlockStarts ==
  ASSUME NEW b \in Nat \ {0}, NEW x \in Nat, x % b = 0
  PROVE  /\ (x + b) % b = 0
         /\ \A i \in 1 .. (b - 1) : (x + i) % b # 0
         /\ \A y \in Nat : y % b = 0 /\ x < y => x + b <= y
<1>1. \A i \in 1 .. (b - 1) : (x + i) % b # 0
  <2> TAKE i \in 1 .. (b - 1)
  <2>1. i \in Nat /\ (x % b) + i < b
    OBVIOUS
  <2>2. (x + i) % b = (x % b) + i
    BY <2>1, SameBlock
  <2> QED BY <2>1, <2>2
<1>2. ASSUME NEW y \in Nat, y % b = 0, x < y PROVE x + b <= y
  <2>1. CASE y - x < b
    <3>1. y - x \in 1 .. (b - 1) /\ x + (y - x) = y
      BY <1>2, <2>1
    <3>2. (x + (y - x)) % b # 0
      BY <1>1, <3>1
    <3> QED BY <1>2, <3>1, <3>2
  <2> QED BY <1>2, <2>1
<1>3. (x + b) % b = 0
  <2> DEFINE r == (x + b) % b
             q == (x + b) \div b
             p == x \div b
  <2>1. r \in 0 .. (b - 1) /\ q \in Int /\ x + b = b * q + r
    <3>1. x + b \in Nat
      OBVIOUS
    <3> QED BY <3>1
  <2>2. p \in Int /\ x = b * p
    OBVIOUS
  <2> HIDE DEF r, q, p
  <2>3. b * (q - (p + 1)) + r = 0
    <3>1. b * (q - (p + 1)) = b * q - b * p - b
      BY <2>1, <2>2
    <3>2. b * q \in Int /\ b * p \in Int
      BY <2>1, <2>2
    <3> QED BY <2>1, <2>2, <3>1, <3>2
  <2> DEFINE d == q - (p + 1)
  <2>4. d \in Int /\ b * d + r = 0
    BY <2>1, <2>2, <2>3
  <2> HIDE DEF d
  <2>5. ~(d >= 1)
    <3>1. d >= 1 => b * d >= b
      BY <2>4
    <3> QED BY <2>1, <2>4, <3>1
  <2>6. ~(d <= -1)
    <3>1. d <= -1 => b * d <= -b
      BY <2>4
    <3> QED BY <2>1, <2>4, <3>1
  <2>7. r = 0
    BY <2>1, <2>4, <2>5, <2>6
  <2> QED BY <2>7 DEF r
<1> QED BY <1>1, <1>2, <1>3

\* A directory and the records in it.
Records(disk, in, R) ==
  /\ InodeOK(disk, in) /\ in.i_size % block_size = 0
  /\ \A k \in 0 .. (in.i_size - 1) :
       block_no(disk, in, k \div block_size) # 0 /\ Cell(disk, in, k).rec_len \in Nat
  /\ R \subseteq 0 .. (in.i_size - 1) /\ Tiled(disk, in, R)

\* ext2_lookup reads one block after the other.
LEMMA BlockRead ==
  ASSUME NEW disk, NEW in, NEW R, Records(disk, in, R), NEW off \in Nat, off % block_size = 0,
         off < in.i_size
  PROVE  /\ off + block_size <= in.i_size
         /\ ext2_read_inode_data(disk, in, off, block_size)
              = [i \in 1 .. block_size |-> Cell(disk, in, off + i - 1)]
<1> DEFINE b == block_size
           z == in.i_size
           P == Readable(disk, in)
<1>1. b \in Nat \ {0} /\ z \in Nat /\ z % b = 0 /\ InodeOK(disk, in)
  BY BlockAssumption DEF Records, InodeOK
<1>2. off + b <= z
  <2> HIDE DEF b, z
  <2>1. off % b = 0 /\ off < z
    BY DEF b, z
  <2> QED BY <1>1, <2>1, BlockStarts
<1>3. ASSUME NEW j \in 1 .. b PROVE off + j - 1 \in P
  <2>1. off + j - 1 \in 0 .. (z - 1)
    BY <1>1, <1>2
  <2>2. block_no(disk, in, (off + j - 1) \div block_size) # 0
    BY <2>1 DEF Records
  <2> QED BY <1>1, <2>1, <2>2 DEF Readable
<1>4. Span(P, off, b) = b
  <2> HIDE DEF P
  <2>1. IsSpan(P, off, b, b)
    BY <1>1, <1>3 DEF IsSpan
  <2> QED BY <1>1, <2>1, SpanIs
<1>5. ext2_read_inode_data(disk, in, off, b) = Bytes(disk, in, off, b)
  BY <1>1, ReadIs
<1>6. Bytes(disk, in, off, b) = [i \in 1 .. b |-> Cell(disk, in, off + i - 1)]
  BY <1>4 DEF Bytes
<1> QED BY <1>2, <1>5, <1>6

\* The records with a name, and that they lead to one inode.
Hit(disk, in, name, k) == Cell(disk, in, k).inode # 0 /\ Cell(disk, in, k).name = name

HitsAre(disk, in, R, name, v) ==
  \A k \in R : Hit(disk, in, name, k) => Cell(disk, in, k).inode = v

\* Whether a record between two places has the name.
Among(disk, in, R, name, a, z) == \E k \in R : a <= k /\ k < z /\ Hit(disk, in, name, k)

\* The search through a block finds the record with the name, and only a record.
LEMMA ScanFinds ==
  ASSUME NEW disk, NEW in, NEW R, Records(disk, in, R), NEW off \in Nat, off % block_size = 0,
         off < in.i_size, NEW name, NEW v,
         HitsAre(disk, in, R, name, v),
         NEW chunk, chunk = [i \in 1 .. block_size |-> Cell(disk, in, off + i - 1)]
  PROVE  scan(chunk, name) = IF Among(disk, in, R, name, off, off + block_size) THEN v ELSE 0
<1> DEFINE b == block_size
           c(k) == Cell(disk, in, k)
           Has(a) == Among(disk, in, R, name, a, off + b)
           Want(p) == IF Has(off + p - 1) THEN v ELSE 0
<1>1. /\ b \in Nat \ {0} /\ in.i_size \in Nat /\ off + b <= in.i_size
      /\ \A k \in R : k \in 0 .. (in.i_size - 1)
      /\ \A k \in 0 .. (in.i_size - 1) : c(k).rec_len \in Nat
  <2>1. off + b <= in.i_size
    BY BlockRead
  <2> QED BY <2>1, BlockAssumption DEF Records, InodeOK
<1>2. /\ off \in R
      /\ \A k \in R : LET n == k + c(k).rec_len
                      IN  /\ n > k /\ (n % b = 0 \/ n \in R)
                          /\ \A j \in (k + 1) .. (n - 1) : j \notin R
  <2>1. off \in 0 .. (in.i_size - 1)
    BY <1>1
  <2> QED BY <2>1 DEF Records, Tiled
<1>3. \A i \in 1 .. (b - 1) : (off + i) % b # 0
  BY <1>1, BlockStarts
<1>4. Len(chunk) = b /\ \A p \in 1 .. b : chunk[p] = c(off + p - 1) /\ off + p - 1 \in 0 .. (in.i_size - 1)
  <2>1. Len(chunk) = b
    <3> DEFINE V == {chunk[i] : i \in 1 .. b}
    <3>1. chunk \in [1 .. b -> V]
      OBVIOUS
    <3> HIDE DEF V
    <3> QED BY <1>1, <3>1, FcnIsSeq
  <2> QED BY <1>1, <2>1
<1> HIDE DEF c
<1>5. \A p \in 1 .. Len(chunk) : chunk[p].rec_len \in Nat
  BY <1>1, <1>4
<1>6. PICK at : scan(chunk, name) = at[1] /\ ScanRule(chunk, name, at)
  BY <1>1, <1>4, <1>5, ScanEquation
<1>7. ASSUME NEW p \in Nat \ {0}
      PROVE  at[p] = IF p > b THEN 0
                     ELSE IF chunk[p].rec_len = 0 THEN 0
                     ELSE IF chunk[p].inode # 0 /\ chunk[p].name = name THEN chunk[p].inode
                     ELSE at[p + chunk[p].rec_len]
  BY <1>4, <1>6 DEF ScanRule
<1> HIDE DEF b
<1> DEFINE Bad == {p \in 1 .. b : off + p - 1 \in R /\ at[p] # Want(p)}
<1>8. Bad = {}
  <2> SUFFICES ASSUME Bad # {} PROVE FALSE
    OBVIOUS
  <2>1. Bad \in SUBSET (0 .. b)
    BY <1>1
  <2>2. PICK p \in Bad : \A q \in Bad : q <= p
    <3> HIDE DEF Bad
    <3> QED BY <1>1, <2>1, MaxInSet
  <2> DEFINE k == off + p - 1
             l == c(k).rec_len
             n == k + l
  <2>3. p \in 1 .. b /\ k \in R /\ at[p] # Want(p)
    OBVIOUS
  <2>4. l \in Nat /\ n > k /\ (n % b = 0 \/ n \in R) /\ \A j \in (k + 1) .. (n - 1) : j \notin R
    BY <1>1, <1>2, <2>3
  <2>5. chunk[p] = c(k)
    BY <1>4, <2>3
  <2> HIDE DEF l
  <2>6. l # 0
    BY <1>1, <2>3, <2>4
  <2>7. at[p] = IF c(k).inode # 0 /\ c(k).name = name THEN c(k).inode ELSE at[p + l]
    <3>1. p \in Nat \ {0} /\ ~(p > b)
      BY <1>1, <2>3
    <3> QED BY <1>7, <2>5, <2>6, <3>1 DEF l
  <2>8. CASE Hit(disk, in, name, k)
    <3>1. at[p] = v
      BY <2>3, <2>7, <2>8 DEF Hit, HitsAre, c
    <3>2. Has(k)
      <4>1. k <= k /\ k < off + b
        BY <1>1, <2>3
      <4> HIDE DEF k
      <4> QED BY <2>3, <2>8, <4>1 DEF Among
    <3> QED BY <2>3, <3>1, <3>2
  <2>9. CASE ~Hit(disk, in, name, k)
    <3>1. at[p] = at[p + l]
      BY <2>7, <2>9 DEF Hit, c
    <3>2. ASSUME NEW j \in R, k <= j, Hit(disk, in, name, j) PROVE n <= j
      <4>1. j \in Int /\ j # k
        BY <1>1, <2>9, <3>2
      <4>2. j \notin (k + 1) .. (n - 1)
        BY <2>4
      <4> QED BY <1>1, <2>3, <2>4, <3>2, <4>1, <4>2
    <3>3. CASE p + l > b
      <4>1. at[p + l] = 0
        <5>1. p + l \in Nat \ {0}
          BY <2>3, <2>4
        <5> QED BY <1>7, <3>3, <5>1
      <4>2. ~Has(k)
        <5>1. n >= off + b
          BY <1>1, <2>3, <2>4, <3>3
        <5> SUFFICES ASSUME NEW j \in R, k <= j, j < off + b, Hit(disk, in, name, j) PROVE FALSE
          BY DEF Among
        <5>2. n <= j /\ j \in Int
          BY <1>1, <3>2
        <5> QED BY <1>1, <2>4, <5>1, <5>2
      <4> QED BY <2>3, <3>1, <4>1, <4>2
    <3>4. CASE ~(p + l > b)
      <4> DEFINE q == p + l
      <4>1. q \in 1 .. b /\ off + q - 1 = n /\ q > p /\ n - off \in 1 .. (b - 1) /\ off + (n - off) = n
        BY <1>1, <2>3, <2>4, <2>6, <3>4
      <4>2. n \in R
        BY <1>3, <2>4, <4>1
      <4> HIDE DEF q
      <4>3. q \notin Bad
        <5> HIDE DEF Bad
        <5>1. p \in Int /\ q \in Int
          BY <2>3, <4>1
        <5> QED BY <2>2, <4>1, <5>1
      <4>4. at[q] = Want(q)
        BY <4>1, <4>2, <4>3
      <4>5. Has(n) <=> Has(k)
        <5>1. \A j \in R : n <= j => k <= j
          BY <1>1, <2>3, <2>4
        <5>2. \A j \in R : k <= j /\ Hit(disk, in, name, j) => n <= j
          BY <3>2
        <5> HIDE DEF n, k
        <5> QED BY <5>1, <5>2 DEF Among
      <4>6. Want(q) = Want(p)
        BY <4>1, <4>5
      <4> QED BY <2>3, <3>1, <4>4, <4>6 DEF q
    <3> QED BY <3>3, <3>4
  <2> QED BY <2>8, <2>9
<1>9. 1 \in 1 .. b /\ off + 1 - 1 = off
  BY <1>1
<1>10. at[1] = Want(1)
  BY <1>2, <1>8, <1>9
<1>11. at[1] = IF Has(off) THEN v ELSE 0
  BY <1>9, <1>10
<1> QED BY <1>6, <1>11 DEF b

\* The search through the blocks of a directory.
LookupRule(disk, in, name, from) ==
  from = [off \in Nat |->
        LET chunk == ext2_read_inode_data(disk, in, off, block_size)
        IN  IF off >= in.i_size \/ chunk = <<>> THEN 0
            ELSE IF scan(chunk, name) # 0 THEN scan(chunk, name)
            ELSE from[off + Len(chunk)]]

\* Its equation: every block that is read moves it on.
LEMMA LookupEquation ==
  ASSUME NEW disk, NEW in, InodeOK(disk, in), NEW name
  PROVE  \E from : /\ ext2_lookup(disk, in, name) = IF in.dir THEN from[0] ELSE 0
                   /\ LookupRule(disk, in, name, from)
<1> DEFINE chunk(off) == ext2_read_inode_data(disk, in, off, block_size)
           end(off) == off >= in.i_size \/ chunk(off) = <<>>
           found(off) == scan(chunk(off), name)
           stop == [off \in Nat |-> end(off) \/ found(off) # 0]
           val == [off \in Nat |-> IF end(off) THEN 0 ELSE found(off)]
           next == [off \in Nat |-> off + Len(chunk(off))]
<1>1. ASSUME NEW off \in Nat PROVE Len(chunk(off)) \in Nat /\ (chunk(off) # <<>> => Len(chunk(off)) # 0)
  <2> DEFINE m == Span(Readable(disk, in), off, block_size)
             w == chunk(off)
  <2>1. block_size \in Nat
    BY BlockAssumption
  <2>2. w = [i \in 1 .. m |-> Cell(disk, in, off + i - 1)]
    BY <2>1, ReadIs DEF Bytes
  <2>3. m \in Nat
    <3>1. IsSpan(Readable(disk, in), off, block_size, m)
      BY <2>1, SpanExists
    <3> HIDE DEF m
    <3> QED BY <2>1, <3>1 DEF IsSpan
  <2> DEFINE V == {Cell(disk, in, off + i - 1) : i \in 1 .. m}
  <2>4. w \in [1 .. m -> V]
    <3> HIDE DEF w
    <3> QED BY <2>2
  <2> HIDE DEF V, w, m
  <2>5. w \in Seq(V) /\ Len(w) = m
    BY <2>3, <2>4, FcnIsSeq
  <2>6. w # <<>> => Len(w) # 0
    BY <2>5
  <2> QED BY <2>3, <2>5, <2>6 DEF w
<1>2. in.i_size \in Nat /\ \A off \in Nat : off > in.i_size => stop[off]
  <2>1. in.i_size \in Nat
    BY DEF InodeOK
  <2>2. ASSUME NEW off \in Nat, off > in.i_size PROVE stop[off]
    <3>1. end(off)
      BY <2>1, <2>2
    <3> HIDE DEF end
    <3> QED BY <3>1
  <2> QED BY <2>1, <2>2
<1>3. ASSUME NEW off \in Nat, ~stop[off] PROVE next[off] \in Nat /\ next[off] > off
  <2>1. chunk(off) # <<>>
    BY <1>3
  <2> DEFINE n == Len(chunk(off))
  <2>2. next[off] = off + n
    OBVIOUS
  <2>3. n \in Nat /\ n # 0
    BY <1>1, <2>1
  <2> HIDE DEF next, n
  <2> QED BY <2>2, <2>3
<1>4. ASSUME NEW from PROVE Search(Nat, stop, val, next, from) <=> LookupRule(disk, in, name, from)
  <2> DEFINE A(off) == IF stop[off] THEN val[off] ELSE from[next[off]]
             B(off) == IF end(off) THEN 0 ELSE IF found(off) # 0 THEN found(off)
                       ELSE from[off + Len(chunk(off))]
  <2>1. LookupRule(disk, in, name, from) <=> from = [off \in Nat |-> B(off)]
    BY DEF LookupRule
  <2>2. Search(Nat, stop, val, next, from) <=> from = [off \in Nat |-> A(off)]
    BY DEF Search
  <2> HIDE DEF end, found, chunk
  <2>3. \A off \in Nat : A(off) = B(off)
    OBVIOUS
  <2> HIDE DEF A, B, stop, val, next
  <2> QED BY <2>1, <2>2, <2>3
<1> HIDE DEF stop, val, next
<1>5. Nat \in SUBSET Nat
  OBVIOUS
<1>6. \E from : Search(Nat, stop, val, next, from)
  BY <1>2, <1>3, <1>5, SearchExists
<1> DEFINE r == CHOOSE from : LookupRule(disk, in, name, from)
<1>7. LookupRule(disk, in, name, r)
  BY <1>4, <1>6
<1>8. ext2_lookup(disk, in, name) = IF in.dir THEN r[0] ELSE 0
  BY DEF ext2_lookup, LookupRule
<1> HIDE DEF r
<1> QED BY <1>7, <1>8

\* A name is found when some record of the directory has it.
LEMMA LookupFinds ==
  ASSUME NEW disk, NEW in, NEW R, Records(disk, in, R), in.dir, NEW name, NEW v, v # 0,
         HitsAre(disk, in, R, name, v)
  PROVE  ext2_lookup(disk, in, name) = IF \E k \in R : Hit(disk, in, name, k) THEN v ELSE 0
<1> DEFINE b == block_size
           z == in.i_size
           Has(a) == Among(disk, in, R, name, a, z)
           Want(a) == IF Has(a) THEN v ELSE 0
           chunk(off) == ext2_read_inode_data(disk, in, off, block_size)
<1>1. /\ b \in Nat \ {0} /\ z \in Nat /\ z % b = 0 /\ InodeOK(disk, in)
      /\ \A k \in R : k \in 0 .. (z - 1)
  BY BlockAssumption DEF Records, InodeOK
<1>2. PICK from : ext2_lookup(disk, in, name) = from[0] /\ LookupRule(disk, in, name, from)
  BY <1>1, LookupEquation
<1>3. ASSUME NEW off \in Nat
      PROVE  from[off] = IF off >= z \/ chunk(off) = <<>> THEN 0
                         ELSE IF scan(chunk(off), name) # 0 THEN scan(chunk(off), name)
                         ELSE from[off + Len(chunk(off))]
  BY <1>2 DEF LookupRule
<1>4. ASSUME NEW off \in Nat, off % b = 0, off < z
      PROVE  /\ off + b <= z /\ (off + b) % b = 0
             /\ from[off] = IF Among(disk, in, R, name, off, off + b) THEN v ELSE from[off + b]
  <2> DEFINE w == chunk(off)
  <2>1. off + b <= z /\ w = [i \in 1 .. b |-> Cell(disk, in, off + i - 1)]
    BY <1>4, BlockRead
  <2>2. scan(w, name) = IF Among(disk, in, R, name, off, off + b) THEN v ELSE 0
    <3> HIDE DEF w
    <3> QED BY <1>4, <2>1, ScanFinds
  <2>3. Len(w) = b /\ w # <<>>
    <3> HIDE DEF w
    <3> DEFINE V == {w[i] : i \in 1 .. b}
    <3>1. w \in [1 .. b -> V]
      BY <2>1
    <3> HIDE DEF V
    <3>2. w \in Seq(V) /\ Len(w) = b
      BY <1>1, <3>1, FcnIsSeq
    <3>3. Len(<<>>) = 0
      OBVIOUS
    <3> QED BY <1>1, <3>2, <3>3
  <2>4. (off + b) % b = 0
    BY <1>1, <1>4, BlockStarts
  <2>5. ~(off >= z)
    BY <1>1, <1>4
  <2> HIDE DEF chunk
  <2> QED BY <1>3, <2>1, <2>2, <2>3, <2>4, <2>5
<1> HIDE DEF b, z, chunk
<1> DEFINE Bad == {off \in 0 .. z : off % b = 0 /\ from[off] # Want(off)}
<1>5. Bad = {}
  <2> SUFFICES ASSUME Bad # {} PROVE FALSE
    OBVIOUS
  <2>1. Bad \in SUBSET (0 .. z)
    OBVIOUS
  <2>2. PICK off \in Bad : \A q \in Bad : q <= off
    <3> HIDE DEF Bad
    <3> QED BY <1>1, <2>1, MaxInSet
  <2>3. off \in 0 .. z /\ off \in Nat /\ off % b = 0 /\ from[off] # Want(off)
    BY <1>1
  <2>4. CASE off >= z
    <3>1. from[off] = 0
      BY <1>3, <2>3, <2>4
    <3>2. ~Has(off)
      BY <1>1, <2>3, <2>4 DEF Among
    <3> QED BY <2>3, <3>1, <3>2
  <2>5. CASE ~(off >= z)
    <3> DEFINE n == off + b
    <3>1. /\ n <= z /\ n % b = 0
          /\ from[off] = IF Among(disk, in, R, name, off, n) THEN v ELSE from[n]
      <4>1. off < z
        BY <1>1, <2>3, <2>5
      <4> QED BY <1>4, <2>3, <4>1
    <3>2. n \in 0 .. z /\ n > off
      BY <1>1, <2>3, <3>1
    <3> HIDE DEF n
    <3>3. from[n] = Want(n)
      <4>1. n \notin Bad
        <5> HIDE DEF Bad
        <5> QED BY <1>1, <2>2, <2>3, <3>2
      <4> QED BY <3>1, <3>2, <4>1
    <3>4. Has(off) <=> Among(disk, in, R, name, off, n) \/ Has(n)
      <4>1. ASSUME NEW k \in R
            PROVE  /\ k < z
                   /\ off <= k => k < n \/ n <= k
                   /\ n <= k => off <= k
                   /\ k < n => k < z
        BY <1>1, <2>3, <3>2
      <4> QED BY <4>1 DEF Among
    <3>5. Want(off) = from[off]
      <4> HIDE DEF Has
      <4> QED BY <3>1, <3>3, <3>4
    <3> QED BY <2>3, <3>5
  <2> QED BY <2>4, <2>5
<1>6. 0 \in 0 .. z /\ 0 % b = 0
  BY <1>1
<1>7. from[0] = Want(0)
  BY <1>5, <1>6
<1>8. Has(0) <=> \E k \in R : Hit(disk, in, name, k)
  BY <1>1 DEF Among
<1> HIDE DEF Has
<1> QED BY <1>2, <1>7, <1>8

\* The directories of the disks decode as their listings say.
LEMMA DisksDecode ==
  ASSUME DiskLists PROVE DiskDecodes
<1> SUFFICES ASSUME NEW dev \in Device, Image[dev].magic, NEW ino \in Inodes(dev), NEW name
             PROVE  ext2_lookup(Image[dev], ext2_get_inode(Image[dev], ino), name)
                      = Listed(dev, ino, name)
  BY DEF DiskDecodes
<1> DEFINE disk == Image[dev]
           in == ext2_get_inode(disk, ino)
           entries == disk.listing[ino]
<1>1. /\ in.dir <=> ino \in DOMAIN disk.listing
      /\ in.dir => Directory(disk, in, entries)
  BY DEF DiskLists
<1>2. Listed(dev, ino, name) = IF ino \in DOMAIN disk.listing /\ name \in DOMAIN entries
                               THEN entries[name] ELSE 0
  BY DEF Listed
<1> HIDE DEF disk, in, entries
<1>3. CASE ~in.dir
  <2>1. ext2_lookup(disk, in, name) = 0
    BY <1>3 DEF ext2_lookup
  <2> QED BY <1>1, <1>2, <1>3, <2>1 DEF disk, in
<1>4. CASE in.dir
  <2>1. PICK R \in SUBSET (0 .. (in.i_size - 1)) :
          LET used == {k \in R : Cell(disk, in, k).inode # 0}
          IN  /\ Tiled(disk, in, R)
              /\ DOMAIN entries = {Cell(disk, in, k).name : k \in used}
              /\ \A k \in used : entries[Cell(disk, in, k).name] = Cell(disk, in, k).inode
    BY <1>1, <1>4 DEF Directory
  <2>2. Records(disk, in, R)
    BY <1>1, <1>4, <2>1 DEF Directory, Records
  <2>3. name \in DOMAIN entries <=> \E k \in R : Hit(disk, in, name, k)
    BY <2>1 DEF Hit
  <2>4. \A k \in R : Hit(disk, in, name, k) => Cell(disk, in, k).inode = entries[name]
    BY <2>1 DEF Hit
  <2>5. CASE name \in DOMAIN entries
    <3> DEFINE v == entries[name]
    <3>1. v # 0
      BY <2>3, <2>4, <2>5 DEF Hit
    <3> HIDE DEF v
    <3>2. ext2_lookup(disk, in, name) = v
      <4>1. HitsAre(disk, in, R, name, v)
        BY <2>4 DEF v, HitsAre
      <4> QED BY <1>4, <2>2, <2>3, <2>5, <3>1, <4>1, LookupFinds
    <3> QED BY <1>1, <1>2, <1>4, <2>5, <3>2 DEF v, disk, in
  <2>6. CASE name \notin DOMAIN entries
    <3> DEFINE v == 1
    <3>1. v # 0 /\ HitsAre(disk, in, R, name, v)
      BY <2>3, <2>6 DEF HitsAre
    <3> HIDE DEF v
    <3>2. ext2_lookup(disk, in, name) = 0
      BY <1>4, <2>2, <2>3, <2>6, <3>1, LookupFinds
    <3> QED BY <1>1, <1>2, <1>4, <2>6, <3>2 DEF disk, in
  <2> QED BY <2>5, <2>6
<1> QED BY <1>3, <1>4

(***************************************************************************)
(* On disks whose directories are records that tile their blocks           *)
(* (DiskLists, which TLC evaluates on the images of the run), lookup_path  *)
(* finds exactly what the disk holds, for every path and in every state of *)
(* the dentry cache: ext2_lookup goes over deleted entries and from block  *)
(* to block, and what earlier walks, failed ones and mounts included, have *)
(* left in the cache is never stale or wrong.                              *)
(***************************************************************************)
THEOREM PathsResolveHolds ==
  ASSUME DiskLists PROVE Spec => []PathsResolve
BY DisksDecode, PathsFromLookups

----------------------------------------------------------------------------
(* Every inode in memory is one of a disk *)

Stored(in) == in.dev \in Device /\ Image[in.dev].magic /\ in.ino \in Inodes(in.dev)
Placed(tree) == \A i \in 1 .. Len(tree) : tree[i].inode.fs = "ext2" => Stored(tree[i].inode)

\* Files of ext2 are of inodes on a disk, and their offsets are numbers.
OpenOn(x) == x.ops = "ext2" => x.inode.fs = "ext2" /\ Stored(x.inode) /\ x.offset \in Nat
ReadInv == Placed(dentry) /\ \A f \in File : OpenOn(file[f])

Component(name) == \E path \in Path : \E k \in 1 .. Len(path) : name = path[k]

\* An inode that is made for a number on a disk.
LEMMA InodeStored ==
  ASSUME NEW v \in Device, Image[v].magic, NEW j \in Inodes(v), NEW x, x = Inode("ext2", v, j, <<>>)
  PROVE  Stored(x)
<1>1. x.dev = v /\ x.ino = j
  BY DEF Inode
<1> QED BY <1>1 DEF Stored

\* What a directory lists is an inode of the disk.
LEMMA ListedIn ==
  ASSUME NEW v, NEW i, NEW name, NEW j, j = Listed(v, i, name), j # 0
  PROVE  j \in Inodes(v)
<1>1. /\ i \in DOMAIN Image[v].listing /\ name \in DOMAIN Image[v].listing[i]
      /\ j = Image[v].listing[i][name]
  BY DEF Listed
<1> QED BY <1>1 DEF Inodes

\* ext2_lookup finds inodes of the same disk.
LEMMA LookupStored ==
  ASSUME DiskDecodes, NEW name, Component(name), name # "",
         NEW d, d.fs = "ext2" => Stored(d), d.fs \in {"ext2", "procfs"},
         NEW in, in = lookup(d, name), in # NoInode
  PROVE  in.fs = "ext2" => Stored(in)
<1>1. CASE d.fs = "ext2"
  <2> DEFINE v == d.dev
             i == d.ino
             j == ext2_lookup(Image[v], ext2_get_inode(Image[v], i), name)
  <2>1. in = Found(d, name)
    BY <1>1, LookupExt2
  <2>2. in = IF j = 0 THEN NoInode ELSE Inode("ext2", v, j, <<>>)
    BY <2>1 DEF Found
  <2>3. v \in Device /\ Image[v].magic /\ i \in Inodes(v)
    BY <1>1 DEF Stored
  <2> HIDE DEF v, i
  <2>4. j = Listed(v, i, name)
    BY <2>3 DEF DiskDecodes, Component
  <2> HIDE DEF j
  <2>5. j # 0
    BY <2>2
  <2>6. in = Inode("ext2", v, j, <<>>)
    BY <2>2, <2>5
  <2>7. j \in Inodes(v)
    BY <2>4, <2>5, ListedIn
  <2> QED BY <2>3, <2>6, <2>7, InodeStored
<1>2. CASE d.fs # "ext2"
  <2>1. procfs_lookup(name) = NoInode \/ procfs_lookup(name).fs = "procfs"
    BY DEF procfs_lookup, Inode
  <2>2. in = procfs_lookup(name) \/ in = NoInode
    BY <1>2 DEF lookup
  <2> QED BY <2>1, <2>2
<1> QED BY <1>1, <1>2

\* One component of a path.
LEMMA WalkPlaced ==
  ASSUME DiskDecodes, TreeOK(dentry), NEW name, Component(name),
         NEW x, Resolved(x), Placed(x.tree), NEW r, r = Walk(x, name)
  PROVE  Placed(r.tree)
<1> DEFINE t == x.tree
           cur == x.cur
           d == t[cur].inode
           in == lookup(d, name)
           u == [t EXCEPT ![cur].children = <<Len(t) + 1>> \o @]
           nd == Dentry(name, in, cur)
<1>1. IsSeq(t) /\ Len(t) \in Nat /\ TreeOK(t) /\ cur \in 0 .. Len(t) /\ x = [tree |-> t, cur |-> cur]
  BY SeqFacts DEF Resolved, TreeOK
<1>2. Extends(t, r.tree)
  BY ResolvedStep DEF Walked
<1>3. \/ r.tree = t
      \/ cur # 0 /\ name # "" /\ in # NoInode /\ r.tree = Append(u, nd)
  BY <1>1 DEF Walk, None
<1>4. CASE r.tree = t
  BY <1>4
<1>5. CASE cur # 0 /\ name # "" /\ in # NoInode /\ r.tree = Append(u, nd)
  <2>1. cur \in 1 .. Len(t)
    <3>1. Len(t) \in Nat /\ cur \in 0 .. Len(t)
      BY <1>1
    <3>2. cur # 0
      BY <1>5
    <3> HIDE DEF in, u, nd, d, cur, t
    <3> QED BY <3>1, <3>2
  <2>2. d.fs \in {"ext2", "procfs"}
    BY <1>1, <2>1 DEF TreeOK, DentryOK
  <2>3. d.fs = "ext2" => Stored(d)
    BY <2>1 DEF Placed
  <2>4. in.fs = "ext2" => Stored(in)
    <3> DEFINE e == d
               n == in
    <3>1. /\ e.fs \in {"ext2", "procfs"} /\ (e.fs = "ext2" => Stored(e)) /\ n = lookup(e, name)
          /\ n # NoInode /\ name # ""
      BY <1>5, <2>2, <2>3
    <3> HIDE DEF e, n
    <3>2. n.fs = "ext2" => Stored(n)
      BY <3>1, LookupStored
    <3> QED BY <3>2 DEF n
  <2>5. IsSeq(u) /\ Len(u) = Len(t)
    <3> DEFINE y == [t[cur] EXCEPT !.children = <<Len(t) + 1>> \o @]
    <3>1. u = [t EXCEPT ![cur] = y]
      BY <1>1, <2>1, SeqFacts
    <3> HIDE DEF y, u
    <3>2. Replaced(t, cur, y, u)
      BY <1>1, <2>1, <3>1, SeqReplace
    <3> QED BY <3>2 DEF Replaced
  <2>6. nd.inode = in
    BY DEF Dentry
  <2> HIDE DEF u, nd, d, in
  <2>7. Len(r.tree) = Len(t) + 1 /\ r.tree[Len(t) + 1] = nd
    <3>1. Len(Append(u, nd)) = Len(u) + 1 /\ Append(u, nd)[Len(u) + 1] = nd
      BY <2>5, SeqFacts
    <3> QED BY <1>5, <2>5, <3>1
  <2> DEFINE w == r.tree
  <2>8. ASSUME NEW i \in 1 .. Len(w), w[i].inode.fs = "ext2" PROVE Stored(w[i].inode)
    <3>1. CASE i = Len(t) + 1
      BY <2>4, <2>6, <2>7, <2>8, <3>1
    <3>2. CASE i # Len(t) + 1
      <4>1. i \in 1 .. Len(t)
        BY <1>1, <2>7, <3>2
      <4>2. w[i].inode = t[i].inode
        BY <1>2, <4>1 DEF Extends
      <4> QED BY <2>8, <4>1, <4>2 DEF Placed
    <3> QED BY <3>1, <3>2
  <2> QED BY <2>8 DEF Placed
<1> HIDE DEF in, u, nd, cur, t
<1> QED BY <1>3, <1>4, <1>5

\* A whole path.
LEMMA LookupPlaced ==
  ASSUME DiskDecodes, CacheInv, Placed(dentry), NEW path \in Path
  PROVE  Placed(lookup_path(path).tree)
<1>1. Len(path) \in Nat /\ TreeOK(dentry)
  BY VfsAssumption DEF CacheInv
<1>2. PICK g : /\ lookup_path(path) = g[Len(path)]
               /\ g[0] = [tree |-> dentry, cur |-> vfs_root]
               /\ \A k \in 1 .. Len(path) : g[k] = Walk(g[k - 1], path[k])
  BY <1>1, PathEquation
<1> DEFINE S == {m \in Nat : m <= Len(path) => Resolved(g[m]) /\ Placed(g[m].tree)}
<1>3. 0 \in S
  <2>1. g[0].tree = dentry /\ g[0].cur = vfs_root /\ g[0] = [tree |-> g[0].tree, cur |-> g[0].cur]
    BY <1>2
  <2>2. Extends(dentry, dentry)
    BY <1>1, SeqFacts DEF TreeOK, Extends
  <2>3. Resolved(g[0])
    BY <2>1, <2>2 DEF Resolved, CacheInv
  <2> QED BY <2>1, <2>3
<1>4. ASSUME NEW m \in S PROVE m + 1 \in S
  <2> SUFFICES ASSUME m + 1 <= Len(path) PROVE Resolved(g[m + 1]) /\ Placed(g[m + 1].tree)
    OBVIOUS
  <2>1. m \in Nat /\ Resolved(g[m]) /\ Placed(g[m].tree) /\ m + 1 \in 1 .. Len(path) /\ (m + 1) - 1 = m
    BY <1>1
  <2>2. g[m + 1] = Walk(g[m], path[m + 1])
    BY <1>2, <2>1
  <2>3. Resolved(g[m + 1])
    BY <1>1, <2>1, <2>2, ResolvedStep
  <2> DEFINE x == g[m]
             r == g[m + 1]
             k == m + 1
             name == path[k]
  <2>4. Component(name) /\ Resolved(x) /\ Placed(x.tree) /\ r = Walk(x, name)
    BY <2>1, <2>2 DEF Component
  <2> HIDE DEF x, r, k, name
  <2>5. Placed(r.tree)
    BY <1>1, <2>4, WalkPlaced
  <2> QED BY <2>3, <2>5 DEF r
<1>5. S = Nat
  <2> HIDE DEF S
  <2>1. S \in SUBSET Nat
    BY DEF S
  <2> QED BY <1>3, <1>4, <2>1, NatSet
<1> QED BY <1>1, <1>2, <1>5

\* After kernel_start nothing of ext2 is in memory.
LEMMA ReadInvInit == Init => ReadInv
<1> SUFFICES ASSUME Init PROVE ReadInv
  OBVIOUS
<1>1. dentry = <<procfs_root>> /\ \A f \in File : file[f] = NoFile
  BY DEF Init
<1>2. Len(dentry) = 1 /\ dentry[1].inode.fs = "procfs"
  BY <1>1 DEF procfs_root, Dentry, Inode
<1>3. Placed(dentry)
  <2>1. \A i \in 1 .. Len(dentry) : i = 1
    BY <1>2
  <2> QED BY <1>2, <2>1 DEF Placed
<1>4. NoFile.ops # "ext2"
  BY DEF NoFile
<1> QED BY <1>1, <1>3, <1>4 DEF ReadInv, OpenOn

\* vfs_open.
LEMMA ReadInvOpen ==
  ASSUME DiskDecodes, VfsInv, ReadInv, NEW t \in Task, NEW path \in Path, vfs_open(t, path)
  PROVE  ReadInv'
<1> DEFINE r == lookup_path(path)
           f == Min(Unused)
           in == r.tree[r.cur].inode
<1>1. CacheInv /\ Placed(dentry) /\ DOMAIN file = File
  BY DEF VfsInv, FileInv, FilesOK, ReadInv
<1>2. TreeOK(r.tree) /\ r.cur \in 0 .. Len(r.tree)
  BY <1>1, LookupKeeps
<1>3. Placed(r.tree)
  BY <1>1, LookupPlaced
<1>4. /\ dentry' = r.tree
      /\ IF r.cur = None THEN file' = file
         ELSE Unused # {} /\ file' = [file EXCEPT ![f] = NewFile(in, fops(in))]
  BY DEF vfs_open
<1> HIDE DEF r
<1>5. Placed(dentry')
  BY <1>3, <1>4
<1>6. ASSUME NEW g \in File PROVE OpenOn(file'[g])
  <2>1. OpenOn(file[g])
    BY DEF ReadInv
  <2>2. CASE r.cur = None \/ g # f
    <3>1. file'[g] = file[g]
      BY <1>1, <1>4, <2>2
    <3> QED BY <2>1, <3>1
  <2>3. CASE r.cur # None /\ g = f
    <3> DEFINE x == NewFile(in, fops(in))
    <3>1. file'[g] = x
      BY <1>1, <1>4, <2>3
    <3>2. r.cur \in 1 .. Len(r.tree)
      <4>1. Len(r.tree) \in Nat
        BY <1>2, SeqFacts DEF TreeOK
      <4> HIDE DEF in, f, x
      <4> QED BY <1>2, <2>3, <4>1 DEF None
    <3>3. in.fs = "ext2" => Stored(in)
      BY <1>3, <3>2 DEF Placed
    <3> HIDE DEF in
    <3>4. x.ops = fops(in) /\ x.inode = in /\ x.offset = 0
      BY DEF NewFile
    <3> HIDE DEF x
    <3>5. fops(in) = "ext2" => in.fs = "ext2"
      BY DEF fops
    <3> QED BY <3>1, <3>3, <3>4, <3>5 DEF OpenOn
  <2> QED BY <2>2, <2>3
<1> QED BY <1>5, <1>6 DEF ReadInv

\* vfs_read and vfs_seek leave a number in the offset of a file of ext2.
LEMMA ReadInvMove ==
  ASSUME ReadInv, VfsInv, NEW f \in File, NEW v, file' = [file EXCEPT ![f].offset = v],
         file[f].ops = "ext2" => v \in Nat, file[f] # NoFile, dentry' = dentry
  PROVE  ReadInv'
<1>1. DOMAIN file = File /\ IsFile(file[f])
  BY DEF VfsInv, FileInv, FilesOK
<1>2. file'[f] = [file[f] EXCEPT !.offset = v] /\ \A g \in File : g # f => file'[g] = file[g]
  BY <1>1
<1>3. file'[f].ops = file[f].ops /\ file'[f].inode = file[f].inode /\ file'[f].offset = v
  <2> DEFINE x == file[f]
             y == file'[f]
  <2>1. IsFile(x) /\ y = [x EXCEPT !.offset = v]
    BY <1>1, <1>2
  <2> HIDE DEF x, y
  <2>2. y.ops = x.ops /\ y.inode = x.inode /\ y.offset = v
    BY <2>1 DEF IsFile
  <2> QED BY <2>2 DEF x, y
<1>4. \A g \in File : OpenOn(file[g])
  BY DEF ReadInv
<1>5. OpenOn(file'[f])
  BY <1>3, <1>4 DEF OpenOn
<1>6. \A g \in File : OpenOn(file'[g])
  BY <1>2, <1>4, <1>5
<1> QED BY <1>6 DEF ReadInv

\* A read of a file of ext2 returns the bytes that its inode leads to.
LEMMA ReadOfFile ==
  ASSUME DiskHolds, NEW x, OpenOn(x), x.ops = "ext2", NEW len \in Nat,
         NEW disk, disk = Image[x.inode.dev], NEW in, in = ext2_get_inode(disk, x.inode.ino)
  PROVE  /\ bytes_read(x, len) = Bytes(disk, in, x.offset, len)
         /\ InodeOK(disk, in) /\ Len(bytes_read(x, len)) \in Nat
         /\ x.inode.ino \in DOMAIN disk.content => Holds(disk, in, disk.content[x.inode.ino])
<1>1. /\ x.inode.dev \in Device /\ Image[x.inode.dev].magic /\ x.inode.ino \in Inodes(x.inode.dev)
      /\ x.offset \in Nat
  BY DEF OpenOn, Stored
<1>2. /\ InodeOK(disk, in)
      /\ x.inode.ino \in DOMAIN disk.content => Holds(disk, in, disk.content[x.inode.ino])
  BY <1>1 DEF DiskHolds
<1>3. bytes_read(x, len) = ext2_read_inode_data(disk, in, x.offset, len)
  BY DEF bytes_read
<1> DEFINE o == x.offset
           n == Span(Readable(disk, in), o, len)
           b == Bytes(disk, in, o, len)
<1>4. o \in Nat
  BY <1>1
<1>5. ext2_read_inode_data(disk, in, o, len) = b
  <2> HIDE DEF o
  <2> QED BY <1>2, <1>4, ReadIs
<1>6. Len(b) \in Nat
  <2> DEFINE P == Readable(disk, in)
             V == {Cell(disk, in, o + i - 1) : i \in 1 .. n}
  <2>1. n \in Nat
    <3> HIDE DEF P, o, n
    <3>1. IsSpan(P, o, len, Span(P, o, len))
      BY <1>4, SpanExists
    <3> QED BY <3>1 DEF IsSpan, n, P
  <2>2. b \in [1 .. n -> V]
    <3> HIDE DEF o
    <3> QED BY DEF Bytes
  <2> HIDE DEF V, b, n
  <2> QED BY <2>1, <2>2, FcnIsSeq
<1> QED BY <1>2, <1>3, <1>5, <1>6

\* Every step keeps what reads rely on.
LEMMA ReadInvStep ==
  ASSUME DiskDecodes, DiskHolds, VfsInv, ReadInv, [Next]_vars
  PROVE  ReadInv'
<1>0. /\ DOMAIN file = File /\ IsSeq(dentry) /\ Len(dentry) \in Nat /\ Len(dentry) >= 1
      /\ Placed(dentry) /\ \A g \in File : OpenOn(file[g])
  BY SeqFacts DEF VfsInv, FileInv, FilesOK, CacheInv, TreeOK, ReadInv
<1>1. ASSUME NEW path \in MountPath, NEW dev \in Device, vfs_mount_ext2(path, dev)
      PROVE  ReadInv'
  <2> DEFINE in == Inode("ext2", dev, EXT2_ROOT_INO, <<>>)
             nd == Dentry("/", in, None)
             w == dentry'
  <2>1. Image[dev].magic /\ w = Append(dentry, nd) /\ file' = file
    BY <1>1 DEF vfs_mount_ext2, mount_at
  <2>2. Stored(in)
    <3>1. EXT2_ROOT_INO \in Inodes(dev)
      BY DEF Inodes
    <3> QED BY <2>1, <3>1, InodeStored
  <2>3. nd.inode = in
    BY DEF Dentry
  <2> HIDE DEF in, nd, w
  <2>4. /\ Len(w) = Len(dentry) + 1 /\ w[Len(dentry) + 1] = nd
        /\ \A i \in 1 .. Len(dentry) : w[i] = dentry[i]
    BY <1>0, <2>1, SeqFacts
  <2>5. \A i \in 1 .. Len(w) : i = Len(dentry) + 1 \/ i \in 1 .. Len(dentry)
    BY <1>0, <2>4
  <2>6. Placed(w)
    BY <1>0, <2>2, <2>3, <2>4, <2>5 DEF Placed
  <2> QED BY <1>0, <2>1, <2>6 DEF ReadInv, w
<1>2. ASSUME NEW path \in MountPath, vfs_mount_procfs(path) PROVE ReadInv'
  <2> DEFINE w == dentry'
  <2>1. w = [dentry EXCEPT ![1] = procfs_root] /\ file' = file
    BY <1>2 DEF vfs_mount_procfs, mount_at
  <2> HIDE DEF w
  <2>2. Replaced(dentry, 1, procfs_root, w)
    <3>1. 1 \in 1 .. Len(dentry)
      BY <1>0
    <3> QED BY <1>0, <2>1, <3>1, SeqReplace
  <2>3. procfs_root.inode.fs # "ext2"
    BY DEF procfs_root, Dentry, Inode
  <2>4. Placed(w)
    BY <1>0, <2>2, <2>3 DEF Placed, Replaced
  <2> QED BY <1>0, <2>1, <2>4 DEF ReadInv, w
<1>3. ASSUME NEW path \in Path, vfs_stat(path) PROVE ReadInv'
  <2>1. dentry' = lookup_path(path).tree /\ file' = file
    BY <1>3 DEF vfs_stat
  <2>2. Placed(lookup_path(path).tree)
    BY <1>0, LookupPlaced DEF VfsInv
  <2> QED BY <1>0, <2>1, <2>2 DEF ReadInv
<1>4. ASSUME NEW t \in Task, NEW fd \in Fd, NEW len \in Lens, vfs_read(t, fd, len) PROVE ReadInv'
  <2> DEFINE f == fd_table[t][fd]
             v == (file[f].offset + Len(bytes_read(file[f], len))) % U64
  <2>1. /\ f # None /\ dentry' = dentry
        /\ file' = [file EXCEPT ![f].offset = (@ + Len(bytes_read(file[f], len))) % U64]
    BY <1>4 DEF vfs_read
  <2>2. file' = [file EXCEPT ![f].offset = v]
    BY <2>1
  <2>3. f \in File /\ file[f] # NoFile
    BY <2>1, VfsAssumption DEF VfsInv, FileInv, Tables
  <2>4. ASSUME file[f].ops = "ext2" PROVE v \in Nat
    <3> DEFINE x == file[f]
               disk == Image[x.inode.dev]
               in == ext2_get_inode(disk, x.inode.ino)
               l == Len(bytes_read(x, len))
    <3>1. OpenOn(x) /\ x.ops = "ext2" /\ len \in Nat /\ U64 \in Nat \ {0}
      BY <1>0, <2>3, <2>4, VfsAssumption
    <3>2. disk = Image[x.inode.dev] /\ in = ext2_get_inode(disk, x.inode.ino)
      OBVIOUS
    <3> HIDE DEF x, disk, in
    <3>3. l \in Nat
      BY <3>1, <3>2, ReadOfFile
    <3>4. x.offset \in Nat
      BY <3>1 DEF OpenOn
    <3>5. v = (x.offset + l) % U64
      BY DEF x
    <3> HIDE DEF l, v
    <3> QED BY <3>1, <3>3, <3>4, <3>5
  <2> HIDE DEF f, v
  <2> QED BY <2>1, <2>2, <2>3, <2>4, ReadInvMove
<1>5. ASSUME NEW t \in Task, NEW fd \in Fd, NEW offset \in Seeks,
             NEW whence \in {"SEEK_SET", "SEEK_CUR", "SEEK_END"}, vfs_seek(t, fd, offset, whence)
      PROVE  ReadInv'
  <2> DEFINE f == fd_table[t][fd]
             from == CASE whence = "SEEK_SET" -> 0
                       [] whence = "SEEK_CUR" -> file[f].offset
                       [] whence = "SEEK_END" -> inode_size(file[f].inode)
             v == (from + offset) % U64
  <2>1. f # None /\ dentry' = dentry /\ file' = [file EXCEPT ![f].offset = v]
    BY <1>5 DEF vfs_seek
  <2>2. f \in File /\ file[f] # NoFile
    BY <2>1, VfsAssumption DEF VfsInv, FileInv, Tables
  <2>3. ASSUME file[f].ops = "ext2" PROVE v \in Nat
    <3> DEFINE x == file[f]
    <3>1. x.inode.fs = "ext2" /\ Stored(x.inode) /\ x.offset \in Nat
      BY <1>0, <2>2, <2>3 DEF OpenOn
    <3> HIDE DEF x
    <3>2. inode_size(x.inode) \in Nat
      <4>1. inode_size(x.inode) = ext2_get_inode(Image[x.inode.dev], x.inode.ino).i_size
        BY <3>1 DEF inode_size
      <4>2. InodeOK(Image[x.inode.dev], ext2_get_inode(Image[x.inode.dev], x.inode.ino))
        BY <3>1 DEF DiskHolds, Stored
      <4> QED BY <4>1, <4>2 DEF InodeOK
    <3>3. from \in Nat
      BY <3>1, <3>2 DEF x
    <3> HIDE DEF from
    <3> QED BY <3>3, VfsAssumption
  <2> HIDE DEF f, v
  <2> QED BY <2>1, <2>2, <2>3, ReadInvMove
<1>6. ASSUME NEW t \in Task, NEW fd \in Fd, vfs_close(t, fd) PROVE ReadInv'
  <2> DEFINE f == fd_table[t][fd]
  <2>1. /\ f # None /\ dentry' = dentry
        /\ file' = [file EXCEPT ![f] = IF file[f].ref_count = 1 THEN NoFile
                                       ELSE [@ EXCEPT !.ref_count = @ - 1]]
    BY <1>6 DEF vfs_close
  <2>2. f \in File /\ file[f] # NoFile
    BY <2>1, VfsAssumption DEF VfsInv, FileInv, Tables
  <2> HIDE DEF f
  <2>3. IsFile(file[f])
    BY <2>2 DEF VfsInv, FileInv, FilesOK
  <2>4. file[f].ref_count = 1
    BY <2>3, NoFileFacts
  <2>5. \A g \in File : file'[g] = NoFile \/ file'[g] = file[g]
    BY <1>0, <2>1, <2>4
  <2>6. OpenOn(NoFile)
    BY DEF NoFile, OpenOn
  <2>7. \A g \in File : OpenOn(file'[g])
    BY <1>0, <2>5, <2>6
  <2> QED BY <1>0, <2>1, <2>7 DEF ReadInv
<1>7. ASSUME NEW t \in Task, pipe_create(t) PROVE ReadInv'
  <2> DEFINE in == Inode("pipe", "none", Len(pipe) + 1, <<>>)
             x == NewFile(in, "read_closed")
             y == NewFile(in, "write_closed")
  <2>1. dentry' = dentry /\ \E rf, wf : file' = [file EXCEPT ![rf] = x, ![wf] = y]
    BY <1>7 DEF pipe_create
  <2>2. x.ops # "ext2" /\ y.ops # "ext2"
    BY DEF NewFile
  <2> HIDE DEF x, y
  <2>3. \A g \in File : file'[g] = x \/ file'[g] = y \/ file'[g] = file[g]
    BY <1>0, <2>1
  <2>4. OpenOn(x) /\ OpenOn(y)
    BY <2>2 DEF OpenOn
  <2>5. \A g \in File : OpenOn(file'[g])
    BY <1>0, <2>3, <2>4
  <2> QED BY <1>0, <2>1, <2>5 DEF ReadInv
<1>8. CASE tick \/ UNCHANGED vars
  BY <1>8 DEF tick, vars, ReadInv, Placed
<1> QED BY <1>1, <1>2, <1>3, <1>4, <1>5, <1>6, <1>7, <1>8, ReadInvOpen DEF Next

(***************************************************************************)
(* On disks whose directories are as above and whose blocks hold the files *)
(* (DiskHolds is evaluated by TLC on the images of the run), every read of *)
(* a file by ext2_read_inode_data, from any offset that reads and seeks,   *)
(* wrapping included, have left, and of any length up to one more than the *)
(* file has, returns exactly the bytes of the file up to its end or a      *)
(* hole: for every block size and every number of direct blocks.           *)
(***************************************************************************)
THEOREM ReadExactHolds ==
  ASSUME DiskLists, DiskHolds
  PROVE  Spec => []ReadExact
<1>0. DiskDecodes
  BY DisksDecode
<1>1. VfsInv /\ ReadInv => ReadExact
  <2> SUFFICES ASSUME ReadInv, NEW f \in File, file[f].ops = "ext2",
                      file[f].inode.ino \in DOMAIN Image[file[f].inode.dev].content,
                      NEW len \in 0 .. (Len(Image[file[f].inode.dev].content[file[f].inode.ino]) + 1)
               PROVE  bytes_read(file[f], len)
                        = BytesFrom(Image[file[f].inode.dev].content[file[f].inode.ino],
                                    file[f].offset, len)
    BY DEF ReadExact
  <2> DEFINE x == file[f]
             disk == Image[x.inode.dev]
             in == ext2_get_inode(disk, x.inode.ino)
             content == disk.content[x.inode.ino]
             o == x.offset
  <2>1. OpenOn(x) /\ x.ops = "ext2" /\ x.inode.ino \in DOMAIN disk.content
    BY DEF ReadInv
  <2>2. disk = Image[x.inode.dev] /\ in = ext2_get_inode(disk, x.inode.ino)
    OBVIOUS
  <2>3. len \in Nat
    OBVIOUS
  <2>4. o \in Nat
    BY <2>1 DEF OpenOn
  <2> HIDE DEF x, disk, in
  <2>5. bytes_read(x, len) = Bytes(disk, in, o, len) /\ InodeOK(disk, in) /\ Holds(disk, in, content)
    BY <2>1, <2>2, <2>3, ReadOfFile
  <2> HIDE DEF o, content
  <2>6. Bytes(disk, in, o, len) = BytesFrom(content, o, len)
    BY <2>3, <2>4, <2>5, BytesAre
  <2> QED BY <2>5, <2>6 DEF x, disk, content, o
<1>2. VfsInv /\ ReadInv /\ [Next]_vars => ReadInv'
  BY <1>0, ReadInvStep
<1> QED BY <1>1, <1>2, ReadInvInit, VfsInvHolds, PTL DEF Spec
=============================================================================
