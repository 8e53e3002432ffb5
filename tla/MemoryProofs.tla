---------------------------- MODULE MemoryProofs ----------------------------
(***************************************************************************)
(* For every memory map, page size, number of frames and layout of virtual *)
(* memory: no page frame serves two purposes, what the kernel and user     *)
(* space may touch is backed by frames, the blocks of the heap tile it,    *)
(* none is leaked, and the heap implements an allocator.                   *)
(***************************************************************************)
EXTENDS Memory, FiniteSetTheorems, NaturalsInduction, WellFoundedInduction, TLAPS

----------------------------------------------------------------------------
(* Arithmetic of pages *)

\* A set of natural numbers that is not empty has a least element.
LEMMA LeastElement ==
  ASSUME NEW T \in SUBSET Nat, T # {}
  PROVE  \E m \in T : \A k \in T : m <= k
<1> DEFINE R == OpToRel(<, Nat)
<1>1. IsWellFoundedOn(R, Nat)
  BY NatLessThanWellFounded
<1> HIDE DEF R
<1>2. PICK m \in T : \A y \in T : ~ (<<y, m>> \in R)
  BY <1>1, WFMin
<1>3. \A x, y \in Nat : x < y => <<x, y>> \in R
  BY DEF R, OpToRel
<1>4. ASSUME NEW k \in T PROVE m <= k
  <2>1. m \in Nat /\ k \in Nat /\ ~(<<k, m>> \in R)
    BY <1>2
  <2>2. ~(k < m)
    BY <1>3, <2>1
  <2> QED BY <2>1, <2>2
<1> QED BY <1>4

\* Division by the page size.
LEMMA PageDivision ==
  ASSUME NEW x \in Nat
  PROVE  /\ x \div PAGE_SIZE \in Nat
         /\ (x \div PAGE_SIZE) * PAGE_SIZE <= x
         /\ x < (x \div PAGE_SIZE) * PAGE_SIZE + PAGE_SIZE
BY PmmAssumption

\* The page of a page-aligned address, also after rounding up.
LEMMA PageOfMultiple ==
  ASSUME NEW n \in Nat
  PROVE  (n * PAGE_SIZE) \div PAGE_SIZE = n /\ (n * PAGE_SIZE + PAGE_SIZE - 1) \div PAGE_SIZE = n
BY PmmAssumption

----------------------------------------------------------------------------
(* Page frames *)

Frame  == Pfn \cup {NULL}
Tables == Table \ BootTables

\* The record of modules Pmm and Vmm; the counter of free pages is left open.
MmType(m) ==
  m \in [bitmap : SUBSET Pfn, free_pages : {m.free_pages}, panic : BOOLEAN, root : Frame,
         table : [Table -> Frame \cup {BootFrame}], pte : [VPage -> Frame]]

\* The frames in use when callers hold the frames h.
InUse(m, h) ==
  (h \cup {m.root} \cup {m.table[t] : t \in Tables} \cup {m.pte[v] : v \in VPage}) \ {NULL}

\* No frame is used twice.
Exclusive(m, h) ==
  /\ \A s, t \in Tables : m.table[s] # NULL /\ m.table[s] = m.table[t] => s = t
  /\ \A v, w \in VPage : m.pte[v] # NULL /\ m.pte[v] = m.pte[w] => v = w
  /\ \A t \in Tables, v \in VPage : m.table[t] # NULL => m.table[t] # m.pte[v]
  /\ m.root \notin h
  /\ \A t \in Tables : m.table[t] \notin h /\ (m.root # NULL => m.table[t] # m.root)
  /\ \A v \in VPage : m.pte[v] \notin h /\ (m.root # NULL => m.pte[v] # m.root)

(***************************************************************************)
(* The frames h held by callers, the tables, the mapped pages and the free *)
(* frames of m share nothing, and all of them are frames of G.             *)
(***************************************************************************)
FramesOK(m, h, G) ==
  /\ MmType(m) /\ h \in SUBSET Pfn
  /\ Exclusive(m, h)
  /\ m.bitmap \cap InUse(m, h) = {}
  /\ m.bitmap \cup InUse(m, h) \subseteq G

\* alloc_page finds a frame or panics.
LEMMA AllocPage ==
  ASSUME NEW m, MmType(m), ~m.panic
  PROVE  LET a == alloc_page(m)
             f == FirstFree(m)
         IN  /\ m.bitmap # {} =>
                  /\ a = [m EXCEPT !.bitmap = m.bitmap \ {f}, !.free_pages = m.free_pages - 1]
                  /\ MmType(a) /\ a.bitmap = m.bitmap \ {f} /\ ~a.panic
                  /\ a.root = m.root /\ a.table = m.table /\ a.pte = m.pte
                  /\ f \in m.bitmap
             /\ m.bitmap = {} => a = [m EXCEPT !.panic = TRUE] /\ a.panic
<1>0. Pfn \subseteq Nat
  BY PmmAssumption DEF Pfn
<1>1. ASSUME m.bitmap # {} PROVE FirstFree(m) \in m.bitmap
  <2>1. m.bitmap \in SUBSET Nat
    BY <1>0 DEF MmType
  <2>2. \E f \in m.bitmap : \A g \in m.bitmap : f <= g
    BY <1>1, <2>1, LeastElement
  <2> QED BY <2>2 DEF FirstFree
<1> DEFINE f == FirstFree(m)
<1> HIDE DEF f
<1>2. ASSUME m.bitmap # {}
      PROVE  alloc_page(m) = [m EXCEPT !.bitmap = m.bitmap \ {f}, !.free_pages = m.free_pages - 1]
  BY <1>2 DEF alloc_page, MmType, f
<1>3. ASSUME m.bitmap = {} PROVE alloc_page(m) = [m EXCEPT !.panic = TRUE]
  BY <1>3 DEF alloc_page
<1> DEFINE a == alloc_page(m)
<1> HIDE DEF a
<1>4. ASSUME m.bitmap # {}
      PROVE  /\ MmType(a) /\ a.bitmap = m.bitmap \ {f} /\ ~a.panic
             /\ a.root = m.root /\ a.table = m.table /\ a.pte = m.pte
  <2>1. a = [m EXCEPT !.bitmap = m.bitmap \ {f}, !.free_pages = m.free_pages - 1]
    BY <1>2, <1>4 DEF a
  <2> QED BY <2>1 DEF MmType
<1> QED BY <1>1, <1>2, <1>3, <1>4 DEF a, f, MmType

\* A frame that alloc_page hands out belongs to its caller.
LEMMA AllocExclusive ==
  ASSUME NEW m, NEW h, NEW G, FramesOK(m, h, G), ~m.panic, m.bitmap # {}
  PROVE  /\ FirstFree(m) \in Pfn \ h
         /\ FramesOK(alloc_page(m), h \cup {FirstFree(m)}, G)
<1> DEFINE f == FirstFree(m)
           a == alloc_page(m)
<1>1. /\ f \in m.bitmap /\ MmType(a) /\ a.bitmap = m.bitmap \ {f}
      /\ a.root = m.root /\ a.table = m.table /\ a.pte = m.pte
  BY AllocPage DEF FramesOK
<1> HIDE DEF f, a
<1>2. f \in Pfn /\ f # NULL /\ f \notin h
  BY <1>1, VmmAssumption DEF FramesOK, MmType, InUse
<1>3. InUse(a, h \cup {f}) = InUse(m, h) \cup {f}
  BY <1>1, <1>2 DEF InUse
<1>4. \A x \in InUse(m, h) : x # f
  BY <1>1 DEF FramesOK
<1>5. Exclusive(a, h \cup {f})
  <2>1. m.root # f /\ (\A t \in Tables : m.table[t] # f) /\ (\A v \in VPage : m.pte[v] # f)
    BY <1>2, <1>4 DEF InUse
  <2> QED BY <1>1, <2>1 DEF Exclusive, FramesOK
<1>6. FramesOK(a, h \cup {f}, G)
  BY <1>1, <1>2, <1>3, <1>5 DEF FramesOK
<1> QED BY <1>2, <1>6 DEF f, a

\* get_or_alloc_table gives the fresh frame to the table.
LEMMA TableExclusive ==
  ASSUME NEW m, NEW h, NEW G, FramesOK(m, h, G), NEW t
  PROVE  LET a == get_or_alloc_table(m, t)
         IN  /\ FramesOK(a, h, G) /\ a.pte = m.pte
             /\ \A s \in Table : m.table[s] # NULL => a.table[s] # NULL
             /\ t \in Table /\ ~a.panic => a.table[t] # NULL
             /\ m.panic => a.panic
<1> DEFINE a == get_or_alloc_table(m, t)
           p == alloc_page(m)
           f == FirstFree(m)
<1>0. MmType(m)
  BY DEF FramesOK
<1>1. CASE m.table[t] # NULL \/ m.panic
  <2>1. a = m
    BY <1>1 DEF get_or_alloc_table
  <2> HIDE DEF a
  <2> QED BY <1>1, <2>1 DEF a
<1>2. CASE ~(m.table[t] # NULL \/ m.panic) /\ m.bitmap = {}
  <2>1. a = [m EXCEPT !.panic = TRUE]
    BY <1>0, <1>2, AllocPage DEF get_or_alloc_table
  <2> HIDE DEF a
  <2>2. /\ MmType(a) /\ a.panic /\ a.bitmap = m.bitmap
        /\ a.root = m.root /\ a.table = m.table /\ a.pte = m.pte
    BY <1>0, <2>1 DEF MmType
  <2>3. FramesOK(a, h, G)
    BY <2>2 DEF FramesOK, InUse, Exclusive
  <2> QED BY <2>2, <2>3 DEF a
<1>3. CASE ~(m.table[t] # NULL \/ m.panic) /\ m.bitmap # {}
  <2>1. /\ f \in Pfn \ h /\ FramesOK(p, h \cup {f}, G) /\ ~p.panic /\ MmType(p)
        /\ p.table = m.table /\ p.pte = m.pte /\ f # NULL
    BY <1>0, <1>3, AllocExclusive, AllocPage, VmmAssumption DEF FramesOK
  <2>2. a = [p EXCEPT !.table[t] = f]
    BY <1>3, <2>1 DEF get_or_alloc_table
  <2> HIDE DEF a, p, f
  <2>3. /\ a.table = [p.table EXCEPT ![t] = f] /\ a.pte = p.pte /\ a.root = p.root
        /\ a.bitmap = p.bitmap /\ ~a.panic
    BY <2>1, <2>2 DEF MmType
  <2>4. MmType(a)
    BY <2>1, <2>2 DEF MmType, Frame
  <2>5. \A s \in Table : a.table[s] = IF s = t THEN f ELSE m.table[s]
    BY <2>1, <2>3 DEF MmType
  <2>6. Exclusive(a, h)
    BY <2>1, <2>3, <2>5 DEF FramesOK, Exclusive, Tables
  <2>7. InUse(a, h) \subseteq InUse(p, h \cup {f})
    BY <2>1, <2>3, <2>5 DEF InUse, Tables
  <2>8. FramesOK(a, h, G)
    BY <2>1, <2>3, <2>4, <2>6, <2>7 DEF FramesOK
  <2> QED BY <1>3, <2>1, <2>3, <2>5, <2>8 DEF a
<1> QED BY <1>1, <1>2, <1>3

\* Giving up a frame keeps the others apart.
LEMMA DropFrame ==
  ASSUME NEW m, NEW h, NEW G, NEW f, FramesOK(m, h \cup {f}, G)
  PROVE  FramesOK(m, h, G)
BY DEF FramesOK, Exclusive, InUse

\* Setting the panic flag changes nothing else.
LEMMA PanicKeeps ==
  ASSUME NEW m, NEW h, NEW G, FramesOK(m, h, G), NEW x \in BOOLEAN
  PROVE  LET a == [m EXCEPT !.panic = x]
         IN  FramesOK(a, h, G) /\ a.panic = x /\ a.table = m.table /\ a.pte = m.pte
<1> DEFINE a == [m EXCEPT !.panic = x]
<1>1. /\ MmType(a) /\ a.panic = x /\ a.bitmap = m.bitmap
      /\ a.root = m.root /\ a.table = m.table /\ a.pte = m.pte
  BY DEF FramesOK, MmType
<1> HIDE DEF a
<1>2. FramesOK(a, h, G)
  BY <1>1 DEF FramesOK, InUse, Exclusive
<1> QED BY <1>1, <1>2 DEF a

\* The tables and pages of m are still there in a.
Keeps(m, a) ==
  /\ \A t \in Table : m.table[t] # NULL => a.table[t] # NULL
  /\ \A v \in VPage : m.pte[v] # NULL => a.pte[v] # NULL

\* Page v can be reached from kernel_pml4.
Reaches(m, v) ==
  /\ m.table[PDPT(v)] # NULL /\ m.table[PD(v)] # NULL /\ m.table[PT(v)] # NULL
  /\ m.pte[v] # NULL

\* The walk of map_page down to the last table, for a caller that holds h.
LEMMA WalkExclusive ==
  ASSUME NEW m, NEW h, NEW G, FramesOK(m, h, G), NEW v
  PROVE  LET a == get_or_alloc_table(m, PDPT(v))
             b == get_or_alloc_table(a, PD(v))
             c == get_or_alloc_table(b, PT(v))
         IN  /\ FramesOK(c, h, G) /\ Keeps(m, c) /\ c.pte = m.pte
             /\ m.panic => c.panic
             /\ v \in VPage /\ ~c.panic =>
                  c.table[PDPT(v)] # NULL /\ c.table[PD(v)] # NULL /\ c.table[PT(v)] # NULL
<1> DEFINE a == get_or_alloc_table(m, PDPT(v))
           b == get_or_alloc_table(a, PD(v))
           c == get_or_alloc_table(b, PT(v))
<1>1. /\ FramesOK(a, h, G) /\ a.pte = m.pte /\ (m.panic => a.panic)
      /\ \A s \in Table : m.table[s] # NULL => a.table[s] # NULL
      /\ PDPT(v) \in Table /\ ~a.panic => a.table[PDPT(v)] # NULL
  BY TableExclusive
<1> HIDE DEF a
<1>2. /\ FramesOK(b, h, G) /\ b.pte = a.pte /\ (a.panic => b.panic)
      /\ \A s \in Table : a.table[s] # NULL => b.table[s] # NULL
      /\ PD(v) \in Table /\ ~b.panic => b.table[PD(v)] # NULL
  BY <1>1, TableExclusive
<1> HIDE DEF b
<1>3. /\ FramesOK(c, h, G) /\ c.pte = b.pte /\ (b.panic => c.panic)
      /\ \A s \in Table : b.table[s] # NULL => c.table[s] # NULL
      /\ PT(v) \in Table /\ ~c.panic => c.table[PT(v)] # NULL
  BY <1>2, TableExclusive
<1> HIDE DEF c
<1>4. v \in VPage => PDPT(v) \in Table /\ PD(v) \in Table /\ PT(v) \in Table
  BY DEF Table
<1> QED BY <1>1, <1>2, <1>3, <1>4 DEF Keeps, a, b, c

(***************************************************************************)
(* alloc_and_map, the body of heap_expand, sys_brk and sys_mmap: whatever  *)
(* it runs out of on the way, no frame is used twice; if it does not       *)
(* panic, page v is mapped, and what was mapped still is.                  *)
(***************************************************************************)
LEMMA MapExclusive ==
  ASSUME NEW m, NEW h, NEW G, FramesOK(m, h, G), ~m.panic, NEW v
  PROVE  LET a == alloc_and_map(m, v)
         IN  FramesOK(a, h, G) /\ Keeps(m, a) /\ (v \in VPage /\ ~a.panic => Reaches(a, v))
<1> DEFINE p == alloc_page(m)
           f == FirstFree(m)
           a == get_or_alloc_table(p, PDPT(v))
           b == get_or_alloc_table(a, PD(v))
           c == get_or_alloc_table(b, PT(v))
           r == alloc_and_map(m, v)
<1>0. MmType(m)
  BY DEF FramesOK
<1>1. r = IF c.panic THEN c ELSE [c EXCEPT !.pte[v] = f]
  BY DEF alloc_and_map, map_page
<1> HIDE DEF r
<1>2. CASE m.bitmap = {}
  <2>1. p = [m EXCEPT !.panic = TRUE]
    BY <1>0, <1>2, AllocPage
  <2>2. FramesOK(p, h, G) /\ p.panic = TRUE /\ p.table = m.table /\ p.pte = m.pte
    <3>1. TRUE \in BOOLEAN
      OBVIOUS
    <3> HIDE DEF p
    <3> QED BY <2>1, <3>1, PanicKeeps, Zenon
  <2> HIDE DEF p
  <2>3. FramesOK(c, h, G) /\ Keeps(p, c) /\ c.panic
    BY <2>2, WalkExclusive
  <2> HIDE DEF c
  <2>4. r = c
    BY <1>1, <2>3
  <2> QED BY <2>2, <2>3, <2>4 DEF Keeps, r
<1>3. CASE m.bitmap # {}
  <2>1. /\ f \in Pfn \ h /\ FramesOK(p, h \cup {f}, G)
        /\ p.table = m.table /\ p.pte = m.pte /\ f # NULL
    BY <1>0, <1>3, AllocExclusive, AllocPage, VmmAssumption
  <2> HIDE DEF p, f
  <2>2. /\ FramesOK(c, h \cup {f}, G) /\ Keeps(p, c) /\ c.pte = p.pte
        /\ v \in VPage /\ ~c.panic =>
             c.table[PDPT(v)] # NULL /\ c.table[PD(v)] # NULL /\ c.table[PT(v)] # NULL
    BY <2>1, WalkExclusive
  <2> HIDE DEF c
  <2>3. CASE c.panic
    <3>1. FramesOK(c, h, G)
      BY <2>2, DropFrame
    <3> QED BY <1>1, <2>1, <2>2, <2>3, <3>1 DEF Keeps, r
  <2>4. CASE ~c.panic
    <3>1. r = [c EXCEPT !.pte[v] = f]
      BY <1>1, <2>4
    <3>2. MmType(c)
      BY <2>2 DEF FramesOK
    <3>3. /\ r.pte = [c.pte EXCEPT ![v] = f] /\ r.table = c.table /\ r.root = c.root
          /\ r.bitmap = c.bitmap /\ r.panic = c.panic
      BY <3>1, <3>2 DEF MmType
    <3>4. MmType(r)
      BY <2>1, <3>1, <3>2 DEF MmType, Frame
    <3>5. \A w \in VPage : r.pte[w] = IF w = v THEN f ELSE c.pte[w]
      BY <3>2, <3>3 DEF MmType
    <3>6. Exclusive(r, h)
      BY <2>1, <2>2, <3>3, <3>5 DEF FramesOK, Exclusive
    <3>7. InUse(r, h) \subseteq InUse(c, h \cup {f})
      BY <2>1, <3>3, <3>5 DEF InUse
    <3>8. FramesOK(r, h, G)
      BY <2>1, <2>2, <3>3, <3>4, <3>6, <3>7 DEF FramesOK
    <3>9. Keeps(m, r) /\ (v \in VPage => Reaches(r, v))
      BY <2>1, <2>2, <2>4, <3>3, <3>5 DEF Keeps, Reaches
    <3> QED BY <3>8, <3>9 DEF r
  <2> QED BY <2>3, <2>4
<1> QED BY <1>2, <1>3

\* free_page of a held frame makes it free; anything else it only logs.
LEMMA FreeExclusive ==
  ASSUME NEW m, NEW h, NEW G, FramesOK(m, h, G), NEW addr \in Nat,
         addr \div PAGE_SIZE \in h \cup m.bitmap \/ addr \div PAGE_SIZE \notin Pfn
  PROVE  LET a == free_page(m, addr)
             k == IF addr % PAGE_SIZE = 0 THEN h \ {addr \div PAGE_SIZE} ELSE h
         IN  FramesOK(a, k, G) /\ a.table = m.table /\ a.pte = m.pte /\ a.panic = m.panic
<1> DEFINE a == free_page(m, addr)
           f == addr \div PAGE_SIZE
           k == IF addr % PAGE_SIZE = 0 THEN h \ {f} ELSE h
<1>0. MmType(m) /\ h \in SUBSET Pfn /\ m.bitmap \cap InUse(m, h) = {} /\ Exclusive(m, h)
  BY DEF FramesOK
<1> HIDE DEF f
<1>1. CASE addr % PAGE_SIZE # 0 \/ f \notin Pfn \/ f \in m.bitmap
  <2>1. a = m
    BY <1>1 DEF free_page, f
  <2>2. k = h
    <3>1. h \cap m.bitmap = {}
      BY <1>0, VmmAssumption DEF InUse
    <3> QED BY <1>0, <1>1, <3>1
  <2> HIDE DEF a, k
  <2> QED BY <2>1, <2>2 DEF a, k, f
<1>2. CASE ~(addr % PAGE_SIZE # 0 \/ f \notin Pfn \/ f \in m.bitmap)
  <2>1. a = [m EXCEPT !.bitmap = m.bitmap \cup {f}, !.free_pages = m.free_pages + 1]
    BY <1>0, <1>2 DEF free_page, f, MmType
  <2>2. f \in h /\ k = h \ {f} /\ f \in Pfn /\ f # NULL
    BY <1>2, VmmAssumption DEF f
  <2> HIDE DEF a, k
  <2>3. /\ MmType(a) /\ a.bitmap = m.bitmap \cup {f} /\ a.panic = m.panic
        /\ a.root = m.root /\ a.table = m.table /\ a.pte = m.pte
    BY <1>0, <2>1, <2>2 DEF MmType
  <2>4. Exclusive(a, k)
    BY <1>0, <2>2, <2>3 DEF Exclusive
  <2>5. InUse(a, k) \subseteq InUse(m, h) \ {f} /\ f \in InUse(m, h)
    <3>1. m.root # f /\ (\A t \in Tables : m.table[t] # f) /\ (\A v \in VPage : m.pte[v] # f)
      BY <1>0, <2>2 DEF Exclusive
    <3> QED BY <2>2, <2>3, <3>1 DEF InUse
  <2>6. FramesOK(a, k, G)
    BY <1>0, <2>2, <2>3, <2>4, <2>5 DEF FramesOK
  <2> QED BY <2>3, <2>6 DEF a, k, f
<1> QED BY <1>1, <1>2

\* unmap_page clears one entry.
LEMMA UnmapExclusive ==
  ASSUME NEW m, NEW h, NEW G, FramesOK(m, h, G), NEW v \in VPage
  PROVE  LET a == unmap_page(m, v)
         IN  /\ FramesOK(a, h, G) /\ a.table = m.table /\ a.panic = m.panic
             /\ \A w \in VPage \ {v} : a.pte[w] = m.pte[w]
<1> DEFINE a == unmap_page(m, v)
           r == [m EXCEPT !.pte[v] = NULL]
<1>0. MmType(m)
  BY DEF FramesOK
<1>1. a = m \/ a = r
  BY DEF unmap_page
<1> HIDE DEF a
<1>2. /\ r.pte = [m.pte EXCEPT ![v] = NULL] /\ r.table = m.table /\ r.root = m.root
      /\ r.bitmap = m.bitmap /\ r.panic = m.panic /\ MmType(r)
  BY <1>0 DEF MmType, Frame
<1>3. \A w \in VPage : r.pte[w] = IF w = v THEN NULL ELSE m.pte[w]
  BY <1>0, <1>2 DEF MmType
<1> HIDE DEF r
<1>4. Exclusive(r, h)
  <2>1. NULL \notin h
    BY VmmAssumption DEF FramesOK
  <2> QED BY <1>2, <1>3, <2>1 DEF FramesOK, Exclusive
<1>5. InUse(r, h) \subseteq InUse(m, h)
  BY <1>2, <1>3 DEF InUse
<1>6. FramesOK(r, h, G)
  BY <1>2, <1>4, <1>5 DEF FramesOK
<1> QED BY <1>1, <1>2, <1>3, <1>6 DEF a

----------------------------------------------------------------------------
(* No frame serves two purposes *)

\* The whole frames of available regions that pmm_init does not keep back.
Usable ==
  {f \in Pfn : /\ f \notin Reserved
               /\ \E e \in avail : /\ e.type = 1 /\ e.base_addr <= f * PAGE_SIZE
                                   /\ (f + 1) * PAGE_SIZE <= e.base_addr + e.length}

FrameInv == FramesOK(mm, held, Usable)

\* pmm_init marks usable frames only, and vmm_init takes one of them.
LEMMA FrameInit ==
  ASSUME Init
  PROVE  FrameInv
<1> DEFINE p == pmm_init(avail)
           a == alloc_page(p)
<1>1. ASSUME NEW f \in p.bitmap PROVE f \in Usable
  <2>1. PICK e \in avail : f \in FramesOf(e)
    BY DEF pmm_init
  <2>2. e \in [base_addr : Nat, length : Nat, type : Nat]
    BY MemoryAssumption DEF Init
  <2>3. /\ e.type = 1 /\ f \in Pfn /\ f \in Nat /\ e.base_addr \in Nat /\ e.length \in Nat
        /\ ALIGN_UP(e.base_addr, PAGE_SIZE) \div PAGE_SIZE <= f
        /\ f < ALIGN_DOWN(e.base_addr + e.length, PAGE_SIZE) \div PAGE_SIZE
    BY <2>1, <2>2, PmmAssumption DEF FramesOf, Pfn
  <2>4. e.base_addr <= f * PAGE_SIZE
    <3> DEFINE n == (e.base_addr + PAGE_SIZE - 1) \div PAGE_SIZE
    <3>1. e.base_addr + PAGE_SIZE - 1 \in Nat
      BY <2>3, PmmAssumption
    <3>2. n \in Nat /\ e.base_addr + PAGE_SIZE - 1 < n * PAGE_SIZE + PAGE_SIZE
      BY <3>1, PageDivision
    <3>3. n <= f
      <4>1. ALIGN_UP(e.base_addr, PAGE_SIZE) = n * PAGE_SIZE
        BY DEF ALIGN_UP
      <4> HIDE DEF n
      <4>2. (n * PAGE_SIZE) \div PAGE_SIZE = n
        BY <3>2, PageOfMultiple
      <4> QED BY <2>3, <4>1, <4>2
    <3> HIDE DEF n
    <3>4. n * PAGE_SIZE <= f * PAGE_SIZE
      BY <2>3, <3>2, <3>3, PmmAssumption
    <3>5. PAGE_SIZE \in Nat /\ n * PAGE_SIZE \in Nat /\ f * PAGE_SIZE \in Nat
      BY <2>3, <3>2, PmmAssumption
    <3> QED BY <2>3, <3>2, <3>4, <3>5
  <2>5. (f + 1) * PAGE_SIZE <= e.base_addr + e.length
    <3> DEFINE x == e.base_addr + e.length
               n == x \div PAGE_SIZE
    <3>1. x \in Nat /\ n \in Nat /\ n * PAGE_SIZE <= x
      BY <2>3, PageDivision
    <3>2. f < n
      <4>1. ALIGN_DOWN(x, PAGE_SIZE) = n * PAGE_SIZE
        BY DEF ALIGN_DOWN
      <4> HIDE DEF n
      <4>2. (n * PAGE_SIZE) \div PAGE_SIZE = n
        BY <3>1, PageOfMultiple
      <4> QED BY <2>3, <4>1, <4>2
    <3> HIDE DEF n
    <3>3. (f + 1) * PAGE_SIZE <= n * PAGE_SIZE
      BY <2>3, <3>1, <3>2, PmmAssumption
    <3>4. (f + 1) * PAGE_SIZE \in Nat /\ n * PAGE_SIZE \in Nat
      BY <2>3, <3>1, PmmAssumption
    <3> QED BY <3>1, <3>3, <3>4
  <2>6. f \notin Reserved
    BY DEF pmm_init
  <2> QED BY <2>3, <2>4, <2>5, <2>6 DEF Usable
<1>2. p.bitmap \in SUBSET Pfn /\ ~p.panic
  <2>1. \A e \in avail : FramesOf(e) \subseteq Pfn
    BY DEF FramesOf
  <2> QED BY <2>1 DEF pmm_init
<1>3. CASE p.bitmap = {}
  <2>1. /\ a.panic = TRUE /\ a.bitmap = {}
    BY <1>2, <1>3 DEF alloc_page, pmm_init
  <2> HIDE DEF a
  <2>2. /\ mm.root = NULL /\ mm.bitmap = {} /\ held = {} /\ MmType(mm)
        /\ \A t \in Tables : mm.table[t] = NULL
        /\ \A v \in VPage : mm.pte[v] = NULL
    BY <2>1 DEF Init, vmm_init, MmType, Frame, Tables, a
  <2> QED BY <2>2 DEF FrameInv, FramesOK, Exclusive, InUse
<1>4. CASE p.bitmap # {}
  <2> DEFINE f == FirstFree(p)
  <2>0. Pfn \subseteq Nat
    BY PmmAssumption DEF Pfn
  <2>1. f \in p.bitmap
    BY <1>2, <1>4, <2>0, LeastElement DEF FirstFree
  <2>2. a.panic = FALSE /\ a.bitmap = p.bitmap \ {f}
    BY <1>2, <1>4 DEF alloc_page, pmm_init
  <2> HIDE DEF a
  <2>3. /\ mm.root = f /\ mm.bitmap = p.bitmap \ {f} /\ held = {} /\ MmType(mm)
        /\ \A t \in Tables : mm.table[t] = NULL
        /\ \A v \in VPage : mm.pte[v] = NULL
    <3> HIDE DEF p
    <3> QED BY <1>2, <2>1, <2>2 DEF Init, vmm_init, MmType, Frame, Tables, a, p
  <2> HIDE DEF f, p
  <2>4. f # NULL /\ f \in Pfn
    BY <1>2, <2>1, VmmAssumption
  <2>5. InUse(mm, held) = {f}
    BY <2>3, <2>4 DEF InUse
  <2> QED BY <1>1, <2>1, <2>3, <2>4, <2>5 DEF FrameInv, FramesOK, Exclusive
<1> QED BY <1>3, <1>4

\* Every call keeps the frames apart.
LEMMA FrameStep ==
  ASSUME FrameInv, [Next]_vars
  PROVE  FrameInv'
<1>0. FramesOK(mm, held, Usable)
  BY DEF FrameInv
<1>1. ASSUME avail' = avail, FramesOK(mm', held', Usable) PROVE FrameInv'
  <2>1. Usable' = Usable
    BY <1>1 DEF Usable
  <2> QED BY <1>1, <2>1 DEF FrameInv
<1>2. CASE UNCHANGED <<avail, mm, held>>
  BY <1>0, <1>1, <1>2
<1>3. CASE heap_expand
  <2> DEFINE m == alloc_and_map(mm, call.va)
  <2>1. FramesOK(m, held, Usable)
    BY <1>0, <1>3, MapExclusive DEF heap_expand
  <2>2. /\ UNCHANGED <<avail, held>>
        /\ mm' = m \/ mm' = [m EXCEPT !.panic = (heap_brk' > HeapTop)]
    BY <1>3 DEF heap_expand
  <2> HIDE DEF m
  <2>3. (heap_brk' > HeapTop) \in BOOLEAN
    OBVIOUS
  <2>4. FramesOK([m EXCEPT !.panic = (heap_brk' > HeapTop)], held, Usable)
    BY <2>1, <2>3, PanicKeeps
  <2> QED BY <1>1, <2>1, <2>2, <2>4
<1>4. CASE map_user_page
  <2>1. mm' = alloc_and_map(mm, call.va) /\ UNCHANGED <<avail, held>> /\ ~mm.panic
    BY <1>4 DEF map_user_page
  <2> QED BY <1>0, <1>1, <2>1, MapExclusive
<1>5. ASSUME NEW v \in MmapAt, unmap_user_page(v) PROVE FrameInv'
  <2>1. mm' = unmap_page(mm, v) /\ UNCHANGED <<avail, held>> /\ v \in VPage
    BY <1>5, MemoryAssumption DEF unmap_user_page
  <2> QED BY <1>0, <1>1, <2>1, UnmapExclusive
<1>6. CASE take_page
  <2>1. /\ mm' = alloc_page(mm) /\ ~mm.panic /\ avail' = avail
        /\ held' = IF mm.bitmap = {} THEN held ELSE held \cup {FirstFree(mm)}
    BY <1>6 DEF take_page, Ready
  <2>2. CASE mm.bitmap = {}
    <3>1. mm' = [mm EXCEPT !.panic = TRUE]
      BY <2>1, <2>2 DEF alloc_page
    <3>2. TRUE \in BOOLEAN
      OBVIOUS
    <3>3. FramesOK([mm EXCEPT !.panic = TRUE], held, Usable)
      BY <1>0, <3>2, PanicKeeps, Zenon
    <3> QED BY <1>1, <2>1, <2>2, <3>1, <3>3
  <2>3. CASE mm.bitmap # {}
    BY <1>0, <1>1, <2>1, <2>3, AllocExclusive
  <2> QED BY <2>2, <2>3
<1>7. ASSUME NEW addr \in GiveAddrs, give_page(addr) PROVE FrameInv'
  <2>1. addr \in Nat
    BY <1>0, PmmAssumption DEF GiveAddrs, FramesOK, Pfn
  <2>2. /\ addr \div PAGE_SIZE \in held \cup mm.bitmap \/ addr \div PAGE_SIZE \notin Pfn
        /\ mm' = free_page(mm, addr) /\ avail' = avail
        /\ held' = IF addr % PAGE_SIZE = 0 THEN held \ {addr \div PAGE_SIZE} ELSE held
    BY <1>7 DEF give_page
  <2> QED BY <1>0, <1>1, <2>1, <2>2, FreeExclusive
<1>8. ASSUME NEW req \in Sizes, kmalloc(req) PROVE UNCHANGED <<avail, mm, held>>
  BY <1>8 DEF kmalloc, kmalloc_for
<1>9. ASSUME NEW ptr, kfree(ptr) PROVE UNCHANGED <<avail, mm, held>>
  BY <1>9 DEF kfree
<1>10. ASSUME NEW ptr, NEW req \in Sizes, krealloc(ptr, req) PROVE UNCHANGED <<avail, mm, held>>
  BY <1>10 DEF krealloc, kfree, kmalloc_for
<1>11. ASSUME NEW d, sys_brk(d) PROVE UNCHANGED <<avail, mm, held>>
  BY <1>11 DEF sys_brk
<1>12. ASSUME NEW pages, sys_mmap(pages) PROVE UNCHANGED <<avail, mm, held>>
  BY <1>12 DEF sys_mmap
<1>13. ASSUME NEW v, NEW pages, sys_mmap_at(v, pages) PROVE UNCHANGED <<avail, mm, held>>
  BY <1>13 DEF sys_mmap_at
<1>14. CASE kmalloc_retry \/ user_return \/ UNCHANGED vars
  BY <1>2, <1>14 DEF kmalloc_retry, user_return, vars
<1> QED
  BY <1>2, <1>3, <1>4, <1>5, <1>6, <1>7, <1>8, <1>9, <1>10, <1>11, <1>12, <1>13, <1>14 DEF Next

\* What FramesOK says of the uses of frames.
LEMMA UsesApart ==
  ASSUME FrameInv
  PROVE  FramesExclusive
<1>1. /\ Exclusive(mm, held) /\ MmType(mm) /\ held \in SUBSET Pfn /\ NULL \notin held
      /\ mm.bitmap \cap InUse(mm, held) = {}
      /\ mm.bitmap \cup InUse(mm, held) \subseteq Usable
  BY VmmAssumption DEF FrameInv, FramesOK
<1>2. ASSUME NEW t \in Table PROVE t[1] \notin {"root", "held", "page"}
  BY DEF Table, PDPT, PD, PT
<1>3. ASSUME NEW u \in Uses
      PROVE  \/ u = <<"root", 0>> /\ FrameOf(u) = mm.root /\ mm.root # NULL
             \/ \E f \in held : u = <<"held", f>> /\ FrameOf(u) = f
             \/ u \in Tables /\ mm.table[u] # NULL /\ FrameOf(u) = mm.table[u]
             \/ \E v \in VPage : u = <<"page", v>> /\ mm.pte[v] # NULL /\ FrameOf(u) = mm.pte[v]
  <2>1. CASE u = <<"root", 0>> /\ mm.root # NULL
    BY <2>1 DEF FrameOf
  <2>2. ASSUME NEW f \in held, u = <<"held", f>> PROVE FrameOf(u) = f
    BY <2>2 DEF FrameOf
  <2>3. ASSUME u \in Tables, mm.table[u] # NULL PROVE FrameOf(u) = mm.table[u]
    BY <1>2, <2>3 DEF FrameOf, Tables
  <2>4. ASSUME NEW v \in VPage, u = <<"page", v>> PROVE FrameOf(u) = mm.pte[v]
    BY <2>4 DEF FrameOf
  <2> QED BY <2>1, <2>2, <2>3, <2>4 DEF Uses, Tables
<1>4. ASSUME NEW u \in Uses PROVE FrameOf(u) \in InUse(mm, held)
  BY <1>1, <1>3 DEF InUse
<1>5. ASSUME NEW u \in Uses, NEW w \in Uses, FrameOf(u) = FrameOf(w) PROVE u = w
  BY <1>1, <1>3, <1>5 DEF Exclusive
<1> QED BY <1>1, <1>4, <1>5 DEF FramesExclusive, Usable

(***************************************************************************)
(* No frame serves two purposes: whatever sequence of allocations, frees,  *)
(* mappings and out-of-memory panics, kernel_pml4, the page tables, the    *)
(* mapped pages and the pages callers hold are different frames, none of   *)
(* them free and all of them whole frames of available memory outside the  *)
(* kernel's own.                                                           *)
(***************************************************************************)
THEOREM FramesExclusiveHolds == Spec => []FramesExclusive
<1>1. Init => FrameInv
  BY FrameInit
<1>2. FrameInv /\ [Next]_vars => FrameInv'
  BY FrameStep
<1>3. FrameInv => FramesExclusive
  BY UsesApart
<1> QED BY <1>1, <1>2, <1>3, PTL DEF Spec

----------------------------------------------------------------------------
(* The heap and the user's memory are backed *)

IsCall(c) ==
  c \in [op : {"none", "kmalloc", "user"}, va : Int, left : Int, arg : Nat, ptr : {c.ptr}]

\* The pages of P can all be reached in the page table of m.
Backed(m, P) == \A v \in P : v \in VPage /\ Reaches(m, v)

(***************************************************************************)
(* The heap ends on a page boundary and is backed up to there.             *)
(***************************************************************************)
HeapBacked ==
  /\ heap_brk \in Nat /\ PageOf(heap_brk) * PAGE_SIZE = heap_brk /\ PageOf(heap_brk) >= HeapPage
  /\ call.op = "kmalloc" => call.va = PageOf(heap_brk)
  /\ ~mm.panic => /\ heap_brk <= HeapTop
                  /\ Backed(mm, HeapPage .. (PageOf(heap_brk) - 1))

(***************************************************************************)
(* The user's memory is backed up to user_brk, and a call that moves       *)
(* user_brk has backed what lies between it and the page it has come to.   *)
(***************************************************************************)
UserBacked ==
  /\ user_brk \in Nat
  /\ ~mm.panic => Backed(mm, UserBase .. (PagesIn(user_brk) - 1))
  /\ call.op = "user" =>
       \/ call.arg = user_brk
       \/ /\ call.va + call.left = PagesIn(call.arg) /\ PagesIn(user_brk) <= call.va
          /\ (call.va .. (call.va + call.left - 1)) \subseteq VPage
          /\ ~mm.panic => Backed(mm, PagesIn(user_brk) .. (call.va - 1))

BackInv == IsCall(call) /\ HeapBacked /\ UserBacked

\* Pages stay backed when the page table keeps what it has.
LEMMA BackedKept ==
  ASSUME NEW m, NEW a, Keeps(m, a), NEW P, Backed(m, P)
  PROVE  Backed(a, P)
<1>1. ASSUME NEW v \in P PROVE Reaches(a, v)
  <2>1. v \in VPage /\ Reaches(m, v)
    BY <1>1 DEF Backed
  <2>2. PDPT(v) \in Table /\ PD(v) \in Table /\ PT(v) \in Table
    BY <2>1 DEF Table
  <2> QED BY <2>1, <2>2 DEF Keeps, Reaches
<1> QED BY <1>1 DEF Backed

\* The number of pages that a size or an address comes to.
LEMMA PagesInType ==
  ASSUME NEW x \in Nat
  PROVE  PagesIn(x) \in Nat /\ PageOf(x) \in Nat /\ PageOf(x) <= PagesIn(x)
<1> DEFINE y == x + PAGE_SIZE - 1
           n == y \div PAGE_SIZE
           k == x \div PAGE_SIZE
<1>0. PAGE_SIZE \in Nat /\ PAGE_SIZE > 0 /\ y \in Nat
  BY PmmAssumption
<1>1. n \in Nat /\ y < n * PAGE_SIZE + PAGE_SIZE
  BY <1>0, PageDivision
<1>2. k \in Nat /\ k * PAGE_SIZE <= x
  BY PageDivision
<1>3. PagesIn(x) = n
  <2>1. PagesIn(x) = (n * PAGE_SIZE) \div PAGE_SIZE
    BY DEF PagesIn, ALIGN_UP
  <2> QED BY <1>1, <2>1, PageOfMultiple
<1> HIDE DEF n, k
<1>4. k <= n
  <2>1. SUFFICES ASSUME n < k PROVE FALSE
    BY <1>1, <1>2
  <2>2. (n + 1) * PAGE_SIZE <= k * PAGE_SIZE
    BY <1>0, <1>1, <1>2, <2>1
  <2>3. (n + 1) * PAGE_SIZE = n * PAGE_SIZE + PAGE_SIZE /\ n * PAGE_SIZE \in Nat /\ k * PAGE_SIZE \in Nat
    BY <1>0, <1>1, <1>2
  <2> QED BY <1>0, <1>1, <1>2, <2>2, <2>3
<1> QED BY <1>1, <1>2, <1>3, <1>4 DEF PageOf, k

\* ... and that of a whole number of pages.
LEMMA PagesInMultiple ==
  ASSUME NEW n \in Nat
  PROVE  PagesIn(n * PAGE_SIZE) = n /\ PageOf(n * PAGE_SIZE) = n
<1>1. (n * PAGE_SIZE) \div PAGE_SIZE = n /\ (n * PAGE_SIZE + PAGE_SIZE - 1) \div PAGE_SIZE = n
  BY PageOfMultiple
<1> QED BY <1>1 DEF PagesIn, PageOf, ALIGN_UP

\* A call to heap_expand that begins at the end of the heap.
Expands(c) == IsCall(c) /\ c.op = "kmalloc" /\ c.va = PageOf(heap_brk)

\* kmalloc ends, or goes to heap_expand.
LEMMA SearchCall ==
  ASSUME NEW b, NEW req \in Nat, NEW ptr, heap_brk \in Nat, search(b, req, ptr)
  PROVE  call' = NoCall \/ Expands(call')
<1> DEFINE size == ALIGN_UP(req, ALIGN)
<1>1. size \in Nat /\ HDR \in Nat
  BY KHeapAssumption DEF ALIGN_UP
<1>2. PagesIn(size + HDR) \in Nat /\ PageOf(heap_brk) \in Nat
  BY <1>1, PagesInType
<1>3. \/ call' = NoCall
      \/ call' = [op |-> "kmalloc", va |-> PageOf(heap_brk), left |-> PagesIn(size + HDR),
                  arg |-> req, ptr |-> ptr]
  BY DEF search
<1> HIDE DEF size
<1> QED BY <1>2, <1>3 DEF Expands, IsCall

\* A step that unmaps nothing and moves neither end of memory.
LEMMA BackedStays ==
  ASSUME BackInv, Keeps(mm, mm'), mm.panic => mm'.panic, UNCHANGED <<heap_brk, user_brk>>,
         call' = call \/ call' = NoCall \/ Expands(call')
  PROVE  BackInv'
<1>1. ASSUME NEW P, ~mm.panic => Backed(mm, P) PROVE ~mm'.panic => Backed(mm', P)
  BY <1>1, BackedKept
<1>2. IsCall(call') /\ (call'.op = "user" => call' = call)
  BY DEF BackInv, IsCall, NoCall, Expands
<1>3. call'.op = "kmalloc" => call'.va = PageOf(heap_brk)
  BY DEF BackInv, HeapBacked, NoCall, Expands
<1>4. HeapBacked'
  <2>1. ~mm'.panic => Backed(mm', HeapPage .. (PageOf(heap_brk) - 1))
    BY <1>1 DEF BackInv, HeapBacked
  <2> QED BY <1>3, <2>1 DEF BackInv, HeapBacked, PageOf
<1>5. UserBacked'
  <2>1. ~mm'.panic => Backed(mm', UserBase .. (PagesIn(user_brk) - 1))
    BY <1>1 DEF BackInv, UserBacked
  <2>2. CASE call'.op = "user"
    <3>1. (~mm.panic => Backed(mm, PagesIn(user_brk) .. (call.va - 1)))
            => (~mm'.panic => Backed(mm', PagesIn(user_brk) .. (call.va - 1)))
      BY <1>1
    <3> QED BY <1>2, <2>1, <2>2, <3>1 DEF BackInv, UserBacked, PagesIn, ALIGN_UP
  <2>3. CASE call'.op # "user"
    BY <2>1, <2>3 DEF BackInv, UserBacked, PagesIn, ALIGN_UP
  <2> QED BY <2>2, <2>3
<1> QED BY <1>2, <1>4, <1>5 DEF BackInv

\* A call that has mapped one more page.
LEMMA NextPage ==
  ASSUME NEW c, IsCall(c)
  PROVE  LET d == [c EXCEPT !.va = c.va + 1, !.left = c.left - 1]
         IN  IsCall(d) /\ d.op = c.op /\ d.va = c.va + 1 /\ d.left = c.left - 1 /\ d.arg = c.arg
<1> DEFINE d == [c EXCEPT !.va = c.va + 1, !.left = c.left - 1]
<1>1. /\ d.op = c.op /\ d.va = c.va + 1 /\ d.left = c.left - 1 /\ d.arg = c.arg /\ d.ptr = c.ptr
      /\ c.va \in Int /\ c.left \in Int
  BY DEF IsCall
<1>2. d \in [op : {"none", "kmalloc", "user"}, va : Int, left : Int, arg : Nat, ptr : {c.ptr}]
  <2> DEFINE X == {c.ptr}
  <2>1. c \in [op : {"none", "kmalloc", "user"}, va : Int, left : Int, arg : Nat, ptr : X]
    BY DEF IsCall
  <2> DEFINE Y == {"none", "kmalloc", "user"}
  <2> HIDE DEF X, Y
  <2>2. c \in [op : Y, va : Int, left : Int, arg : Nat, ptr : X]
    BY <2>1 DEF Y
  <2>3. c.va + 1 \in Int /\ c.left - 1 \in Int
    BY <1>1
  <2>4. \A i, j \in Int : [c EXCEPT !.va = i, !.left = j] \in [op : Y, va : Int, left : Int, arg : Nat, ptr : X]
    BY <2>2
  <2>5. d \in [op : Y, va : Int, left : Int, arg : Nat, ptr : X]
    BY <2>3, <2>4
  <2> QED BY <2>5 DEF X, Y
<1> HIDE DEF d
<1> QED BY <1>1, <1>2 DEF d, IsCall

\* A round of heap_expand backs the page at the end of the heap, then moves it.
LEMMA HeapExpandBacks ==
  ASSUME FrameInv, BackInv, heap_expand
  PROVE  BackInv'
<1> DEFINE m == alloc_and_map(mm, call.va)
           k == PageOf(heap_brk)
<1>0. /\ FramesOK(mm, held, Usable) /\ ~mm.panic /\ call.op = "kmalloc" /\ user_brk' = user_brk
      /\ IsCall(call) /\ call.va = k /\ heap_brk \in Nat /\ k \in Nat /\ k * PAGE_SIZE = heap_brk
      /\ k >= HeapPage /\ heap_brk <= HeapTop /\ Backed(mm, HeapPage .. (k - 1))
  BY PagesInType DEF heap_expand, FrameInv, BackInv, HeapBacked
<1>1. FramesOK(m, held, Usable) /\ Keeps(mm, m) /\ (k \in VPage /\ ~m.panic => Reaches(m, k))
  BY <1>0, MapExclusive
<1>2. CASE m.panic
  <2>1. mm' = m /\ UNCHANGED <<heap_brk, call>>
    BY <1>2 DEF heap_expand
  <2> QED BY <1>0, <1>1, <2>1, BackedStays
<1>3. CASE ~m.panic
  <2>1. /\ heap_brk' = heap_brk + PAGE_SIZE
        /\ mm' = [m EXCEPT !.panic = (heap_brk' > HeapTop)]
        /\ call' = [call EXCEPT !.va = call.va + 1, !.left = call.left - 1]
    BY <1>3 DEF heap_expand
  <2> HIDE DEF m
  <2>2. mm'.table = m.table /\ mm'.pte = m.pte /\ mm'.panic = (heap_brk' > HeapTop)
    BY <1>1, <2>1 DEF FramesOK, MmType
  <2>3. k \in VPage
    <3>1. k <= (HEAP_START + HEAP_MAX) \div PAGE_SIZE
      <4> DEFINE x == HEAP_START + HEAP_MAX
                 n == x \div PAGE_SIZE
      <4>1. x \in Nat /\ PAGE_SIZE \in Nat /\ PAGE_SIZE > 0
        BY PmmAssumption, KHeapAssumption DEF HEAP_START
      <4>2. n \in Nat /\ x < n * PAGE_SIZE + PAGE_SIZE
        BY <4>1, PageDivision
      <4>3. k * PAGE_SIZE <= x
        BY <1>0 DEF HeapTop
      <4> HIDE DEF k, x, n
      <4>4. k <= n
        <5>1. SUFFICES ASSUME n < k PROVE FALSE
          BY <1>0, <4>2
        <5>2. (n + 1) * PAGE_SIZE <= k * PAGE_SIZE
          BY <1>0, <4>1, <4>2, <5>1
        <5>3. (n + 1) * PAGE_SIZE = n * PAGE_SIZE + PAGE_SIZE /\ n * PAGE_SIZE \in Nat /\ k * PAGE_SIZE \in Nat
          BY <1>0, <4>1, <4>2
        <5> QED BY <4>1, <4>2, <4>3, <5>2, <5>3
      <4> QED BY <4>4 DEF x, n
    <3> HIDE DEF k
    <3>2. HeapPage \in Nat /\ (HEAP_START + HEAP_MAX) \div PAGE_SIZE \in Nat
      BY PmmAssumption, KHeapAssumption DEF HEAP_START
    <3> QED BY <1>0, <3>1, <3>2, MemoryAssumption
  <2>4. Keeps(mm, mm') /\ Reaches(mm', k)
    BY <1>1, <1>3, <2>2, <2>3 DEF Keeps, Reaches
  <2>5. heap_brk' = (k + 1) * PAGE_SIZE /\ heap_brk' \in Nat
    BY <1>0, <2>1, PmmAssumption
  <2>6. PageOf(heap_brk') = k + 1
    BY <1>0, <2>5, PagesInMultiple
  <2> HIDE DEF k
  <2>7. Backed(mm', HeapPage .. (PageOf(heap_brk') - 1))
    <3>1. Backed(mm', HeapPage .. (k - 1))
      BY <1>0, <2>4, BackedKept
    <3>2. \A v \in HeapPage .. (PageOf(heap_brk') - 1) : v \in HeapPage .. (k - 1) \/ v = k
      BY <1>0, <2>6, KHeapAssumption
    <3> QED BY <2>3, <2>4, <3>1, <3>2 DEF Backed
  <2>8. IsCall(call') /\ call'.op = "kmalloc" /\ call'.va = k + 1
    BY <1>0, <2>1, NextPage
  <2>9. HeapBacked'
    <3>1. ~mm'.panic => heap_brk' <= HeapTop
      <4>1. HeapTop \in Nat
        BY PmmAssumption, KHeapAssumption DEF HeapTop, HEAP_START
      <4>2. CASE heap_brk' > HeapTop
        <5>1. (heap_brk' > HeapTop) = TRUE
          BY <4>2
        <5> QED BY <2>2, <5>1
      <4>3. CASE ~(heap_brk' > HeapTop)
        BY <2>5, <4>1, <4>3
      <4> QED BY <4>2, <4>3
    <3>2. PageOf(heap_brk') * PAGE_SIZE = heap_brk' /\ PageOf(heap_brk') >= HeapPage
      BY <1>0, <2>5, <2>6, KHeapAssumption
    <3>3. Backed(mm', HeapPage .. (PageOf(heap_brk') - 1))
      BY <2>7
    <3>4. heap_brk' \in Nat /\ call'.va = PageOf(heap_brk')
      BY <2>5, <2>6, <2>8
    <3> QED BY <3>1, <3>2, <3>3, <3>4 DEF HeapBacked, PageOf, HeapTop
  <2>10. UserBacked'
    <3>1. Backed(mm, UserBase .. (PagesIn(user_brk) - 1)) /\ user_brk \in Nat
      BY <1>0 DEF BackInv, UserBacked
    <3>2. Backed(mm', UserBase .. (PagesIn(user_brk) - 1))
      BY <2>4, <3>1, BackedKept
    <3> QED BY <1>0, <2>8, <3>1, <3>2 DEF UserBacked, PagesIn, ALIGN_UP
  <2> QED BY <2>8, <2>9, <2>10 DEF BackInv
<1> QED BY <1>2, <1>3

\* A round of sys_brk or sys_mmap backs the next page.
LEMMA MapUserBacks ==
  ASSUME FrameInv, BackInv, map_user_page
  PROVE  BackInv'
<1>0. /\ FramesOK(mm, held, Usable) /\ ~mm.panic /\ call.op = "user" /\ call.left > 0
      /\ IsCall(call) /\ UNCHANGED <<heap_brk, user_brk>> /\ mm' = alloc_and_map(mm, call.va)
      /\ call' = [call EXCEPT !.va = call.va + 1, !.left = call.left - 1]
  BY DEF map_user_page, FrameInv, BackInv
<1>1. Keeps(mm, mm') /\ (call.va \in VPage /\ ~mm'.panic => Reaches(mm', call.va))
  BY <1>0, MapExclusive
<1>2. /\ IsCall(call') /\ call'.op = "user" /\ call'.va = call.va + 1
      /\ call'.left = call.left - 1 /\ call'.arg = call.arg /\ call.va \in Int /\ call.left \in Int
  BY <1>0, NextPage DEF IsCall
<1>3. HeapBacked'
  <2>1. Backed(mm', HeapPage .. (PageOf(heap_brk) - 1))
    BY <1>0, <1>1, BackedKept DEF BackInv, HeapBacked
  <2> QED BY <1>0, <1>2, <2>1 DEF BackInv, HeapBacked, PageOf
<1>4. user_brk \in Nat /\ Backed(mm', UserBase .. (PagesIn(user_brk) - 1))
  BY <1>0, <1>1, BackedKept DEF BackInv, UserBacked
<1>5. PagesIn(user_brk') = PagesIn(user_brk) /\ PagesIn(call'.arg) = PagesIn(call.arg)
      /\ PagesIn(user_brk) \in Nat
  BY <1>0, <1>2, <1>4, PagesInType
<1>6. CASE call.arg = user_brk
  BY <1>0, <1>2, <1>3, <1>4, <1>5, <1>6 DEF BackInv, UserBacked, PagesIn, ALIGN_UP
<1>7. CASE /\ call.va + call.left = PagesIn(call.arg) /\ PagesIn(user_brk) <= call.va
           /\ (call.va .. (call.va + call.left - 1)) \subseteq VPage
           /\ Backed(mm, PagesIn(user_brk) .. (call.va - 1))
  <2>1. call.va \in VPage
    BY <1>0, <1>2, <1>7
  <2>2. Backed(mm', PagesIn(user_brk) .. (call.va - 1))
    BY <1>1, <1>7, BackedKept
  <2>3. ~mm'.panic => Backed(mm', PagesIn(user_brk) .. (call.va + 1 - 1))
    BY <1>1, <1>2, <1>5, <2>1, <2>2 DEF Backed
  <2>4. /\ call'.va + call'.left = PagesIn(call'.arg) /\ PagesIn(user_brk') <= call'.va
        /\ (call'.va .. (call'.va + call'.left - 1)) \subseteq VPage
        /\ ~mm'.panic => Backed(mm', PagesIn(user_brk') .. (call'.va - 1))
    BY <1>2, <1>5, <1>7, <2>3
  <2>5. UserBacked'
    BY <1>0, <1>4, <1>5, <2>4 DEF UserBacked, PagesIn, ALIGN_UP
  <2> QED BY <1>2, <1>3, <2>5 DEF BackInv
<1> QED BY <1>0, <1>6, <1>7 DEF BackInv, UserBacked

\* A user call begins: it has everything still to map.
LEMMA UserCallBacks ==
  ASSUME BackInv, UNCHANGED <<mm, heap_brk, user_brk>>, IsCall(call'), call'.op = "user",
         \/ call'.arg = user_brk
         \/ /\ call'.va + call'.left = PagesIn(call'.arg) /\ PagesIn(user_brk) = call'.va
            /\ (call'.va .. (call'.va + call'.left - 1)) \subseteq VPage
  PROVE  BackInv'
<1>1. HeapBacked'
  BY DEF BackInv, HeapBacked, PageOf
<1>2. PagesIn(user_brk) \in Nat /\ PagesIn(user_brk') = PagesIn(user_brk)
  BY PagesInType DEF BackInv, UserBacked
<1>3. /\ user_brk' \in Nat
      /\ ~mm'.panic => Backed(mm', UserBase .. (PagesIn(user_brk') - 1))
  BY DEF BackInv, UserBacked
<1>4. PagesIn(user_brk) = call'.va => Backed(mm', PagesIn(user_brk') .. (call'.va - 1))
  BY <1>2 DEF Backed
<1>5. UserBacked'
  <2>1. CASE call'.arg = user_brk
    BY <1>3, <2>1 DEF UserBacked, PagesIn, ALIGN_UP
  <2>2. CASE /\ call'.va + call'.left = PagesIn(call'.arg) /\ PagesIn(user_brk) = call'.va
             /\ (call'.va .. (call'.va + call'.left - 1)) \subseteq VPage
    <3>1. PagesIn(user_brk') <= call'.va
      BY <1>2, <2>2
    <3> QED BY <1>3, <1>4, <2>2, <3>1 DEF UserBacked, PagesIn, ALIGN_UP
  <2> QED BY <2>1, <2>2
<1> QED BY <1>1, <1>5 DEF BackInv

\* The calls of user space.
LEMMA UserStartBacks ==
  ASSUME BackInv,
         \/ \E d \in BrkSteps : sys_brk(user_brk + d)
         \/ \E pages \in MmapPages : sys_mmap(pages)
         \/ \E v \in MmapAt, pages \in MmapPages : sys_mmap_at(v, pages)
  PROVE  BackInv'
<1>0. user_brk \in Nat /\ PagesIn(user_brk) \in Nat /\ PageOf(user_brk) \in Nat
      /\ PageOf(user_brk) <= PagesIn(user_brk)
  BY PagesInType DEF BackInv, UserBacked
<1>1. ASSUME NEW d \in BrkSteps, sys_brk(user_brk + d) PROVE BackInv'
  <2> DEFINE new == user_brk + d
  <2>1. new \in Nat /\ PagesIn(new) \in Nat
    BY <1>0, PagesInType, MemoryAssumption
  <2>2. /\ (PageOf(user_brk) .. PagesIn(new)) \subseteq VPage
        /\ call' = [op |-> "user", va |-> PagesIn(user_brk),
                    left |-> PagesIn(new) - PagesIn(user_brk), arg |-> new, ptr |-> NULL]
        /\ UNCHANGED <<mm, heap_brk, user_brk>>
    BY <1>1 DEF sys_brk
  <2> HIDE DEF new
  <2>3. IsCall(call') /\ call'.op = "user"
    BY <1>0, <2>1, <2>2 DEF IsCall
  <2>4. /\ call'.va + call'.left = PagesIn(call'.arg) /\ PagesIn(user_brk) = call'.va
        /\ (call'.va .. (call'.va + call'.left - 1)) \subseteq VPage
    <3>1. /\ call'.va = PagesIn(user_brk) /\ call'.left = PagesIn(new) - PagesIn(user_brk)
          /\ call'.arg = new
      BY <2>2
    <3>2. \A v \in PagesIn(user_brk) .. (PagesIn(new) - 1) : v \in PageOf(user_brk) .. PagesIn(new)
      BY <1>0, <2>1
    <3> QED BY <1>0, <2>1, <2>2, <3>1, <3>2
  <2> QED BY <2>2, <2>3, <2>4, UserCallBacks
<1>2. ASSUME NEW pages \in MmapPages, sys_mmap(pages) PROVE BackInv'
  <2> DEFINE v == PagesIn(user_brk)
             n == v + pages
  <2>1. n \in Nat /\ pages \in Nat /\ n * PAGE_SIZE \in Nat /\ PagesIn(n * PAGE_SIZE) = n
    BY <1>0, PagesInMultiple, MemoryAssumption, PmmAssumption
  <2>2. /\ (v .. n) \subseteq VPage
        /\ call' = [op |-> "user", va |-> v, left |-> pages, arg |-> n * PAGE_SIZE, ptr |-> NULL]
        /\ UNCHANGED <<mm, heap_brk, user_brk>>
    BY <1>2 DEF sys_mmap
  <2>3. IsCall(call') /\ call'.op = "user"
    BY <1>0, <2>1, <2>2 DEF IsCall
  <2>4. /\ call'.va + call'.left = PagesIn(call'.arg) /\ PagesIn(user_brk) = call'.va
        /\ (call'.va .. (call'.va + call'.left - 1)) \subseteq VPage
    <3>1. call'.va = v /\ call'.left = pages /\ call'.arg = n * PAGE_SIZE
      BY <2>2
    <3>2. \A w \in v .. (v + pages - 1) : w \in v .. n
      BY <1>0, <2>1
    <3> QED BY <1>0, <2>1, <2>2, <3>1, <3>2
  <2> QED BY <2>2, <2>3, <2>4, UserCallBacks
<1>3. ASSUME NEW v \in MmapAt, NEW pages \in MmapPages, sys_mmap_at(v, pages) PROVE BackInv'
  <2>1. /\ call' = [op |-> "user", va |-> v, left |-> pages, arg |-> user_brk, ptr |-> NULL]
        /\ UNCHANGED <<mm, heap_brk, user_brk>> /\ v \in Nat /\ pages \in Nat
        /\ (v .. (v + pages - 1)) \subseteq VPage
    BY <1>3, MemoryAssumption, VmmAssumption DEF sys_mmap_at
  <2>2. /\ IsCall(call') /\ call'.op = "user" /\ call'.arg = user_brk
        /\ call'.va = v /\ call'.left = pages
    BY <1>0, <2>1 DEF IsCall
  <2> QED BY <2>1, <2>2, UserCallBacks
<1> QED BY <1>1, <1>2, <1>3

\* A user call returns: all that lies below the new user_brk is backed.
LEMMA UserReturnBacks ==
  ASSUME BackInv, user_return
  PROVE  BackInv'
<1>0. /\ ~mm.panic /\ call.op = "user" /\ call.left = 0 /\ user_brk' = call.arg /\ call' = NoCall
      /\ UNCHANGED <<mm, heap_brk>> /\ IsCall(call) /\ user_brk \in Nat /\ UserBase \in Nat
  BY MemoryAssumption DEF user_return, BackInv, UserBacked
<1>1. IsCall(call') /\ call'.op = "none"
  BY <1>0 DEF NoCall, IsCall
<1>2. HeapBacked'
  BY <1>0, <1>1 DEF BackInv, HeapBacked, PageOf
<1>3. call.arg \in Nat /\ PagesIn(call.arg) \in Nat /\ PagesIn(user_brk) \in Nat /\ call.va \in Int
  BY <1>0, PagesInType DEF IsCall
<1>4. Backed(mm, UserBase .. (PagesIn(user_brk) - 1))
  BY <1>0 DEF BackInv, UserBacked
<1>5. Backed(mm, UserBase .. (PagesIn(call.arg) - 1))
  <2>1. CASE call.arg = user_brk
    BY <1>4, <2>1
  <2>2. CASE /\ call.va + call.left = PagesIn(call.arg) /\ PagesIn(user_brk) <= call.va
             /\ Backed(mm, PagesIn(user_brk) .. (call.va - 1))
    <3>1. \A v \in UserBase .. (PagesIn(call.arg) - 1) :
            v \in UserBase .. (PagesIn(user_brk) - 1) \/ v \in PagesIn(user_brk) .. (call.va - 1)
      BY <1>0, <1>3, <2>2
    <3> QED BY <1>4, <2>2, <3>1 DEF Backed
  <2> QED BY <1>0, <2>1, <2>2 DEF BackInv, UserBacked
<1>6. UserBacked'
  <2>1. PagesIn(user_brk') = PagesIn(call.arg)
    BY <1>0
  <2>2. Backed(mm', UserBase .. (PagesIn(user_brk') - 1))
    BY <1>0, <1>5, <2>1
  <2> QED BY <1>0, <1>1, <1>3, <2>2 DEF UserBacked, PagesIn, ALIGN_UP
<1> QED BY <1>1, <1>2, <1>6 DEF BackInv

\* A page outside the heap and above user_brk is unmapped.
LEMMA UnmapBacks ==
  ASSUME FrameInv, BackInv, NEW v \in MmapAt, unmap_user_page(v)
  PROVE  BackInv'
<1>0. /\ FramesOK(mm, held, Usable) /\ call = NoCall /\ call' = call /\ UNCHANGED <<heap_brk, user_brk>>
      /\ mm' = unmap_page(mm, v) /\ v \in VPage /\ v \in Nat /\ PagesIn(user_brk) <= v /\ v < HeapPage
      /\ UserBase \in Nat /\ HeapPage \in Nat
  BY MemoryAssumption, VmmAssumption, KHeapAssumption DEF unmap_user_page, Ready, FrameInv
<1>1. /\ mm'.table = mm.table /\ mm'.panic = mm.panic
      /\ \A w \in VPage \ {v} : mm'.pte[w] = mm.pte[w]
  BY <1>0, UnmapExclusive
<1>2. ASSUME NEW P, v \notin P, Backed(mm, P) PROVE Backed(mm', P)
  BY <1>1, <1>2 DEF Backed, Reaches
<1>3. /\ heap_brk \in Nat /\ user_brk \in Nat /\ PagesIn(user_brk) \in Nat /\ PageOf(heap_brk) \in Nat
  BY PagesInType DEF BackInv, HeapBacked, UserBacked
<1>4. v \notin HeapPage .. (PageOf(heap_brk) - 1) /\ v \notin UserBase .. (PagesIn(user_brk) - 1)
  BY <1>0, <1>3
<1>5. ~mm.panic => /\ Backed(mm', HeapPage .. (PageOf(heap_brk) - 1))
                   /\ Backed(mm', UserBase .. (PagesIn(user_brk) - 1))
  BY <1>2, <1>4 DEF BackInv, HeapBacked, UserBacked
<1>6. HeapBacked'
  BY <1>0, <1>1, <1>5 DEF BackInv, HeapBacked, PageOf, HeapTop
<1>7. UserBacked'
  BY <1>0, <1>1, <1>3, <1>5 DEF UserBacked, NoCall, PagesIn, ALIGN_UP
<1> QED BY <1>0, <1>6, <1>7 DEF BackInv

\* Callers of alloc_page and free_page leave the page table alone.
LEMMA PagesBack ==
  ASSUME FrameInv, BackInv, take_page \/ \E addr \in GiveAddrs : give_page(addr)
  PROVE  BackInv'
<1>0. FramesOK(mm, held, Usable) /\ MmType(mm)
  BY DEF FrameInv, FramesOK
<1>1. CASE take_page
  <2>1. mm' = alloc_page(mm) /\ ~mm.panic /\ UNCHANGED <<heap_brk, user_brk, call>>
    BY <1>1 DEF take_page, Ready
  <2>2. mm'.table = mm.table /\ mm'.pte = mm.pte
    <3>1. CASE mm.bitmap = {}
      BY <1>0, <2>1, <3>1 DEF alloc_page, MmType
    <3>2. CASE mm.bitmap # {}
      BY <1>0, <2>1, <3>2, AllocPage
    <3> QED BY <3>1, <3>2
  <2> QED BY <2>1, <2>2, BackedStays DEF Keeps
<1>2. ASSUME NEW addr \in GiveAddrs, give_page(addr) PROVE BackInv'
  <2>1. addr \in Nat
    BY <1>0, PmmAssumption DEF GiveAddrs, FramesOK, Pfn
  <2>2. /\ addr \div PAGE_SIZE \in held \cup mm.bitmap \/ addr \div PAGE_SIZE \notin Pfn
        /\ mm' = free_page(mm, addr) /\ UNCHANGED <<heap_brk, user_brk, call>>
    BY <1>2 DEF give_page
  <2>3. mm'.table = mm.table /\ mm'.pte = mm.pte /\ mm'.panic = mm.panic
    BY <1>0, <2>1, <2>2, FreeExclusive
  <2> QED BY <2>2, <2>3, BackedStays DEF Keeps
<1> QED BY <1>1, <1>2

\* The calls of the kernel's heap map nothing themselves.
LEMMA HeapCallsBack ==
  ASSUME BackInv,
         \/ \E req \in Sizes : kmalloc(req)
         \/ \E ptr \in DOMAIN live : kfree(ptr) \/ \E req \in Sizes : krealloc(ptr, req)
         \/ kmalloc_retry
  PROVE  BackInv'
<1>0. heap_brk \in Nat /\ PageOf(heap_brk) \in Nat /\ IsCall(call) /\ call.arg \in Nat
  BY PagesInType DEF BackInv, HeapBacked, IsCall
<1>1. ASSUME NEW req \in Sizes, NEW ptr, kmalloc_for(req, ptr)
      PROVE  UNCHANGED <<mm, heap_brk, user_brk>> /\ (call' = NoCall \/ Expands(call'))
  <2>1. req \in Nat
    BY MemoryAssumption
  <2>2. CASE DOMAIN blk = {}
    <3>1. call' = [op |-> "kmalloc", va |-> PageOf(heap_brk), left |-> 1, arg |-> req, ptr |-> ptr]
      BY <1>1, <2>2 DEF kmalloc_for
    <3> QED BY <1>0, <1>1, <2>1, <3>1 DEF kmalloc_for, Expands, IsCall
  <2>3. CASE DOMAIN blk # {}
    <3>1. search(blk, req, ptr) /\ UNCHANGED <<mm, heap_brk, user_brk>>
      BY <1>1, <2>3 DEF kmalloc_for
    <3> QED BY <1>0, <2>1, <3>1, SearchCall
  <2> QED BY <2>2, <2>3
<1>2. ASSUME UNCHANGED <<mm, heap_brk, user_brk>>,
             call' = call \/ call' = NoCall \/ Expands(call')
      PROVE  BackInv'
  BY <1>2, BackedStays DEF Keeps
<1>3. ASSUME NEW req \in Sizes, kmalloc(req) PROVE BackInv'
  BY <1>1, <1>2, <1>3 DEF kmalloc
<1>4. ASSUME NEW ptr, kfree(ptr) PROVE BackInv'
  BY <1>2, <1>4 DEF kfree
<1>5. ASSUME NEW ptr, NEW req \in Sizes, krealloc(ptr, req) PROVE BackInv'
  BY <1>1, <1>2, <1>4, <1>5 DEF krealloc
<1>6. CASE kmalloc_retry
  <2> DEFINE pages == IF DOMAIN blk = {} THEN 1 ELSE PagesIn(ALIGN_UP(call.arg, ALIGN) + HDR)
             b == append(blk, heap_brk - pages * PAGE_SIZE, pages * PAGE_SIZE - HDR)
  <2>1. search(b, call.arg, call.ptr) /\ UNCHANGED <<mm, heap_brk, user_brk>>
    BY <1>6 DEF kmalloc_retry
  <2> HIDE DEF b
  <2>2. call' = NoCall \/ Expands(call')
    BY <1>0, <2>1, SearchCall
  <2> QED BY <1>2, <2>1, <2>2
<1> QED BY <1>3, <1>4, <1>5, <1>6

\* Every call keeps what is handed out backed.
LEMMA BackStep ==
  ASSUME FrameInv, BackInv, [Next]_vars
  PROVE  BackInv'
<1>1. CASE UNCHANGED vars
  BY <1>1, BackedStays DEF vars, Keeps
<1> QED
  BY <1>1, HeapCallsBack, HeapExpandBacks, UserStartBacks, MapUserBacks, UserReturnBacks,
     UnmapBacks, PagesBack DEF Next

\* Nothing is handed out at boot.
LEMMA BackInit ==
  ASSUME Init
  PROVE  BackInv
<1>0. HeapPage \in Nat /\ UserBase \in Nat /\ PAGE_SIZE \in Nat /\ HEAP_MAX \in Nat
  BY PmmAssumption, KHeapAssumption, MemoryAssumption
<1>1. PageOf(heap_brk) = HeapPage /\ heap_brk = HeapPage * PAGE_SIZE /\ heap_brk \in Nat
  BY <1>0, PagesInMultiple DEF Init, HEAP_START
<1>2. PagesIn(user_brk) = UserBase /\ user_brk \in Nat
  BY <1>0, PagesInMultiple DEF Init
<1>3. IsCall(call) /\ call.op = "none"
  BY DEF Init, NoCall, IsCall
<1>4. Backed(mm, HeapPage .. (HeapPage - 1)) /\ Backed(mm, UserBase .. (UserBase - 1))
  BY <1>0 DEF Backed
<1>5. heap_brk <= HeapTop
  BY <1>0, <1>1 DEF HeapTop, HEAP_START
<1> QED BY <1>0, <1>1, <1>2, <1>3, <1>4, <1>5 DEF BackInv, HeapBacked, UserBacked

(***************************************************************************)
(* Everything below heap_brk and below user_brk is mapped down to a frame, *)
(* whichever of the pages of a call ran out of memory: heap_brk moves with *)
(* each page, user_brk only after the last one.                            *)
(***************************************************************************)
THEOREM MemoryBackedHolds == Spec => []MemoryBacked
<1>1. Init => FrameInv /\ BackInv
  BY FrameInit, BackInit
<1>2. (FrameInv /\ BackInv) /\ [Next]_vars => (FrameInv /\ BackInv)'
  BY FrameStep, BackStep
<1>3. FrameInv /\ BackInv => MemoryBacked
  <2>1. PageOf(HEAP_START) = HeapPage
    BY PagesInMultiple, KHeapAssumption DEF HEAP_START
  <2> QED BY <2>1 DEF BackInv, HeapBacked, UserBacked, MemoryBacked, Backed, Reaches, Mapped
<1> QED BY <1>1, <1>2, <1>3, PTL DEF Spec

----------------------------------------------------------------------------
(* Alignment *)

\* Multiples of the alignment.
LEMMA Multiples ==
  ASSUME NEW A \in Nat \ {0}
  PROVE  /\ \A n \in Int : (n * A) % A = 0
         /\ \A x \in Int : x % A = 0 => x = (x \div A) * A /\ x \div A \in Int
OBVIOUS

\* Sums and differences of aligned numbers are aligned.
LEMMA SumAligned ==
  ASSUME NEW x \in Int, NEW y \in Int, x % ALIGN = 0, y % ALIGN = 0
  PROVE  (x + y) % ALIGN = 0 /\ (x - y) % ALIGN = 0
<1> DEFINE i == x \div ALIGN
           j == y \div ALIGN
<1>0. ALIGN \in Nat \ {0}
  BY KHeapAssumption
<1>1. x = i * ALIGN /\ y = j * ALIGN /\ i \in Int /\ j \in Int
  BY <1>0, Multiples
<1> HIDE DEF i, j
<1>2. x + y = (i + j) * ALIGN /\ x - y = (i - j) * ALIGN
  BY <1>0, <1>1
<1>3. ((i + j) * ALIGN) % ALIGN = 0 /\ ((i - j) * ALIGN) % ALIGN = 0
  BY <1>0, <1>1, Multiples
<1> QED BY <1>2, <1>3

\* A whole number of pages is aligned.
LEMMA PagesAligned ==
  ASSUME NEW n \in Int
  PROVE  n * PAGE_SIZE \in Int /\ (n * PAGE_SIZE) % ALIGN = 0
<1> DEFINE j == PAGE_SIZE \div ALIGN
<1>0. ALIGN \in Nat \ {0} /\ PAGE_SIZE % ALIGN = 0 /\ PAGE_SIZE \in Int
  BY KHeapAssumption, PmmAssumption
<1>1. PAGE_SIZE = j * ALIGN /\ j \in Int
  BY <1>0, Multiples
<1> HIDE DEF j
<1>2. n * PAGE_SIZE = (n * j) * ALIGN /\ n * j \in Int
  BY <1>0, <1>1
<1>3. ((n * j) * ALIGN) % ALIGN = 0
  BY <1>0, <1>2, Multiples
<1> QED BY <1>0, <1>2, <1>3

\* What kmalloc makes of the requested size.
LEMMA SizeRounded ==
  ASSUME NEW req \in Nat
  PROVE  /\ ALIGN_UP(req, ALIGN) \in Nat /\ ALIGN_UP(req, ALIGN) >= req
         /\ ALIGN_UP(req, ALIGN) % ALIGN = 0
<1> DEFINE n == (req + ALIGN - 1) \div ALIGN
<1>0. ALIGN \in Nat \ {0}
  BY KHeapAssumption
<1>1. n \in Nat /\ n * ALIGN \in Nat /\ n * ALIGN >= req
  BY <1>0
<1>2. (n * ALIGN) % ALIGN = 0
  BY <1>0, <1>1, Multiples
<1> QED BY <1>1, <1>2 DEF ALIGN_UP

\* heap_expand gets enough pages.
LEMMA PagesEnough ==
  ASSUME NEW x \in Nat
  PROVE  PagesIn(x) \in Nat /\ PagesIn(x) * PAGE_SIZE \in Nat /\ PagesIn(x) * PAGE_SIZE >= x
<1> DEFINE n == (x + PAGE_SIZE - 1) \div PAGE_SIZE
<1>0. PAGE_SIZE \in Nat \ {0}
  BY PmmAssumption
<1>1. n \in Nat /\ n * PAGE_SIZE \in Nat /\ n * PAGE_SIZE >= x
  BY <1>0
<1>2. PagesIn(x) = (n * PAGE_SIZE) \div PAGE_SIZE
  BY DEF PagesIn, ALIGN_UP
<1> HIDE DEF n
<1>3. PagesIn(x) = n
  BY <1>1, <1>2, PageOfMultiple
<1> QED BY <1>1, <1>3

----------------------------------------------------------------------------
(* The list of heap blocks *)

Block == [size : Nat, free : BOOLEAN, next : Nat \cup {NULL}, prev : Nat \cup {NULL}]

\* Where the block with header a ends.
End(b, a) == a + HDR + b[a].size

(***************************************************************************)
(* The list b tiles the heap up to e: every block ends where the next one  *)
(* starts or at e, and prev leads back.                                    *)
(***************************************************************************)
BlockOK(b, e, a) ==
  /\ a >= HEAP_START /\ a % ALIGN = 0 /\ b[a].size % ALIGN = 0 /\ End(b, a) <= e
  /\ b[a].next = (IF End(b, a) = e THEN NULL ELSE End(b, a))
  /\ End(b, a) # e => End(b, a) \in DOMAIN b
  /\ a = HEAP_START => b[a].prev = NULL
  /\ a # HEAP_START => b[a].prev \in DOMAIN b /\ End(b, b[a].prev) = a

Tiled(b, e) ==
  /\ IsFiniteSet(DOMAIN b) /\ DOMAIN b \in SUBSET Nat /\ b \in [DOMAIN b -> Block] /\ e \in Nat
  /\ DOMAIN b # {} => HEAP_START \in DOMAIN b /\ \E x \in DOMAIN b : End(b, x) = e
  /\ DOMAIN b = {} => e = HEAP_START
  /\ \A a \in DOMAIN b : BlockOK(b, e, a)
  /\ \A x, y \in DOMAIN b : x < y => End(b, x) <= y

\* Blocks have room for their header, and end in different places.
LEMMA TiledFacts ==
  ASSUME NEW b, NEW e, Tiled(b, e)
  PROVE  /\ HDR \in Nat /\ HDR > 0 /\ NULL \notin Nat /\ HEAP_START \in Nat /\ e \in Nat
         /\ \A x \in DOMAIN b : /\ x \in Nat /\ b[x].size \in Nat /\ b[x].free \in BOOLEAN
                                /\ End(b, x) \in Nat /\ End(b, x) = x + HDR + b[x].size
                                /\ x < End(b, x) /\ End(b, x) <= e
         /\ \A x, y \in DOMAIN b : End(b, x) = End(b, y) => x = y
<1>1. HDR \in Nat /\ HDR > 0 /\ NULL \notin Nat /\ HEAP_START \in Nat /\ e \in Nat
  BY KHeapAssumption, PmmAssumption DEF HEAP_START, Tiled
<1>2. \A x \in DOMAIN b : x \in Nat /\ b[x].size \in Nat /\ b[x].free \in BOOLEAN
  BY DEF Tiled, Block
<1>3. \A x \in DOMAIN b : /\ End(b, x) \in Nat /\ End(b, x) = x + HDR + b[x].size
                          /\ x < End(b, x) /\ End(b, x) <= e
  BY <1>1, <1>2 DEF End, Tiled, BlockOK
<1>4. \A x, y \in DOMAIN b : x < y => End(b, x) <= y
  BY DEF Tiled
<1>5. ASSUME NEW x \in DOMAIN b, NEW y \in DOMAIN b, End(b, x) = End(b, y) PROVE x = y
  <2>1. ~(x < y) /\ ~(y < x)
    BY <1>2, <1>3, <1>4, <1>5
  <2> QED BY <1>2, <2>1
<1> QED BY <1>1, <1>2, <1>3, <1>5

\* Block a swallows the block that follows it.
LEMMA AbsorbTiled ==
  ASSUME NEW b, NEW e, Tiled(b, e), NEW a \in DOMAIN b, NEW c, c = b[a].next, c # NULL,
         NEW g, g = absorb(b, a, c)
  PROVE  /\ Tiled(g, e) /\ DOMAIN g = DOMAIN b \ {c} /\ c \in DOMAIN b /\ a # c /\ c = End(b, a)
         /\ \A x \in DOMAIN g : g[x].free = b[x].free /\ g[x].size >= b[x].size
         /\ \A x \in DOMAIN g : End(g, x) = IF x = a THEN End(b, c) ELSE End(b, x)
<1> DEFINE d == DOMAIN b
<1>1. /\ HDR \in Nat /\ HDR > 0 /\ NULL \notin Nat /\ HEAP_START \in Nat /\ e \in Nat
      /\ \A x \in d : /\ x \in Nat /\ b[x].size \in Nat /\ b[x].free \in BOOLEAN
                      /\ End(b, x) \in Nat /\ End(b, x) = x + HDR + b[x].size
                      /\ x < End(b, x) /\ End(b, x) <= e
      /\ \A x, y \in d : End(b, x) = End(b, y) => x = y
  BY TiledFacts
<1>2. /\ \A x \in d : BlockOK(b, e, x) /\ b[x] \in Block
      /\ \A x, y \in d : x < y => End(b, x) <= y
      /\ IsFiniteSet(d)
  BY DEF Tiled
<1>3. c = End(b, a) /\ c \in d /\ a < c /\ a # c
  BY <1>1, <1>2 DEF BlockOK
<1>4. /\ b[c].next = (IF End(b, c) = e THEN NULL ELSE End(b, c))
      /\ b[c].next # a /\ b[c].next # c
  BY <1>1, <1>2, <1>3 DEF BlockOK
<1>5. DOMAIN g = d \ {c}
  BY DEF absorb
<1>6. \A x \in d \ {c} :
        /\ x = a => g[x] = [b[a] EXCEPT !.size = b[a].size + HDR + b[c].size, !.next = b[c].next]
        /\ x # a /\ x = b[c].next => g[x] = [b[x] EXCEPT !.prev = a]
        /\ x # a /\ x # b[c].next => g[x] = b[x]
  <2>1. ASSUME NEW x \in d \ {c}
        PROVE  g[x] = CASE x = a -> [b[a] EXCEPT !.size = b[a].size + HDR + b[c].size, !.next = b[c].next]
                        [] x = b[c].next -> [b[x] EXCEPT !.prev = a]
                        [] OTHER -> b[x]
    BY <1>2 DEF absorb, Block
  <2> QED BY <1>4, <2>1
<1>7. b[c].next \in Nat \cup {NULL} /\ b[a].size + HDR + b[c].size \in Nat
  BY <1>1, <1>2, <1>3 DEF Block
<1>8. g \in [DOMAIN g -> Block]
  <2>1. g = [x \in DOMAIN g |-> g[x]]
    BY DEF absorb
  <2>2. ASSUME NEW x \in d \ {c} PROVE g[x] \in Block
    <3>1. b[x] \in Block /\ a \in Nat
      BY <1>1, <1>2
    <3>2. CASE x = a
      <4>1. g[x] = [b[a] EXCEPT !.size = b[a].size + HDR + b[c].size, !.next = b[c].next]
        BY <1>6, <3>2
      <4>2. \A r \in Block : \A i \in Nat : \A j \in Nat \cup {NULL} :
              [r EXCEPT !.size = i, !.next = j] \in Block
        BY DEF Block
      <4>3. b[a] \in Block
        BY <1>2
      <4> DEFINE i == b[a].size + HDR + b[c].size
                 j == b[c].next
      <4>4. i \in Nat /\ j \in Nat \cup {NULL}
        BY <1>7
      <4>5. g[x] = [b[a] EXCEPT !.size = i, !.next = j]
        BY <4>1
      <4> HIDE DEF i, j
      <4>6. [b[a] EXCEPT !.size = i, !.next = j] \in Block
        BY <4>2, <4>3, <4>4
      <4> QED BY <4>5, <4>6
    <3>3. CASE x # a /\ x = b[c].next
      BY <1>6, <3>1, <3>3 DEF Block
    <3>4. CASE x # a /\ x # b[c].next
      BY <1>6, <3>1, <3>4
    <3> QED BY <3>2, <3>3, <3>4
  <2> QED BY <1>5, <2>1, <2>2
<1>9. \A x \in d \ {c} :
        /\ g[x].free = b[x].free
        /\ g[x].size = (IF x = a THEN b[a].size + HDR + b[c].size ELSE b[x].size)
        /\ g[x].next = (IF x = a THEN b[c].next ELSE b[x].next)
        /\ g[x].prev = (IF x = b[c].next THEN a ELSE b[x].prev)
  <2> SUFFICES ASSUME NEW x \in d \ {c}
               PROVE  /\ g[x].free = b[x].free
                      /\ g[x].size = (IF x = a THEN b[a].size + HDR + b[c].size ELSE b[x].size)
                      /\ g[x].next = (IF x = a THEN b[c].next ELSE b[x].next)
                      /\ g[x].prev = (IF x = b[c].next THEN a ELSE b[x].prev)
    OBVIOUS
  <2>0. b[x] \in Block
    BY <1>2
  <2>1. CASE x = a
    BY <1>4, <1>6, <2>0, <2>1 DEF Block
  <2>2. CASE x # a /\ x = b[c].next
    BY <1>6, <2>0, <2>2 DEF Block
  <2>3. CASE x # a /\ x # b[c].next
    BY <1>6, <2>0, <2>3 DEF Block
  <2> QED BY <2>1, <2>2, <2>3
<1>10. \A x \in d \ {c} : End(g, x) = IF x = a THEN End(b, c) ELSE End(b, x)
  BY <1>1, <1>3, <1>9 DEF End
<1>11. ASSUME NEW x \in d \ {c} PROVE BlockOK(g, e, x)
  <2>1. x >= HEAP_START /\ x % ALIGN = 0 /\ End(g, x) <= e
    BY <1>1, <1>2, <1>3, <1>10 DEF BlockOK
  <2>2. g[x].size % ALIGN = 0
    <3>1. b[a].size % ALIGN = 0 /\ b[c].size % ALIGN = 0 /\ b[x].size % ALIGN = 0 /\ HDR % ALIGN = 0
      BY <1>2, <1>3, KHeapAssumption DEF BlockOK
    <3>2. b[a].size \in Int /\ b[c].size \in Int /\ HDR \in Int /\ b[a].size + HDR \in Int
      BY <1>1, <1>3
    <3>3. (b[a].size + HDR) % ALIGN = 0
      BY <3>1, <3>2, SumAligned, Zenon
    <3>4. (b[a].size + HDR + b[c].size) % ALIGN = 0
      BY <3>1, <3>2, <3>3, SumAligned, Zenon
    <3> QED BY <1>9, <3>1, <3>4
  <2>3. /\ g[x].next = (IF End(g, x) = e THEN NULL ELSE End(g, x))
        /\ End(g, x) # e => End(g, x) \in d \ {c}
    BY <1>1, <1>2, <1>3, <1>4, <1>9, <1>10 DEF BlockOK
  <2>4. x = HEAP_START => g[x].prev = NULL
    BY <1>1, <1>2, <1>3, <1>4, <1>9 DEF BlockOK
  <2>5. ASSUME x # HEAP_START PROVE g[x].prev \in d \ {c} /\ End(g, g[x].prev) = x
    <3>1. CASE x = b[c].next
      BY <1>1, <1>3, <1>4, <1>9, <1>10, <3>1
    <3>2. CASE x # b[c].next
      <4>1. g[x].prev = b[x].prev /\ b[x].prev \in d /\ End(b, b[x].prev) = x
        BY <1>2, <1>9, <2>5, <3>2 DEF BlockOK
      <4>2. b[x].prev # c /\ b[x].prev # a
        BY <1>1, <1>3, <1>4, <3>2, <4>1
      <4> QED BY <1>10, <4>1, <4>2
    <3> QED BY <3>1, <3>2
  <2> QED BY <1>5, <2>1, <2>2, <2>3, <2>4, <2>5 DEF BlockOK
<1>12. ASSUME NEW x \in d \ {c}, NEW y \in d \ {c}, x < y PROVE End(g, x) <= y
  <2>1. CASE x # a
    BY <1>2, <1>10, <1>12, <2>1
  <2>2. CASE x = a
    <3>1. End(b, a) <= y
      BY <1>2, <1>12, <2>2
    <3>2. c < y
      BY <1>1, <1>3, <3>1
    <3> QED BY <1>2, <1>3, <1>10, <2>2, <3>2
  <2> QED BY <2>1, <2>2
<1>13. HEAP_START \in d \ {c} /\ \E x \in d \ {c} : End(g, x) = e
  <2>1. HEAP_START \in d /\ HEAP_START <= a
    BY <1>2 DEF Tiled, BlockOK
  <2>2. PICK x \in d : End(b, x) = e
    BY DEF Tiled
  <2>3. ASSUME x = c PROVE \E y \in d \ {c} : End(g, y) = e
    BY <1>3, <1>10, <2>2, <2>3
  <2>4. ASSUME x # c PROVE \E y \in d \ {c} : End(g, y) = e
    <3>1. x # a
      BY <1>1, <1>3, <2>2
    <3> QED BY <1>10, <2>2, <2>4, <3>1
  <2> QED BY <1>1, <1>3, <2>1, <2>3, <2>4
<1>14. Tiled(g, e)
  <2>1. IsFiniteSet(d \ {c})
    BY <1>2, FS_Difference
  <2>2. d \ {c} \in SUBSET Nat /\ d \ {c} # {}
    BY <1>1, <1>13
  <2> QED BY <1>1, <1>5, <1>8, <1>11, <1>12, <1>13, <2>1, <2>2 DEF Tiled
<1> QED BY <1>1, <1>3, <1>5, <1>9, <1>10, <1>14

\* A change of free flags leaves the tiling alone.
LEMMA SameTiling ==
  ASSUME NEW b, NEW e, Tiled(b, e), NEW g, DOMAIN g = DOMAIN b, g \in [DOMAIN b -> Block],
         \A x \in DOMAIN b : /\ g[x].size = b[x].size /\ g[x].next = b[x].next
                             /\ g[x].prev = b[x].prev
  PROVE  Tiled(g, e) /\ \A x \in DOMAIN b : End(g, x) = End(b, x)
<1>4. \A x \in DOMAIN b : End(g, x) = End(b, x)
  BY DEF End
<1>5. ASSUME NEW x \in DOMAIN b PROVE BlockOK(g, e, x)
  <2>1. BlockOK(b, e, x)
    BY DEF Tiled
  <2>2. g[x].size = b[x].size /\ g[x].next = b[x].next
        /\ g[x].prev = b[x].prev /\ End(g, x) = End(b, x)
    BY <1>4
  <2>3. x # HEAP_START => End(g, b[x].prev) = End(b, b[x].prev)
    BY <1>4, <2>1 DEF BlockOK
  <2> QED BY <2>1, <2>2, <2>3, Zenon DEF BlockOK
<1> QED BY <1>4, <1>5 DEF Tiled

SameButFlag(b, g, a, e) ==
  /\ Tiled(g, e) /\ DOMAIN g = DOMAIN b
  /\ \A x \in DOMAIN b : g[x].size = b[x].size /\ End(g, x) = End(b, x)
  /\ \A x \in DOMAIN b \ {a} : g[x].free = b[x].free

\* kmalloc clears the free flag of a block, kfree sets it.
LEMMA FlagTiled ==
  ASSUME NEW b, NEW e, Tiled(b, e), NEW a \in DOMAIN b, NEW g,
         g = [b EXCEPT ![a].free = TRUE] \/ g = [b EXCEPT ![a].free = FALSE]
  PROVE  SameButFlag(b, g, a, e)
<1> DEFINE d == DOMAIN b
<1>0. b \in [d -> Block] /\ b[a] \in Block
  BY DEF Tiled
<1>1. DOMAIN g = d /\ \A x \in d \ {a} : g[x] = b[x]
  BY <1>0
<1>2. ASSUME NEW v \in BOOLEAN, g = [b EXCEPT ![a].free = v]
      PROVE  /\ g[a] \in Block /\ g[a].size = b[a].size /\ g[a].next = b[a].next
             /\ g[a].prev = b[a].prev /\ g[a].free = v /\ g \in [d -> Block]
  <2>1. g[a] = [b[a] EXCEPT !.free = v]
    BY <1>0, <1>2
  <2>2. g[a] \in Block /\ g[a].size = b[a].size /\ g[a].next = b[a].next
        /\ g[a].prev = b[a].prev /\ g[a].free = v
    BY <1>0, <2>1 DEF Block
  <2>3. g \in [d -> Block]
    <3>1. [b[a] EXCEPT !.free = v] \in Block
      BY <2>1, <2>2
    <3> QED BY <1>0, <1>2, <3>1
  <2> QED BY <2>2, <2>3
<1>5. /\ g[a].size = b[a].size /\ g[a].next = b[a].next
      /\ g[a].prev = b[a].prev /\ g \in [d -> Block]
  BY <1>2
<1>6. \A x \in DOMAIN b : g[x].size = b[x].size /\ g[x].next = b[x].next /\ g[x].prev = b[x].prev
  BY <1>1, <1>5
<1>7. Tiled(g, e) /\ \A x \in DOMAIN b : End(g, x) = End(b, x)
  BY <1>1, <1>5, <1>6, SameTiling
<1> QED BY <1>1, <1>6, <1>7 DEF SameButFlag

\* What taking block a for size bytes leaves of the list b.
Taken(b, e, a, new, size, g) ==
  /\ Tiled(g, e) /\ DOMAIN b \subseteq DOMAIN g /\ DOMAIN g \subseteq DOMAIN b \cup {new}
  /\ g[a].free = FALSE /\ g[a].size >= size
  /\ \A x \in DOMAIN b \ {a} : /\ g[x].free = b[x].free /\ g[x].size = b[x].size
                               /\ End(g, x) = End(b, x)
  /\ \A x \in DOMAIN g \ DOMAIN b :
       g[x].free = TRUE /\ End(g, x) = End(b, a) /\ End(g, a) = x
  /\ DOMAIN g = DOMAIN b => End(g, a) = End(b, a)

\* kmalloc takes a block, and may split it.
LEMMA TakeTiled ==
  ASSUME NEW b, NEW e, Tiled(b, e), NEW a \in DOMAIN b, NEW size \in Nat, size % ALIGN = 0,
         Fits(b, a, size), NEW g, g = take(b, a, size), NEW new, new = a + HDR + size
  PROVE  Taken(b, e, a, new, size, g)
<1> DEFINE d == DOMAIN b
           rem == b[a].size - size - HDR
<1>1. /\ HDR \in Nat /\ HDR > 0 /\ NULL \notin Nat /\ HEAP_START \in Nat /\ e \in Nat
      /\ \A x \in d : /\ x \in Nat /\ b[x].size \in Nat /\ b[x].free \in BOOLEAN
                      /\ End(b, x) \in Nat /\ End(b, x) = x + HDR + b[x].size
                      /\ x < End(b, x) /\ End(b, x) <= e
      /\ \A x, y \in d : End(b, x) = End(b, y) => x = y
  BY TiledFacts
<1>2. /\ \A x \in d : BlockOK(b, e, x) /\ b[x] \in Block
      /\ \A x, y \in d : x < y => End(b, x) <= y
      /\ IsFiniteSet(d)
  BY DEF Tiled
<1>3. CASE b[a].size < size + HDR + MIN_SPLIT
  <2>1. g = [b EXCEPT ![a].free = FALSE]
    BY <1>3 DEF take
  <2>2. FALSE \in BOOLEAN
    OBVIOUS
  <2>3. /\ Tiled(g, e) /\ DOMAIN g = DOMAIN b
        /\ \A x \in DOMAIN b : g[x].size = b[x].size /\ End(g, x) = End(b, x)
        /\ g[a].free = FALSE /\ \A x \in DOMAIN b \ {a} : g[x].free = b[x].free
    <3>1. g = [b EXCEPT ![a].free = TRUE] \/ g = [b EXCEPT ![a].free = FALSE]
      BY <2>1
    <3>2. SameButFlag(b, g, a, e)
      BY <3>1, FlagTiled
    <3>3. g[a].free = FALSE
      BY <1>2, <2>1 DEF Block
    <3> QED BY <3>2, <3>3 DEF SameButFlag
  <2>4. g[a].size >= size
    BY <2>3 DEF Fits
  <2> QED BY <2>3, <2>4 DEF Taken
<1>4. CASE ~(b[a].size < size + HDR + MIN_SPLIT)
  <2>0. MIN_SPLIT \in Nat
    BY KHeapAssumption
  <2>1. rem \in Nat /\ new \in Nat /\ a < new /\ new < End(b, a) /\ new + HDR + rem = End(b, a)
        /\ a # new
    BY <1>1, <1>4, <2>0
  <2>2. new \notin d
    BY <1>1, <1>2, <2>1
  <2> HIDE DEF rem
  <2>3. DOMAIN g = d \cup {new}
    BY <1>4 DEF take
  <2>4. /\ b[a].next = (IF End(b, a) = e THEN NULL ELSE End(b, a))
        /\ b[a].next # a /\ b[a].next # new /\ b[a].next \in Nat \cup {NULL} /\ b[a].prev # new
    BY <1>1, <1>2, <2>1, <2>2 DEF BlockOK, Block
  <2>5. /\ g[new] = [size |-> rem, free |-> TRUE, next |-> b[a].next, prev |-> a]
        /\ g[a] = [b[a] EXCEPT !.size = size, !.next = new, !.free = FALSE]
        /\ \A x \in d \ {a} : x = b[a].next => g[x] = [b[x] EXCEPT !.prev = new]
        /\ \A x \in d \ {a} : x # b[a].next => g[x] = b[x]
    <3> DEFINE G(x) == CASE x = new -> [size |-> rem, free |-> TRUE, next |-> b[a].next, prev |-> a]
                         [] x = a   -> [b[a] EXCEPT !.size = size, !.next = new, !.free = FALSE]
                         [] x = b[a].next -> [b[x] EXCEPT !.prev = new]
                         [] OTHER   -> b[x]
    <3>1. \A x \in d \cup {new} : g[x] = G(x)
      BY <1>4 DEF take, rem
    <3>2. g[new] = [size |-> rem, free |-> TRUE, next |-> b[a].next, prev |-> a]
      <4>1. G(new) = [size |-> rem, free |-> TRUE, next |-> b[a].next, prev |-> a]
        BY <2>1, <2>4
      <4> HIDE DEF G
      <4> QED BY <3>1, <4>1
    <3>3. g[a] = [b[a] EXCEPT !.size = size, !.next = new, !.free = FALSE]
      <4>1. G(a) = [b[a] EXCEPT !.size = size, !.next = new, !.free = FALSE]
        BY <2>1, <2>4
      <4> HIDE DEF G
      <4> QED BY <3>1, <4>1
    <3>4. ASSUME NEW x \in d \ {a}, x = b[a].next PROVE g[x] = [b[x] EXCEPT !.prev = new]
      BY <2>2, <3>1, <3>4
    <3>5. ASSUME NEW x \in d \ {a}, x # b[a].next PROVE g[x] = b[x]
      BY <2>2, <3>1, <3>5
    <3> QED BY <3>2, <3>3, <3>4, <3>5
  <2>6. g = [x \in DOMAIN g |-> g[x]]
    BY <1>4 DEF take
  <2>7. /\ g[new] \in Block /\ g[new].free = TRUE /\ g[new].size = rem
        /\ g[new].next = b[a].next /\ g[new].prev = a
    <3>1. a \in Nat /\ TRUE \in BOOLEAN
      BY <1>1
    <3> QED BY <2>1, <2>4, <2>5, <3>1 DEF Block
  <2>15. /\ g[a] \in Block /\ g[a].free = FALSE /\ g[a].size = size
         /\ g[a].next = new /\ g[a].prev = b[a].prev
    <3>1. b[a] \in Block
      BY <1>2
    <3> QED BY <2>1, <2>5, <3>1 DEF Block
  <2>16. ASSUME NEW x \in d \ {a}
         PROVE  /\ g[x] \in Block /\ g[x].free = b[x].free /\ g[x].size = b[x].size
                /\ g[x].next = b[x].next
                /\ g[x].prev = (IF x = b[a].next THEN new ELSE b[x].prev)
    <3>0. b[x] \in Block
      BY <1>2
    <3>1. CASE x = b[a].next
      <4>1. g[x] = [b[x] EXCEPT !.prev = new]
        BY <2>5, <3>1
      <4> QED BY <2>1, <3>0, <3>1, <4>1 DEF Block
    <3>2. CASE x # b[a].next
      BY <2>5, <3>0, <3>2
    <3> QED BY <3>1, <3>2
  <2>8. g \in [DOMAIN g -> Block]
    BY <2>3, <2>6, <2>7, <2>15, <2>16
  <2>9. \A x \in d \cup {new} : End(g, x) = IF x = new THEN End(b, a) ELSE IF x = a THEN new ELSE End(b, x)
    BY <1>1, <2>1, <2>2, <2>7, <2>15, <2>16 DEF End
  <2>10. ASSUME NEW x \in d \cup {new} PROVE BlockOK(g, e, x)
    <3>1. a % ALIGN = 0 /\ b[a].size % ALIGN = 0 /\ HDR % ALIGN = 0 /\ HEAP_START <= a
      BY <1>2, KHeapAssumption DEF BlockOK
    <3>2. new % ALIGN = 0
      <4>1. a \in Int /\ HDR \in Int /\ size \in Int /\ a + HDR \in Int
        BY <1>1
      <4>2. (a + HDR) % ALIGN = 0
        BY <3>1, <4>1, SumAligned, Zenon
      <4> QED BY <4>1, <4>2, SumAligned, Zenon
    <3>3. rem % ALIGN = 0
      <4>1. b[a].size \in Int /\ HDR \in Int /\ size \in Int /\ b[a].size - size \in Int
        BY <1>1
      <4>2. (b[a].size - size) % ALIGN = 0
        BY <3>1, <4>1, SumAligned, Zenon
      <4> QED BY <3>1, <4>1, <4>2, SumAligned, Zenon DEF rem
    <3>4. /\ x >= HEAP_START /\ x % ALIGN = 0 /\ g[x].size % ALIGN = 0 /\ End(g, x) <= e
      <4>1. CASE x = new
        BY <1>1, <2>1, <2>7, <2>9, <3>1, <3>2, <3>3, <4>1
      <4>2. CASE x = a
        BY <1>1, <2>1, <2>15, <2>9, <3>1, <4>2
      <4>3. CASE x \in d \ {a}
        BY <1>1, <1>2, <2>2, <2>16, <2>9, <4>3 DEF BlockOK
      <4> QED BY <4>1, <4>2, <4>3
    <3>5. /\ g[x].next = (IF End(g, x) = e THEN NULL ELSE End(g, x))
          /\ End(g, x) # e => End(g, x) \in d \cup {new}
      <4>1. CASE x = new
        BY <1>1, <1>2, <2>4, <2>7, <2>9, <4>1 DEF BlockOK
      <4>2. CASE x = a
        BY <1>1, <2>1, <2>15, <2>9, <4>2
      <4>3. CASE x \in d \ {a}
        BY <1>2, <2>2, <2>16, <2>9, <4>3 DEF BlockOK
      <4> QED BY <4>1, <4>2, <4>3
    <3>6. x = HEAP_START => g[x].prev = NULL
      <4>1. HEAP_START # new /\ HEAP_START # b[a].next
        BY <1>1, <2>1, <2>4, <3>1
      <4> QED BY <1>2, <2>15, <2>16, <4>1 DEF BlockOK
    <3>7. ASSUME x # HEAP_START PROVE g[x].prev \in d \cup {new} /\ End(g, g[x].prev) = x
      <4>1. CASE x = new
        BY <2>1, <2>7, <2>9, <4>1
      <4>2. CASE x # new /\ x = b[a].next
        BY <1>1, <2>1, <2>4, <2>16, <2>9, <4>2
      <4>3. CASE x # new /\ x # b[a].next
        <5>1. g[x].prev = b[x].prev /\ b[x].prev \in d /\ End(b, b[x].prev) = x
          BY <1>2, <2>15, <2>16, <3>7, <4>3 DEF BlockOK
        <5>2. b[x].prev # a
          BY <1>1, <2>4, <4>3, <5>1
        <5> QED BY <2>2, <2>9, <5>1, <5>2
      <4> QED BY <4>1, <4>2, <4>3
    <3> QED BY <2>3, <3>4, <3>5, <3>6, <3>7 DEF BlockOK
  <2>11. ASSUME NEW x \in d \cup {new}, NEW y \in d \cup {new}, x < y PROVE End(g, x) <= y
    BY <1>1, <1>2, <2>1, <2>2, <2>9, <2>11
  <2>12. \E x \in d \cup {new} : End(g, x) = e
    <3>1. PICK x \in d : End(b, x) = e
      BY DEF Tiled
    <3>2. CASE x = a
      BY <2>9, <3>1, <3>2
    <3>3. CASE x # a
      BY <2>2, <2>9, <3>1, <3>3
    <3> QED BY <3>2, <3>3
  <2>13. Tiled(g, e)
    <3>1. IsFiniteSet(d \cup {new})
      BY <1>2, FS_AddElement
    <3>2. d \cup {new} \in SUBSET Nat /\ HEAP_START \in d \cup {new}
      BY <1>1, <2>1 DEF Tiled
    <3> QED BY <1>1, <2>3, <2>8, <2>10, <2>11, <2>12, <3>1, <3>2 DEF Tiled
  <2>14. /\ g[a].free = FALSE /\ g[a].size >= size
         /\ \A x \in d \ {a} : g[x].free = b[x].free /\ g[x].size = b[x].size /\ End(g, x) = End(b, x)
         /\ g[new].free = TRUE /\ End(g, new) = End(b, a) /\ End(g, a) = new
    BY <1>1, <2>2, <2>7, <2>15, <2>16, <2>9
  <2> QED BY <2>2, <2>3, <2>13, <2>14 DEF Taken
<1> QED BY <1>3, <1>4

\* No block is free next to a free one.
NoFreePair(b) ==
  \A x, y \in DOMAIN b : End(b, x) = y => ~(b[x].free /\ b[y].free)

Used(b) == {x \in DOMAIN b : ~b[x].free}

\* kfree frees its block and coalesces on both sides.
LEMMA ReleaseTiled ==
  ASSUME NEW b, NEW e, Tiled(b, e), NoFreePair(b), NEW a \in Used(b),
         NEW r, r = release(b, a)
  PROVE  /\ Tiled(r, e) /\ NoFreePair(r) /\ Used(r) = Used(b) \ {a} /\ DOMAIN r # {}
         /\ \A x \in Used(r) : r[x].size >= b[x].size
<1> DEFINE f == [b EXCEPT ![a].free = TRUE]
           n == f[a].next
           h == IF n # NULL /\ f[n].free THEN absorb(f, a, n) ELSE f
           p == h[a].prev
           g == IF p # NULL /\ h[p].free THEN absorb(h, p, a) ELSE h
<1>0. a \in DOMAIN b /\ ~b[a].free /\ TRUE \in BOOLEAN
  BY DEF Used
<1>1. /\ Tiled(f, e) /\ DOMAIN f = DOMAIN b
      /\ \A x \in DOMAIN b : f[x].size = b[x].size /\ End(f, x) = End(b, x)
      /\ f[a].free /\ \A x \in DOMAIN b \ {a} : f[x].free = b[x].free
  <2>1. f = [b EXCEPT ![a].free = TRUE]
    OBVIOUS
  <2> HIDE DEF f
  <2>2. f = [b EXCEPT ![a].free = TRUE] \/ f = [b EXCEPT ![a].free = FALSE]
    BY <2>1
  <2>3. SameButFlag(b, f, a, e)
    BY <1>0, <2>2, FlagTiled
  <2>4. f[a].free
    <3>1. b[a] \in Block
      BY <1>0 DEF Tiled
    <3> QED BY <1>0, <2>1, <3>1 DEF Block
  <2> QED BY <2>3, <2>4 DEF SameButFlag
<1> HIDE DEF f
<1>2. /\ \A x, y \in DOMAIN f : End(f, x) = y /\ x # a /\ y # a => ~(f[x].free /\ f[y].free)
      /\ Used(f) = Used(b) \ {a} /\ f[a].free
      /\ \A x \in DOMAIN f : f[x].size >= b[x].size
  <2>1. \A x \in DOMAIN b : b[x].size \in Nat
    BY TiledFacts
  <2>2. f[a].free
    BY <1>0, <1>1
  <2>3. \A x \in DOMAIN b \ {a} : f[x].free = b[x].free
    BY <1>1
  <2>4. Used(f) = Used(b) \ {a}
    BY <1>0, <1>1, <2>2, <2>3 DEF Used
  <2>5. \A x, y \in DOMAIN f : End(f, x) = y /\ x # a /\ y # a => ~(f[x].free /\ f[y].free)
    BY <1>1, <2>3 DEF NoFreePair
  <2>6. \A x \in DOMAIN f : f[x].size >= b[x].size
    BY <1>1, <2>1
  <2> QED BY <2>2, <2>4, <2>5, <2>6
<1>3. /\ Tiled(h, e) /\ a \in DOMAIN h /\ DOMAIN h \subseteq DOMAIN f
      /\ \A x, y \in DOMAIN h : End(h, x) = y /\ x # a /\ y # a => ~(h[x].free /\ h[y].free)
      /\ \A y \in DOMAIN h : End(h, a) = y => ~h[y].free
      /\ Used(h) = Used(f) /\ h[a].free
      /\ \A x \in DOMAIN h : h[x].size >= b[x].size
  <2>1. CASE n # NULL /\ f[n].free
    <3>0. h = absorb(f, a, n) /\ n = f[a].next /\ a \in DOMAIN f
      BY <1>0, <1>1, <2>1
    <3> HIDE DEF n, h
    <3>1. /\ Tiled(h, e) /\ DOMAIN h = DOMAIN f \ {n} /\ n \in DOMAIN f /\ a # n /\ n = End(f, a)
          /\ \A x \in DOMAIN h : h[x].free = f[x].free /\ h[x].size >= f[x].size
          /\ \A x \in DOMAIN h : End(h, x) = IF x = a THEN End(f, n) ELSE End(f, x)
      BY <1>1, <2>1, <3>0, AbsorbTiled
    <3>2. \A y \in DOMAIN h : End(h, a) = y => ~h[y].free
      <4>1. ASSUME NEW y \in DOMAIN h, End(h, a) = y PROVE ~h[y].free
        <5>1. End(f, n) = y /\ y # a
          <6>1. a < End(h, a) /\ a \in Nat
            BY <1>0, <1>1, <3>1, TiledFacts
          <6> QED BY <1>0, <1>1, <3>1, <4>1, <6>1
        <5> QED BY <1>2, <2>1, <3>1, <5>1
      <4> QED BY <4>1
    <3>3. \A x \in DOMAIN h : h[x].size >= b[x].size
      <4>1. \A x \in DOMAIN h : h[x].size \in Nat /\ f[x].size \in Nat /\ b[x].size \in Nat
        BY <1>1, <3>1, TiledFacts
      <4> QED BY <1>2, <3>1, <4>1
    <3> QED BY <1>0, <1>1, <1>2, <2>1, <3>1, <3>2, <3>3 DEF Used
  <2>2. CASE ~(n # NULL /\ f[n].free)
    <3>0. h = f
      BY <2>2
    <3> HIDE DEF h
    <3>1. ASSUME NEW y \in DOMAIN f, End(f, a) = y PROVE ~f[y].free
      <4>1. y < End(f, y) /\ End(f, y) <= e /\ y \in Nat /\ e \in Nat /\ End(f, y) \in Nat /\ NULL \notin Nat
        BY <1>1, TiledFacts
      <4>2. n = y
        BY <1>0, <1>1, <3>1, <4>1 DEF Tiled, BlockOK
      <4> HIDE DEF n
      <4> QED BY <2>2, <4>1, <4>2
    <3> QED BY <1>0, <1>1, <1>2, <3>0, <3>1
  <2> QED BY <2>1, <2>2
<1> HIDE DEF h
<1>4. a # HEAP_START => p \in DOMAIN h /\ End(h, p) = a /\ p # NULL
  <2>1. NULL \notin Nat /\ DOMAIN h \subseteq Nat
    BY <1>3, TiledFacts
  <2> QED BY <1>3, <2>1 DEF Tiled, BlockOK
<1>5. a = HEAP_START => p = NULL
  BY <1>3 DEF Tiled, BlockOK
<1>6. /\ Tiled(g, e) /\ NoFreePair(g) /\ Used(g) = Used(b) \ {a} /\ DOMAIN g # {}
      /\ \A x \in Used(g) : g[x].size >= b[x].size
  <2>1. CASE p # NULL /\ h[p].free
    <3>0. g = absorb(h, p, a)
      BY <2>1
    <3>1. p \in DOMAIN h /\ End(h, p) = a /\ p # a
      BY <1>3, <1>4, <1>5, <2>1, TiledFacts
    <3>2. h[p].next = a /\ a # NULL
      <4>1. a < End(h, a) /\ End(h, a) <= e /\ a \in Nat /\ e \in Nat /\ End(h, a) \in Nat /\ NULL \notin Nat
        BY <1>3, TiledFacts
      <4> QED BY <1>3, <3>1, <4>1 DEF Tiled, BlockOK
    <3> HIDE DEF g, p
    <3>3. /\ Tiled(g, e) /\ DOMAIN g = DOMAIN h \ {a}
          /\ \A x \in DOMAIN g : g[x].free = h[x].free /\ g[x].size >= h[x].size
          /\ \A x \in DOMAIN g : End(g, x) = IF x = p THEN End(h, a) ELSE End(h, x)
      <4>1. a = h[p].next
        BY <3>2
      <4> QED BY <1>3, <3>0, <3>1, <3>2, <4>1, AbsorbTiled
    <3>4. NoFreePair(g)
      BY <1>3, <3>3 DEF NoFreePair
    <3>5. Used(g) = Used(h)
      BY <1>3, <3>3 DEF Used
    <3>6. \A x \in DOMAIN g : g[x].size >= b[x].size
      <4>1. \A x \in DOMAIN g : h[x].size \in Nat /\ g[x].size \in Nat /\ b[x].size \in Nat
        BY <1>1, <1>3, <3>3, TiledFacts
      <4> QED BY <1>3, <3>3, <4>1
    <3>7. p \in DOMAIN g
      BY <3>1, <3>3
    <3> QED BY <1>2, <1>3, <3>3, <3>4, <3>5, <3>6, <3>7 DEF Used
  <2>2. CASE ~(p # NULL /\ h[p].free)
    <3>0. g = h
      BY <2>2
    <3> HIDE DEF g
    <3>1. ASSUME NEW x \in DOMAIN h, End(h, x) = a PROVE ~h[x].free
      <4>1. a # HEAP_START
        <5>1. x < End(h, x) /\ x >= HEAP_START /\ x \in Nat /\ HEAP_START \in Nat /\ a \in Nat
          BY <1>3, TiledFacts DEF Tiled, BlockOK
        <5> QED BY <3>1, <5>1
      <4>2. x = p
        BY <1>3, <1>4, <3>1, <4>1, TiledFacts
      <4> HIDE DEF p
      <4> QED BY <1>4, <2>2, <4>1, <4>2
    <3>2. NoFreePair(h)
      BY <1>3, <3>1 DEF NoFreePair
    <3> QED BY <1>2, <1>3, <3>0, <3>2 DEF Used
  <2> QED BY <2>1, <2>2
<1>7. r = g
  BY DEF release, g, h, f
<1> HIDE DEF g
<1> QED BY <1>6, <1>7

\* The end of the heap is aligned.
LEMMA EndAligned ==
  ASSUME NEW b, NEW e, Tiled(b, e)
  PROVE  e % ALIGN = 0 /\ e >= HEAP_START
<1>1. CASE DOMAIN b = {}
  <2>1. HeapPage \in Int
    BY KHeapAssumption
  <2>2. HEAP_START % ALIGN = 0
    BY <2>1, PagesAligned DEF HEAP_START
  <2>3. HEAP_START \in Nat
    BY TiledFacts
  <2> QED BY <1>1, <2>2, <2>3 DEF Tiled
<1>2. CASE DOMAIN b # {}
  <2>1. PICK x \in DOMAIN b : End(b, x) = e
    BY <1>2 DEF Tiled
  <2>2. /\ x % ALIGN = 0 /\ b[x].size % ALIGN = 0 /\ HDR % ALIGN = 0
        /\ x \in Int /\ b[x].size \in Int /\ HDR \in Int /\ x + HDR \in Int
        /\ End(b, x) = x + HDR + b[x].size
    <3>1. HDR % ALIGN = 0 /\ HDR \in Nat
      BY KHeapAssumption
    <3>2. x \in Nat /\ b[x].size \in Nat
      BY TiledFacts
    <3>3. BlockOK(b, e, x)
      BY DEF Tiled
    <3> QED BY <3>1, <3>2, <3>3 DEF BlockOK, End
  <2>3. (x + HDR) % ALIGN = 0
    BY <2>2, SumAligned, Zenon
  <2>4. (x + HDR + b[x].size) % ALIGN = 0
    BY <2>2, <2>3, SumAligned, Zenon
  <2>5. e >= HEAP_START
    <3>1. x < End(b, x) /\ x \in Nat /\ e \in Nat /\ HEAP_START \in Nat /\ x >= HEAP_START
      BY TiledFacts DEF Tiled, BlockOK
    <3> QED BY <2>1, <3>1
  <2> QED BY <2>1, <2>2, <2>4, <2>5
<1> QED BY <1>1, <1>2

\* What a free block of n bytes at the end e makes of the list b.
Appended(b, e, n, g) ==
  /\ Tiled(g, e + HDR + n) /\ DOMAIN g = DOMAIN b \cup {e} /\ e \notin DOMAIN b
  /\ g[e].free = TRUE /\ g[e].size = n /\ End(g, e) = e + HDR + n
  /\ \A x \in DOMAIN b : /\ g[x].free = b[x].free /\ g[x].size = b[x].size
                         /\ End(g, x) = End(b, x)

\* kmalloc appends the fresh pages as a free block.
LEMMA AppendTiled ==
  ASSUME NEW b, NEW e, Tiled(b, e), NEW n \in Nat, n % ALIGN = 0,
         NEW g, g = append(b, e, n)
  PROVE  Appended(b, e, n, g)
<1> DEFINE d == DOMAIN b
           last == CHOOSE x \in d : b[x].next = NULL
           z == e + HDR + n
<1>1. /\ HDR \in Nat /\ HDR > 0 /\ NULL \notin Nat /\ HEAP_START \in Nat /\ e \in Nat
      /\ \A x \in d : /\ x \in Nat /\ b[x].size \in Nat /\ b[x].free \in BOOLEAN
                      /\ End(b, x) \in Nat /\ End(b, x) = x + HDR + b[x].size
                      /\ x < End(b, x) /\ End(b, x) <= e
      /\ \A x, y \in d : End(b, x) = End(b, y) => x = y
  BY TiledFacts
<1>2. /\ \A x \in d : BlockOK(b, e, x) /\ b[x] \in Block
      /\ \A x, y \in d : x < y => End(b, x) <= y
      /\ IsFiniteSet(d)
  BY DEF Tiled
<1>3. e \notin d /\ z \in Nat /\ e < z /\ e % ALIGN = 0 /\ e >= HEAP_START
  <2>1. e \notin d
    BY <1>1
  <2> QED BY <1>1, <2>1, EndAligned
<1>4. d # {} => last \in d /\ b[last].next = NULL /\ End(b, last) = e
  <2>1. ASSUME d # {} PROVE \E x \in d : b[x].next = NULL
    BY <1>2, <2>1 DEF Tiled, BlockOK
  <2>2. ASSUME d # {} PROVE last \in d /\ b[last].next = NULL
    BY <2>1, <2>2
  <2> HIDE DEF last
  <2> QED BY <1>1, <1>2, <2>2 DEF BlockOK
<1>5. DOMAIN g = d \cup {e} /\ g = [x \in DOMAIN g |-> g[x]]
  BY DEF append
<1> DEFINE G(x) == CASE x = e -> [size |-> n, free |-> TRUE, next |-> NULL,
                                  prev |-> IF d = {} THEN NULL ELSE last]
                     [] x # e /\ x = last -> [b[x] EXCEPT !.next = e]
                     [] OTHER -> b[x]
<1>6. \A x \in d \cup {e} : g[x] = G(x)
  BY DEF append
<1> HIDE DEF last
<1>7. /\ g[e] \in Block /\ g[e].size = n /\ g[e].free = TRUE /\ g[e].next = NULL
      /\ g[e].prev = IF d = {} THEN NULL ELSE last
  <2>1. G(e) = [size |-> n, free |-> TRUE, next |-> NULL, prev |-> IF d = {} THEN NULL ELSE last]
    OBVIOUS
  <2>2. (IF d = {} THEN NULL ELSE last) \in Nat \cup {NULL} /\ TRUE \in BOOLEAN
    BY <1>1, <1>4
  <2> HIDE DEF G
  <2>3. g[e] = [size |-> n, free |-> TRUE, next |-> NULL, prev |-> IF d = {} THEN NULL ELSE last]
    BY <1>6, <2>1
  <2> QED BY <2>2, <2>3 DEF Block
<1>8. ASSUME NEW x \in d
      PROVE  /\ g[x] \in Block /\ g[x].size = b[x].size /\ g[x].free = b[x].free
             /\ g[x].prev = b[x].prev /\ g[x].next = IF x = last THEN e ELSE b[x].next
  <2>0. b[x] \in Block /\ x # e
    BY <1>2, <1>3
  <2>1. CASE x = last
    <3>1. G(x) = [b[x] EXCEPT !.next = e]
      BY <2>0, <2>1
    <3> HIDE DEF G
    <3>2. g[x] = [b[x] EXCEPT !.next = e]
      BY <1>6, <3>1
    <3> QED BY <1>1, <2>0, <2>1, <3>2 DEF Block
  <2>2. CASE x # last
    <3>1. G(x) = b[x]
      BY <2>0, <2>2
    <3> HIDE DEF G
    <3>2. g[x] = b[x]
      BY <1>6, <3>1
    <3> QED BY <2>0, <2>2, <3>2 DEF Block
  <2> QED BY <2>1, <2>2
<1> HIDE DEF G
<1>9. End(g, e) = z /\ \A x \in d : End(g, x) = End(b, x)
  BY <1>7, <1>8 DEF End
<1>10. BlockOK(g, z, e)
  <2>1. d = {} => e = HEAP_START
    BY DEF Tiled
  <2>2. d # {} => e # HEAP_START
    BY <1>1, <1>3 DEF Tiled
  <2>3. d # {} => g[e].prev \in DOMAIN g /\ End(g, g[e].prev) = e
    BY <1>4, <1>5, <1>7, <1>9
  <2>4. z <= z
    BY <1>3
  <2> QED BY <1>3, <1>7, <1>9, <2>1, <2>2, <2>3, <2>4 DEF BlockOK
<1>11. ASSUME NEW x \in d PROVE BlockOK(g, z, x)
  <2>1. BlockOK(b, e, x)
    BY <1>2
  <2>2. x >= HEAP_START /\ x % ALIGN = 0 /\ g[x].size % ALIGN = 0 /\ End(g, x) <= z /\ End(g, x) # z
    BY <1>1, <1>3, <1>8, <1>9, <2>1 DEF BlockOK
  <2>3. g[x].next = End(g, x) /\ End(g, x) \in DOMAIN g
    <3>1. CASE x = last
      BY <1>4, <1>5, <1>8, <1>9, <3>1
    <3>2. CASE x # last
      <4>1. End(b, x) # e
        BY <1>1, <1>4, <3>2
      <4> QED BY <1>5, <1>8, <1>9, <2>1, <3>2, <4>1 DEF BlockOK
    <3> QED BY <3>1, <3>2
  <2>4. x = HEAP_START => g[x].prev = NULL
    BY <1>8, <2>1 DEF BlockOK
  <2>5. x # HEAP_START => g[x].prev \in DOMAIN g /\ End(g, g[x].prev) = x
    BY <1>5, <1>8, <1>9, <2>1 DEF BlockOK
  <2> QED BY <2>2, <2>3, <2>4, <2>5 DEF BlockOK
<1>12. ASSUME NEW x \in d \cup {e}, NEW y \in d \cup {e}, x < y PROVE End(g, x) <= y
  <2>1. CASE x = e
    BY <1>1, <1>12, <2>1
  <2>2. CASE x \in d /\ y = e
    BY <1>1, <1>9, <2>2
  <2>3. CASE x \in d /\ y \in d
    BY <1>2, <1>9, <1>12, <2>3
  <2> QED BY <2>1, <2>2, <2>3
<1>13. Tiled(g, z)
  <2>1. IsFiniteSet(d \cup {e})
    BY <1>2, FS_AddElement
  <2>2. d \cup {e} \in SUBSET Nat /\ HEAP_START \in d \cup {e}
    BY <1>1 DEF Tiled
  <2>3. g \in [DOMAIN g -> Block]
    BY <1>5, <1>7, <1>8
  <2>4. \A x \in DOMAIN g : BlockOK(g, z, x)
    BY <1>5, <1>10, <1>11
  <2> QED BY <1>3, <1>5, <1>9, <1>12, <2>1, <2>2, <2>3, <2>4 DEF Tiled
<1> QED BY <1>3, <1>5, <1>7, <1>8, <1>9, <1>13 DEF Appended

----------------------------------------------------------------------------
(* The walk of kmalloc over the list *)

\* A set with 0 in it and the successor of each of its elements is Nat.
LEMMA NatSet ==
  ASSUME NEW S \in SUBSET Nat, 0 \in S, \A n \in S : n + 1 \in S
  PROVE  S = Nat
<1> SUFFICES ASSUME Nat \ S # {} PROVE FALSE
  OBVIOUS
<1>1. PICK m \in Nat \ S : \A k \in Nat \ S : m <= k
  BY LeastElement
<1>2. m # 0 /\ m - 1 \in Nat
  BY <1>1
<1>3. m - 1 \in S
  BY <1>1, <1>2
<1> QED BY <1>1, <1>2, <1>3

NthStep(b, g, m) ==
  g = [k \in 0 .. m |-> IF k = 0 THEN (IF DOMAIN b = {} THEN NULL ELSE HEAP_START)
                        ELSE IF g[k-1] = NULL THEN NULL ELSE b[g[k-1]].next]

\* The function that Nth defines exists, so it satisfies its recursion.
LEMMA NthEquation ==
  ASSUME NEW b, IsFiniteSet(DOMAIN b)
  PROVE  /\ Nth(b)[0] = IF DOMAIN b = {} THEN NULL ELSE HEAP_START
         /\ \A k \in 1 .. Cardinality(DOMAIN b) :
              Nth(b)[k] = IF Nth(b)[k-1] = NULL THEN NULL ELSE b[Nth(b)[k-1]].next
<1> DEFINE S == {m \in Nat : \E g : NthStep(b, g, m)}
           first == IF DOMAIN b = {} THEN NULL ELSE HEAP_START
           c == Cardinality(DOMAIN b)
<1>0. c \in Nat
  BY FS_CardinalityType
<1>1. 0 \in S
  <2> DEFINE g == [k \in 0 .. 0 |-> first]
  <2>1. NthStep(b, g, 0)
    BY DEF NthStep
  <2> QED BY <2>1
<1>2. ASSUME NEW m \in S PROVE m + 1 \in S
  <2>1. PICK g : NthStep(b, g, m)
    OBVIOUS
  <2> DEFINE h == [k \in 0 .. (m + 1) |->
                     IF k <= m THEN g[k] ELSE IF g[m] = NULL THEN NULL ELSE b[g[m]].next]
  <2>2. \A k \in 0 .. m : g[k] = IF k = 0 THEN first
                        ELSE IF g[k-1] = NULL THEN NULL ELSE b[g[k-1]].next
    BY <2>1 DEF NthStep
  <2> HIDE DEF first
  <2>3. \A k \in 0 .. (m+1) : h[k] = IF k = 0 THEN first
                        ELSE IF h[k-1] = NULL THEN NULL ELSE b[h[k-1]].next
    BY <2>2
  <2>4. NthStep(b, h, m + 1)
    BY <2>3 DEF NthStep, first
  <2> QED BY <2>4
<1>3. \E g : NthStep(b, g, c)
  <2>1. S = Nat
    <3> HIDE DEF S
    <3>1. S \in SUBSET Nat
      BY DEF S
    <3> QED BY <1>1, <1>2, <3>1, NatSet
  <2> QED BY <1>0, <2>1
<1>4. NthStep(b, Nth(b), c)
  BY <1>3 DEF Nth, NthStep
<1> HIDE DEF c
<1>5. /\ Nth(b)[0] = first
      /\ \A k \in 1 .. c : Nth(b)[k] = IF Nth(b)[k-1] = NULL THEN NULL ELSE b[Nth(b)[k-1]].next
  BY <1>0, <1>4 DEF NthStep
<1> QED BY <1>5 DEF c

Below(b, a) == {x \in DOMAIN b : x < a}

\* The walk meets the blocks in the order of their addresses.
LEMMA NthBlock ==
  ASSUME NEW b, NEW e, Tiled(b, e), NEW a \in DOMAIN b
  PROVE  /\ Cardinality(Below(b, a)) \in 0 .. (Cardinality(DOMAIN b) - 1)
         /\ Nth(b)[Cardinality(Below(b, a))] = a
<1> DEFINE d == DOMAIN b
           K(x) == Cardinality(Below(b, x))
<1>1. /\ NULL \notin Nat /\ HEAP_START \in Nat /\ IsFiniteSet(d) /\ Cardinality(d) \in Nat
      /\ \A x \in d : x \in Nat /\ End(b, x) \in Nat /\ x < End(b, x) /\ End(b, x) <= e
      /\ e \in Nat
  BY TiledFacts, FS_CardinalityType DEF Tiled
<1>2. ASSUME NEW x \in d
      PROVE  IsFiniteSet(Below(b, x)) /\ K(x) \in Nat /\ K(x) <= Cardinality(d) - 1
  <2>1. IsFiniteSet(d \ {x}) /\ Cardinality(d \ {x}) = Cardinality(d) - 1
    BY <1>1, FS_RemoveElement
  <2>2. Below(b, x) \in SUBSET (d \ {x})
    BY <1>1 DEF Below
  <2>3. IsFiniteSet(Below(b, x)) /\ K(x) <= Cardinality(d \ {x})
    BY <2>1, <2>2, FS_Subset
  <2>4. K(x) \in Nat
    BY <2>3, FS_CardinalityType
  <2> QED BY <2>1, <2>3, <2>4
<1> DEFINE T == {x \in d : Nth(b)[K(x)] # x}
<1>3. T = {}
  <2> SUFFICES ASSUME T # {} PROVE FALSE
    OBVIOUS
  <2>1. PICK m \in T : \A k \in T : m <= k
    <3>1. T \in SUBSET Nat
      BY <1>1
    <3> HIDE DEF T
    <3> QED BY <3>1, LeastElement
  <2>2. m \in d /\ m \in Nat /\ Nth(b)[K(m)] # m
    BY <1>1, <2>1
  <2>3. m # HEAP_START
    <3>1. ASSUME m = HEAP_START PROVE FALSE
      <4>1. Below(b, m) = {}
        <5>1. \A x \in d : x >= HEAP_START
          BY DEF Tiled, BlockOK
        <5> QED BY <1>1, <3>1, <5>1 DEF Below
      <4>2. K(m) = 0
        BY <4>1, FS_EmptySet
      <4>3. Nth(b)[0] = HEAP_START
        BY <1>1, <2>2, NthEquation
      <4> QED BY <2>2, <3>1, <4>2, <4>3
    <3> QED BY <3>1
  <2> DEFINE p == b[m].prev
  <2>4. p \in d /\ End(b, p) = m
    BY <2>2, <2>3 DEF Tiled, BlockOK
  <2>5. p \in Nat /\ p < m /\ p # NULL /\ b[p].next = m
    <3>1. b[p].next = (IF End(b, p) = e THEN NULL ELSE End(b, p))
      BY <2>4 DEF Tiled, BlockOK
    <3>2. m # e
      BY <1>1, <2>2
    <3> HIDE DEF p
    <3> QED BY <1>1, <2>2, <2>4, <3>1, <3>2
  <2> HIDE DEF p
  <2>6. Below(b, m) = Below(b, p) \cup {p} /\ p \notin Below(b, p)
    <3>1. \A x \in d : x > p => x >= m
      BY <1>1, <2>4 DEF Tiled
    <3> QED BY <1>1, <2>4, <2>5, <3>1 DEF Below
  <2>7. K(m) = K(p) + 1
    BY <1>2, <2>4, <2>6, FS_AddElement
  <2>8. Nth(b)[K(p)] = p
    <3>1. p \notin T
      BY <2>1, <2>2, <2>5
    <3> QED BY <2>4, <3>1
  <2>9. K(m) \in 1 .. Cardinality(d) /\ K(m) - 1 = K(p)
    <3>1. K(p) \in Nat /\ K(m) \in Nat /\ K(m) <= Cardinality(d) - 1
      BY <1>2, <2>2, <2>4
    <3> HIDE DEF K
    <3> QED BY <1>1, <2>7, <3>1
  <2> HIDE DEF K, T
  <2>10. Nth(b)[K(m)] = b[p].next
    BY <1>1, <2>5, <2>8, <2>9, NthEquation
  <2> QED BY <2>2, <2>5, <2>10
<1>4. K(a) \in 0 .. (Cardinality(d) - 1)
  <2>1. K(a) \in Nat /\ K(a) <= Cardinality(d) - 1
    BY <1>2
  <2> HIDE DEF K
  <2> QED BY <1>1, <2>1
<1>5. Nth(b)[K(a)] = a
  BY <1>3
<1> QED BY <1>4, <1>5

\* A walk that has come to a block has met blocks all the way.
LEMMA NthInList ==
  ASSUME NEW b, NEW e, Tiled(b, e), NEW k \in 0 .. (Cardinality(DOMAIN b) - 1), Nth(b)[k] \in DOMAIN b,
         NEW j \in 0 .. k
  PROVE  Nth(b)[j] \in DOMAIN b
<1> DEFINE c == Cardinality(DOMAIN b)
           S == {i \in Nat : i <= c => Nth(b)[i] \in DOMAIN b \cup {NULL}}
           U == {i \in Nat : j + i <= c => Nth(b)[j + i] = NULL}
<1>0. /\ IsFiniteSet(DOMAIN b) /\ c \in Nat /\ NULL \notin DOMAIN b
      /\ \A x \in DOMAIN b : b[x].next \in DOMAIN b \cup {NULL}
  <2>1. IsFiniteSet(DOMAIN b)
    BY DEF Tiled
  <2>2. c \in Nat
    BY <2>1, FS_CardinalityType
  <2>3. NULL \notin DOMAIN b
    BY TiledFacts
  <2>4. \A x \in DOMAIN b : b[x].next \in DOMAIN b \cup {NULL}
    BY DEF Tiled, BlockOK
  <2> QED BY <2>1, <2>2, <2>3, <2>4
<1>1. /\ Nth(b)[0] = IF DOMAIN b = {} THEN NULL ELSE HEAP_START
      /\ \A i \in 1 .. c : Nth(b)[i] = IF Nth(b)[i-1] = NULL THEN NULL ELSE b[Nth(b)[i-1]].next
  BY <1>0, NthEquation
<1> HIDE DEF c
<1>2. S = Nat
  <2>1. 0 \in S
    BY <1>1 DEF Tiled
  <2>2. ASSUME NEW i \in S PROVE i + 1 \in S
    <3> SUFFICES ASSUME i + 1 <= c PROVE Nth(b)[i + 1] \in DOMAIN b \cup {NULL}
      OBVIOUS
    <3>1. Nth(b)[i] \in DOMAIN b \cup {NULL} /\ i + 1 \in 1 .. c /\ (i + 1) - 1 = i
      BY <1>0
    <3>2. Nth(b)[i + 1] = IF Nth(b)[i] = NULL THEN NULL ELSE b[Nth(b)[i]].next
      BY <1>1, <3>1
    <3> QED BY <1>0, <3>1, <3>2
  <2>3. S \in SUBSET Nat
    OBVIOUS
  <2> HIDE DEF S
  <2> QED BY <2>1, <2>2, <2>3, NatSet
<1>3. ASSUME Nth(b)[j] = NULL PROVE U = Nat
  <2>1. 0 \in U
    BY <1>3
  <2>2. ASSUME NEW i \in U PROVE i + 1 \in U
    <3> SUFFICES ASSUME j + (i + 1) <= c PROVE Nth(b)[j + (i + 1)] = NULL
      OBVIOUS
    <3>1. Nth(b)[j + i] = NULL /\ j + (i + 1) \in 1 .. c /\ (j + (i + 1)) - 1 = j + i
      BY <1>0
    <3> QED BY <1>1, <3>1
  <2>3. U \in SUBSET Nat
    OBVIOUS
  <2> HIDE DEF U
  <2> QED BY <2>1, <2>2, <2>3, NatSet
<1>4. k \in Nat /\ k <= c /\ j \in Nat /\ j <= k /\ k - j \in Nat /\ j + (k - j) = k
  BY <1>0 DEF c
<1>5. Nth(b)[j] # NULL
  <2> SUFFICES ASSUME Nth(b)[j] = NULL PROVE FALSE
    OBVIOUS
  <2>1. k - j \in U
    BY <1>3, <1>4
  <2> QED BY <1>0, <1>4, <2>1
<1>6. j \in S /\ j <= c
  BY <1>0, <1>2, <1>4
<1> QED BY <1>5, <1>6

\* kmalloc goes to heap_expand only if no block of the list is large enough.
LEMMA NoneFits ==
  ASSUME NEW b, NEW e, Tiled(b, e), NEW size, NoFit(b, size), NEW a \in DOMAIN b
  PROVE  ~Fits(b, a, size)
<1> SUFFICES ASSUME Fits(b, a, size) PROVE FALSE
  OBVIOUS
<1> DEFINE K(x) == Cardinality(Below(b, x))
           c == Cardinality(DOMAIN b)
           T == {k \in 0 .. (c - 1) : Nth(b)[k] \in DOMAIN b /\ Fits(b, Nth(b)[k], size)}
<1>0. c \in Nat
  BY FS_CardinalityType DEF Tiled
<1>1. K(a) \in T
  BY NthBlock
<1>2. T \in SUBSET Nat
  OBVIOUS
<1>3. PICK k \in T : \A j \in T : k <= j
  <2> HIDE DEF T
  <2> QED BY <1>1, <1>2, LeastElement
<1> DEFINE x == Nth(b)[k]
<1>4. x \in DOMAIN b /\ Fits(b, x, size) /\ k \in 0 .. (c - 1)
  BY <1>3
<1>5. ASSUME NEW j \in 0 .. (k - 1) PROVE ~Fits(b, Nth(b)[j], size)
  <2>1. j \notin T /\ j \in 0 .. (c - 1)
    <3>1. c \in Nat /\ k \in Nat /\ k <= c - 1 /\ j \in Nat /\ j < k
      BY <1>0, <1>4
    <3>2. \A i \in T : k <= i
      BY <1>3
    <3> HIDE DEF T, c
    <3> QED BY <3>1, <3>2
  <2>2. Nth(b)[j] \in DOMAIN b
    BY <1>0, <1>4, NthInList
  <2> QED BY <2>1, <2>2
<1>6. FirstFit(b, size, x)
  BY <1>4, <1>5 DEF FirstFit
<1> QED BY <1>4, <1>6 DEF NoFit

----------------------------------------------------------------------------
(* The blocks in use are the live allocations *)

Owned(b, lv) ==
  /\ {a + HDR : a \in Used(b)} = DOMAIN lv
  /\ \A p \in DOMAIN lv : lv[p] \in Sizes \ {0} /\ lv[p] <= b[p - HDR].size

HeapOK(b, e, lv) == Tiled(b, e) /\ NoFreePair(b) /\ Owned(b, lv)

\* Only a may be free behind a free block.
OnlyBefore(b, a) ==
  \A x, y \in DOMAIN b : End(b, x) = y /\ b[x].free /\ b[y].free => y = a

\* The header of a live allocation.
LEMMA HeaderOf ==
  ASSUME NEW b, NEW e, Tiled(b, e), NEW lv, Owned(b, lv)
  PROVE  /\ \A p \in DOMAIN lv : /\ p \in Nat /\ p - HDR \in Used(b) /\ (p - HDR) + HDR = p
                                 /\ lv[p] \in Nat /\ lv[p] <= b[p - HDR].size
         /\ \A a \in Used(b) : a + HDR \in DOMAIN lv /\ (a + HDR) - HDR = a /\ a \in Nat
<1>1. HDR \in Nat /\ \A a \in Used(b) : a \in Nat
  BY TiledFacts DEF Used
<1>2. ASSUME NEW a \in Used(b) PROVE a + HDR \in DOMAIN lv /\ (a + HDR) - HDR = a
  BY <1>1 DEF Owned
<1>3. ASSUME NEW p \in DOMAIN lv PROVE p \in Nat /\ p - HDR \in Used(b) /\ (p - HDR) + HDR = p
  <2>1. PICK a \in Used(b) : p = a + HDR
    BY <1>3 DEF Owned
  <2>2. a \in Nat /\ HDR \in Nat
    BY <1>1
  <2> QED BY <2>1, <2>2
<1>4. \A p \in DOMAIN lv : lv[p] \in Nat /\ lv[p] <= b[p - HDR].size
  BY MemoryAssumption DEF Owned
<1> QED BY <1>1, <1>2, <1>3, <1>4

\* kmalloc takes the block a for req bytes.
LEMMA TakeOK ==
  ASSUME NEW b, NEW e, Tiled(b, e), NEW lv, Owned(b, lv), NEW a \in DOMAIN b, OnlyBefore(b, a),
         NEW req \in Sizes \ {0}, Fits(b, a, ALIGN_UP(req, ALIGN)),
         NEW g, g = take(b, a, ALIGN_UP(req, ALIGN)),
         NEW lw, lw = [x \in DOMAIN lv \cup {a + HDR} |-> IF x = a + HDR THEN req ELSE lv[x]]
  PROVE  HeapOK(g, e, lw) /\ a + HDR \notin DOMAIN lv /\ DOMAIN g # {}
<1> DEFINE size == ALIGN_UP(req, ALIGN)
           new == a + HDR + size
<1>0. size \in Nat /\ size >= req /\ size % ALIGN = 0 /\ req \in Nat
  BY SizeRounded, MemoryAssumption
<1>1. g = take(b, a, size) /\ Fits(b, a, size)
  OBVIOUS
<1> HIDE DEF size
<1>2. new = a + HDR + size
  OBVIOUS
<1> HIDE DEF new
<1>3. /\ Tiled(g, e) /\ DOMAIN b \subseteq DOMAIN g /\ DOMAIN g \subseteq DOMAIN b \cup {new}
      /\ g[a].free = FALSE /\ g[a].size >= size
      /\ \A x \in DOMAIN b \ {a} : /\ g[x].free = b[x].free /\ g[x].size = b[x].size
                                   /\ End(g, x) = End(b, x)
      /\ \A x \in DOMAIN g \ DOMAIN b :
           g[x].free = TRUE /\ End(g, x) = End(b, a) /\ End(g, a) = x
      /\ DOMAIN g = DOMAIN b => End(g, a) = End(b, a)
  <2>1. Taken(b, e, a, new, size, g)
    BY <1>0, <1>1, <1>2, TakeTiled
  <2> QED BY <2>1 DEF Taken
<1>4. a \notin Used(b) /\ b[a].free
  BY <1>1 DEF Used, Fits
<1>5. Used(g) = Used(b) \cup {a}
  <2>1. ASSUME NEW x \in DOMAIN g PROVE x \in Used(g) <=> x \in Used(b) \cup {a}
    <3>1. CASE x \in DOMAIN b \ {a}
      BY <1>3, <3>1 DEF Used
    <3>2. CASE x = a
      BY <1>3, <3>2 DEF Used
    <3>3. CASE x \in DOMAIN g \ DOMAIN b
      BY <1>3, <3>3 DEF Used
    <3> QED BY <3>1, <3>2, <3>3
  <2>2. Used(g) \subseteq DOMAIN g /\ Used(b) \cup {a} \subseteq DOMAIN g
    BY <1>3 DEF Used
  <2> QED BY <2>1, <2>2
<1>6. NoFreePair(g)
  <2> SUFFICES ASSUME NEW x \in DOMAIN g, NEW y \in DOMAIN g, End(g, x) = y, g[x].free, g[y].free
               PROVE  FALSE
    BY DEF NoFreePair
  <2>1. x # a /\ y # a
    BY <1>3
  <2>2. /\ \A z \in DOMAIN b : z \in Nat /\ End(b, z) \in Nat /\ z < End(b, z)
        /\ \A z \in DOMAIN g : z \in Nat /\ End(g, z) \in Nat /\ z < End(g, z)
        /\ \A z, w \in DOMAIN g : End(g, z) = End(g, w) => z = w
    BY <1>3, TiledFacts
  <2>3. CASE x \in DOMAIN b /\ y \in DOMAIN b
    BY <1>3, <2>1, <2>3 DEF OnlyBefore
  <2>4. CASE y \notin DOMAIN b
    <3>1. End(g, a) = y
      BY <1>3, <2>4
    <3> QED BY <1>3, <2>1, <2>2, <3>1
  <2>5. CASE x \notin DOMAIN b /\ y \in DOMAIN b
    <3>1. End(b, a) = y /\ b[y].free
      BY <1>3, <2>1, <2>5
    <3> QED BY <1>4, <2>1, <2>5, <3>1 DEF OnlyBefore
  <2> QED BY <2>3, <2>4, <2>5
<1>7. /\ \A p \in DOMAIN lv : /\ p \in Nat /\ p - HDR \in Used(b) /\ (p - HDR) + HDR = p
                              /\ lv[p] \in Nat /\ lv[p] <= b[p - HDR].size
      /\ \A x \in Used(b) : x + HDR \in DOMAIN lv
      /\ {x + HDR : x \in Used(b)} = DOMAIN lv
  BY HeaderOf DEF Owned
<1>8. a \in Nat /\ HDR \in Nat /\ (a + HDR) - HDR = a
  BY TiledFacts
<1>9. a + HDR \notin DOMAIN lv
  BY <1>4, <1>7, <1>8
<1>10. Owned(g, lw)
  <2>1. {x + HDR : x \in Used(g)} = DOMAIN lw
    <3>1. {x + HDR : x \in Used(g)} = {x + HDR : x \in Used(b)} \cup {a + HDR}
      BY <1>5
    <3> QED BY <1>7, <3>1
  <2>2. ASSUME NEW p \in DOMAIN lw PROVE lw[p] \in Sizes \ {0} /\ lw[p] <= g[p - HDR].size
    <3>1. CASE p = a + HDR
      <4>1. lw[p] = req /\ p - HDR = a
        BY <1>8, <3>1
      <4>2. g[a].size \in Nat
        BY <1>3, TiledFacts
      <4> QED BY <1>0, <1>3, <4>1, <4>2
    <3>2. CASE p \in DOMAIN lv /\ p # a + HDR
      <4>1. lw[p] = lv[p]
        BY <3>2
      <4>2. p - HDR \in DOMAIN b \ {a}
        BY <1>4, <1>7, <3>2 DEF Used
      <4> QED BY <1>3, <1>7, <3>2, <4>1, <4>2 DEF Owned
    <3> QED BY <2>2, <3>1, <3>2
  <2> QED BY <2>1, <2>2 DEF Owned
<1> QED BY <1>3, <1>6, <1>9, <1>10 DEF HeapOK

\* kfree frees the block of ptr.
LEMMA ReleaseOK ==
  ASSUME NEW b, NEW e, NEW lv, HeapOK(b, e, lv), NEW ptr \in DOMAIN lv,
         NEW g, g = release(b, ptr - HDR),
         NEW lw, lw = [x \in DOMAIN lv \ {ptr} |-> lv[x]]
  PROVE  HeapOK(g, e, lw) /\ DOMAIN g # {}
<1> DEFINE a == ptr - HDR
<1>0. Tiled(b, e) /\ NoFreePair(b) /\ Owned(b, lv)
  BY DEF HeapOK
<1>1. /\ \A p \in DOMAIN lv : /\ p \in Nat /\ p - HDR \in Used(b) /\ (p - HDR) + HDR = p
                              /\ lv[p] \in Nat /\ lv[p] <= b[p - HDR].size
      /\ \A x \in Used(b) : x + HDR \in DOMAIN lv /\ (x + HDR) - HDR = x /\ x \in Nat
      /\ {x + HDR : x \in Used(b)} = DOMAIN lv
  BY <1>0, HeaderOf DEF Owned
<1>2. a \in Used(b) /\ g = release(b, a) /\ a + HDR = ptr
  BY <1>1
<1> HIDE DEF a
<1>3. /\ Tiled(g, e) /\ NoFreePair(g) /\ Used(g) = Used(b) \ {a} /\ DOMAIN g # {}
      /\ \A x \in Used(g) : g[x].size >= b[x].size
  BY <1>0, <1>2, ReleaseTiled
<1>4. {x + HDR : x \in Used(g)} = DOMAIN lw
  <2>1. DOMAIN lw = DOMAIN lv \ {ptr}
    OBVIOUS
  <2>2. ASSUME NEW x \in Used(g) PROVE x + HDR \in DOMAIN lw
    <3>1. x \in Used(b) /\ x # a
      BY <1>3
    <3> QED BY <1>1, <1>2, <2>1, <3>1
  <2>3. ASSUME NEW p \in DOMAIN lw PROVE \E x \in Used(g) : x + HDR = p
    <3>1. p \in DOMAIN lv /\ p # ptr
      BY <2>1
    <3>2. p - HDR \in Used(g)
      BY <1>1, <1>2, <1>3, <3>1
    <3> QED BY <1>1, <3>1, <3>2
  <2> QED BY <2>2, <2>3
<1>5. ASSUME NEW p \in DOMAIN lw PROVE lw[p] \in Sizes \ {0} /\ lw[p] <= g[p - HDR].size
  <2>1. p \in DOMAIN lv /\ p # ptr /\ lw[p] = lv[p]
    OBVIOUS
  <2>2. p - HDR \in Used(g) /\ p - HDR \in Used(b)
    BY <1>1, <1>2, <1>3, <2>1
  <2>3. g[p - HDR].size \in Nat /\ b[p - HDR].size \in Nat /\ lv[p] \in Nat
    BY <1>0, <1>1, <1>3, <2>1, <2>2, TiledFacts DEF Used
  <2>4. g[p - HDR].size >= b[p - HDR].size /\ lv[p] <= b[p - HDR].size
    BY <1>1, <1>3, <2>1, <2>2
  <2> QED BY <1>0, <2>1, <2>3, <2>4 DEF Owned
<1> QED BY <1>3, <1>4, <1>5 DEF HeapOK, Owned

----------------------------------------------------------------------------
(* The heap under its calls *)

\* The pages that kmalloc has asked for, and where the list ends: what
\* heap_expand has mapped so far is not in it yet.
Pages  == IF DOMAIN blk = {} THEN 1 ELSE PagesIn(ALIGN_UP(call.arg, ALIGN) + HDR)
BlkEnd == IF call.op = "kmalloc" THEN heap_brk - (Pages - call.left) * PAGE_SIZE ELSE heap_brk

\* A kmalloc that waits for pages: no block of the list would do.
Waits(b, lv, c) ==
  /\ c.arg \in Sizes \ {0} /\ c.ptr \in {NULL} \cup DOMAIN lv
  /\ \A a \in DOMAIN b : ~Fits(b, a, ALIGN_UP(c.arg, ALIGN))

HeapInv == HeapOK(blk, BlkEnd, live) /\ (call.op = "kmalloc" => Waits(blk, live, call))

\* The loop of kmalloc over a list that ends at heap_brk.
LEMMA SearchOK ==
  ASSUME NEW b, Tiled(b, heap_brk), Owned(b, live), DOMAIN b # {},
         NEW req \in Sizes \ {0}, NEW ptr \in {NULL} \cup DOMAIN live,
         \A a \in DOMAIN b : Fits(b, a, ALIGN_UP(req, ALIGN)) => OnlyBefore(b, a),
         NoFit(b, ALIGN_UP(req, ALIGN)) => NoFreePair(b),
         heap_brk' = heap_brk, heap_brk \in Nat, search(b, req, ptr)
  PROVE  HeapInv'
<1> DEFINE size == ALIGN_UP(req, ALIGN)
<1>1. ASSUME NEW a \in DOMAIN b, FirstFit(b, size, a),
             blk' = IF ptr = NULL THEN take(b, a, size) ELSE release(take(b, a, size), ptr - HDR),
             live' = [x \in (DOMAIN live \ {ptr}) \cup {a + HDR} |->
                        IF x = a + HDR THEN req ELSE live[x]],
             call' = NoCall
      PROVE  HeapInv'
  <2> DEFINE g == take(b, a, size)
             lw == [x \in DOMAIN live \cup {a + HDR} |-> IF x = a + HDR THEN req ELSE live[x]]
  <2>1. Fits(b, a, size) /\ OnlyBefore(b, a)
    BY <1>1 DEF FirstFit
  <2>2. HeapOK(g, heap_brk, lw) /\ a + HDR \notin DOMAIN live /\ DOMAIN g # {}
    <3>1. g = take(b, a, ALIGN_UP(req, ALIGN))
      OBVIOUS
    <3>2. lw = [x \in DOMAIN live \cup {a + HDR} |-> IF x = a + HDR THEN req ELSE live[x]]
      OBVIOUS
    <3> HIDE DEF g, lw
    <3> QED BY <2>1, <3>1, <3>2, TakeOK
  <2>3. HeapOK(blk', heap_brk, live')
    <3>1. CASE ptr = NULL
      <4>1. NULL \notin DOMAIN live
        BY HeaderOf, KHeapAssumption
      <4>2. live' = lw /\ blk' = g
        BY <1>1, <3>1, <4>1
      <4> QED BY <2>2, <4>2
    <3>2. CASE ptr # NULL
      <4>1. blk' = release(g, ptr - HDR) /\ ptr \in DOMAIN lw /\ ptr # a + HDR
        BY <1>1, <2>2, <3>2
      <4>2. live' = [x \in DOMAIN lw \ {ptr} |-> lw[x]]
        BY <1>1, <4>1
      <4> HIDE DEF g, lw
      <4> QED BY <2>2, <4>1, <4>2, ReleaseOK
    <3> QED BY <3>1, <3>2
  <2>4. call'.op = "none"
    BY <1>1 DEF NoCall
  <2> QED BY <2>3, <2>4 DEF HeapInv, BlkEnd
<1>2. ASSUME NoFit(b, size), blk' = b, live' = live,
             call' = [op |-> "kmalloc", va |-> PageOf(heap_brk), left |-> PagesIn(size + HDR),
                      arg |-> req, ptr |-> ptr]
      PROVE  HeapInv'
  <2>1. \A a \in DOMAIN b : ~Fits(b, a, size)
    BY <1>2, NoneFits
  <2>2. call'.op = "kmalloc" /\ call'.left = PagesIn(size + HDR) /\ call'.arg = req /\ call'.ptr = ptr
    BY <1>2
  <2>3. Pages' = PagesIn(size + HDR)
    BY <1>2, <2>2 DEF Pages
  <2>4. size + HDR \in Nat
    BY SizeRounded, MemoryAssumption, KHeapAssumption
  <2>5. PagesIn(size + HDR) \in Nat /\ PAGE_SIZE \in Nat
    BY <2>4, PagesInType, PmmAssumption
  <2>6. BlkEnd' = heap_brk
    BY <2>2, <2>3, <2>5 DEF BlkEnd
  <2>7. HeapOK(blk', BlkEnd', live')
    BY <1>2, <2>6 DEF HeapOK
  <2>8. Waits(blk', live', call')
    BY <1>2, <2>1, <2>2 DEF Waits
  <2> QED BY <2>7, <2>8 DEF HeapInv
<1> QED BY <1>1, <1>2 DEF search

\* kmalloc begins: the list ends at heap_brk.
LEMMA MallocOK ==
  ASSUME HeapInv, BackInv, Ready, NEW req \in Sizes \ {0}, NEW ptr \in {NULL} \cup DOMAIN live,
         kmalloc_for(req, ptr)
  PROVE  HeapInv'
<1>1. heap_brk \in Nat /\ PAGE_SIZE \in Nat /\ heap_brk' = heap_brk
  BY PmmAssumption DEF BackInv, HeapBacked, kmalloc_for
<1>2. BlkEnd = heap_brk
  BY DEF Ready, NoCall, BlkEnd
<1>3. HeapOK(blk, heap_brk, live)
  BY <1>2 DEF HeapInv
<1>4. CASE DOMAIN blk = {}
  <2>1. call' = [op |-> "kmalloc", va |-> PageOf(heap_brk), left |-> 1, arg |-> req, ptr |-> ptr]
        /\ blk' = blk /\ live' = live
    BY <1>4 DEF kmalloc_for
  <2>2. call'.op = "kmalloc" /\ call'.left = 1 /\ call'.arg = req /\ call'.ptr = ptr
    BY <2>1
  <2>3. BlkEnd' = heap_brk
    BY <1>1, <1>4, <2>1, <2>2 DEF BlkEnd, Pages
  <2>4. Waits(blk', live', call')
    BY <1>4, <2>1, <2>2 DEF Waits
  <2> QED BY <1>3, <2>1, <2>3, <2>4 DEF HeapInv
<1>5. CASE DOMAIN blk # {}
  <2>1. search(blk, req, ptr)
    BY <1>5 DEF kmalloc_for
  <2>2. Tiled(blk, heap_brk) /\ NoFreePair(blk) /\ Owned(blk, live)
    BY <1>3 DEF HeapOK
  <2>3. \A a \in DOMAIN blk : OnlyBefore(blk, a)
    BY <2>2 DEF NoFreePair, OnlyBefore
  <2> QED BY <1>1, <1>5, <2>1, <2>2, <2>3, SearchOK
<1> QED BY <1>4, <1>5

\* heap_expand moves heap_brk and leaves the list alone.
LEMMA ExpandOK ==
  ASSUME HeapInv, BackInv, heap_expand
  PROVE  HeapInv'
<1> DEFINE m == alloc_and_map(mm, call.va)
<1>1. /\ call.op = "kmalloc" /\ blk' = blk /\ live' = live
      /\ \/ heap_brk' = heap_brk /\ call' = call
         \/ heap_brk' = heap_brk + PAGE_SIZE /\ call' = [call EXCEPT !.va = @ + 1, !.left = @ - 1]
  BY DEF heap_expand
<1>2. heap_brk \in Nat /\ IsCall(call) /\ PAGE_SIZE \in Nat
  BY PmmAssumption DEF BackInv, HeapBacked
<1>3. CASE heap_brk' = heap_brk /\ call' = call
  BY <1>1, <1>3 DEF HeapInv, BlkEnd, Pages
<1>4. CASE heap_brk' = heap_brk + PAGE_SIZE /\ call' = [call EXCEPT !.va = @ + 1, !.left = @ - 1]
  <2>1. call'.op = "kmalloc" /\ call'.left = call.left - 1 /\ call'.arg = call.arg /\ call'.ptr = call.ptr
    BY <1>1, <1>2, <1>4 DEF IsCall
  <2>2. Pages' = Pages
    BY <1>1, <2>1 DEF Pages
  <2>3. Pages \in Nat /\ call.left \in Int
    <3>1. call.arg \in Nat
      BY <1>1, MemoryAssumption DEF HeapInv, Waits
    <3>2. ALIGN_UP(call.arg, ALIGN) + HDR \in Nat
      BY <3>1, SizeRounded, KHeapAssumption
    <3> QED BY <1>2, <3>2, PagesInType DEF Pages, IsCall
  <2>4. BlkEnd' = (heap_brk + PAGE_SIZE) - (Pages - (call.left - 1)) * PAGE_SIZE
        /\ BlkEnd = heap_brk - (Pages - call.left) * PAGE_SIZE
    <3>1. BlkEnd' = heap_brk' - (Pages' - call'.left) * PAGE_SIZE
      BY <2>1 DEF BlkEnd
    <3>2. BlkEnd = heap_brk - (Pages - call.left) * PAGE_SIZE
      BY <1>1 DEF BlkEnd
    <3>3. Pages' - call'.left = Pages - (call.left - 1) /\ heap_brk' = heap_brk + PAGE_SIZE
      BY <1>4, <2>1, <2>2
    <3> QED BY <3>1, <3>2, <3>3
  <2>5. BlkEnd' = BlkEnd
    <3>1. \A i \in Nat, j \in Int, k \in Nat, n \in Nat :
            (n + k) - (i - (j - 1)) * k = n - (i - j) * k
      OBVIOUS
    <3> QED BY <1>2, <2>3, <2>4, <3>1
  <2>6. Waits(blk', live', call')
    BY <1>1, <2>1 DEF HeapInv, Waits
  <2> QED BY <1>1, <2>5, <2>6 DEF HeapInv
<1> QED BY <1>1, <1>3, <1>4

\* The block that kmalloc appends when heap_expand has returned.
LEMMA RetryBlock ==
  ASSUME HeapInv, BackInv, call.op = "kmalloc", call.left = 0, NEW b,
         b = append(blk, heap_brk - Pages * PAGE_SIZE, Pages * PAGE_SIZE - HDR)
  PROVE  /\ Tiled(b, heap_brk) /\ Owned(b, live) /\ DOMAIN b # {} /\ heap_brk \in Nat
         /\ \A a \in DOMAIN b : Fits(b, a, ALIGN_UP(call.arg, ALIGN)) => OnlyBefore(b, a)
         /\ NoFit(b, ALIGN_UP(call.arg, ALIGN)) => NoFreePair(b)
<1> DEFINE size == ALIGN_UP(call.arg, ALIGN)
           e == heap_brk - Pages * PAGE_SIZE
           n == Pages * PAGE_SIZE - HDR
<1>1. call.arg \in Nat /\ Waits(blk, live, call)
  BY MemoryAssumption DEF HeapInv, Waits
<1>2. size \in Nat /\ HDR \in Nat /\ size + HDR \in Nat /\ PAGE_SIZE \in Nat /\ HDR < PAGE_SIZE
  BY <1>1, SizeRounded, KHeapAssumption, PmmAssumption
<1> HIDE DEF size
<1>3. Pages \in Nat /\ Pages * PAGE_SIZE \in Nat /\ n \in Nat
      /\ (DOMAIN blk # {} => n >= size)
  <2>1. CASE DOMAIN blk = {}
    BY <1>2, <2>1 DEF Pages
  <2>2. CASE DOMAIN blk # {}
    <3>1. Pages = PagesIn(size + HDR)
      BY <2>2 DEF Pages, size
    <3>2. Pages \in Nat /\ Pages * PAGE_SIZE \in Nat /\ Pages * PAGE_SIZE >= size + HDR
      BY <1>2, <3>1, PagesEnough
    <3> QED BY <1>2, <2>2, <3>2
  <2> QED BY <2>1, <2>2
<1>4. n % ALIGN = 0
  <2>1. (Pages * PAGE_SIZE) % ALIGN = 0 /\ HDR % ALIGN = 0
    BY <1>3, PagesAligned, KHeapAssumption
  <2>2. Pages * PAGE_SIZE \in Int /\ HDR \in Int
    BY <1>2, <1>3
  <2> QED BY <2>1, <2>2, SumAligned, Zenon
<1>5. heap_brk \in Nat
  BY DEF BackInv, HeapBacked
<1>6. BlkEnd = e
  BY <1>3 DEF BlkEnd
<1>7. Tiled(blk, e) /\ NoFreePair(blk) /\ Owned(blk, live)
  BY <1>6 DEF HeapInv, HeapOK
<1>8. b = append(blk, e, n)
  OBVIOUS
<1>9. e \in Int /\ e + HDR + n = heap_brk
  BY <1>2, <1>3, <1>5
<1> HIDE DEF e, n
<1>10. /\ Tiled(b, heap_brk) /\ DOMAIN b = DOMAIN blk \cup {e} /\ e \notin DOMAIN blk
       /\ b[e].free = TRUE /\ b[e].size = n /\ End(b, e) = heap_brk
       /\ \A x \in DOMAIN blk : /\ b[x].free = blk[x].free /\ b[x].size = blk[x].size
                                /\ End(b, x) = End(blk, x)
  <2>1. Appended(blk, e, n, b)
    BY <1>3, <1>4, <1>7, <1>8, AppendTiled
  <2> QED BY <1>9, <2>1 DEF Appended
<1>11. Used(b) = Used(blk)
  BY <1>10 DEF Used
<1>12. Owned(b, live)
  <2>1. ASSUME NEW p \in DOMAIN live PROVE b[p - HDR].size = blk[p - HDR].size
    <3>1. p - HDR \in DOMAIN blk
      BY <1>7, HeaderOf DEF Used
    <3> QED BY <1>10, <3>1
  <2> QED BY <1>7, <1>11, <2>1 DEF Owned
<1>13. heap_brk \notin DOMAIN b
  BY <1>10, TiledFacts
<1>14. OnlyBefore(b, e)
  <2> SUFFICES ASSUME NEW x \in DOMAIN b, NEW y \in DOMAIN b, End(b, x) = y, b[x].free, b[y].free,
                      y # e
               PROVE  FALSE
    BY DEF OnlyBefore
  <2>1. x # e
    BY <1>10, <1>13
  <2> QED BY <1>7, <1>10, <2>1 DEF NoFreePair
<1>15. ASSUME NEW a \in DOMAIN b, Fits(b, a, size) PROVE a = e
  <2>1. ASSUME a \in DOMAIN blk PROVE FALSE
    <3>1. Fits(blk, a, size)
      BY <1>10, <1>15, <2>1 DEF Fits
    <3> QED BY <1>1, <2>1, <3>1 DEF Waits, size
  <2> QED BY <1>10, <2>1
<1>16. ASSUME NoFit(b, size) PROVE NoFreePair(b)
  <2>1. ~Fits(b, e, size)
    BY <1>10, <1>16, NoneFits
  <2>2. DOMAIN blk = {}
    BY <1>3, <1>10, <2>1 DEF Fits
  <2> QED BY <1>10, <1>13, <2>2 DEF NoFreePair
<1> QED BY <1>5, <1>10, <1>12, <1>14, <1>15, <1>16 DEF size

\* kmalloc retries with the fresh block at the end of its list.
LEMMA RetryOK ==
  ASSUME HeapInv, BackInv, kmalloc_retry
  PROVE  HeapInv'
<1> DEFINE b == append(blk, heap_brk - Pages * PAGE_SIZE, Pages * PAGE_SIZE - HDR)
<1>1. /\ call.op = "kmalloc" /\ call.left = 0 /\ heap_brk' = heap_brk
      /\ search(b, call.arg, call.ptr)
  BY DEF kmalloc_retry, Pages
<1>2. call.arg \in Sizes \ {0} /\ call.ptr \in {NULL} \cup DOMAIN live
  BY <1>1 DEF HeapInv, Waits
<1>3. b = append(blk, heap_brk - Pages * PAGE_SIZE, Pages * PAGE_SIZE - HDR)
  OBVIOUS
<1> HIDE DEF b
<1>4. /\ Tiled(b, heap_brk) /\ Owned(b, live) /\ DOMAIN b # {} /\ heap_brk \in Nat
      /\ \A a \in DOMAIN b : Fits(b, a, ALIGN_UP(call.arg, ALIGN)) => OnlyBefore(b, a)
      /\ NoFit(b, ALIGN_UP(call.arg, ALIGN)) => NoFreePair(b)
  BY <1>1, <1>3, RetryBlock
<1> QED BY <1>1, <1>2, <1>4, SearchOK

\* kfree keeps the invariant.
LEMMA FreeOK ==
  ASSUME HeapInv, NEW ptr \in DOMAIN live, kfree(ptr)
  PROVE  HeapInv'
<1>1. /\ call = NoCall /\ call' = NoCall /\ heap_brk' = heap_brk
      /\ blk' = release(blk, ptr - HDR) /\ live' = [x \in DOMAIN live \ {ptr} |-> live[x]]
  BY DEF kfree, Ready, Without
<1>2. BlkEnd = heap_brk /\ BlkEnd' = heap_brk /\ call'.op # "kmalloc"
  BY <1>1 DEF BlkEnd, NoCall
<1>3. HeapOK(blk, heap_brk, live)
  BY <1>2 DEF HeapInv
<1>4. HeapOK(blk', heap_brk, live')
  BY <1>1, <1>3, ReleaseOK
<1> QED BY <1>2, <1>4 DEF HeapInv

\* krealloc frees, stays in place, or allocates as kmalloc does.
LEMMA ReallocOK ==
  ASSUME HeapInv, BackInv, NEW ptr \in DOMAIN live, NEW req \in Sizes, krealloc(ptr, req)
  PROVE  HeapInv'
<1>1. CASE req = 0
  BY <1>1, FreeOK DEF krealloc
<1>2. CASE req # 0 /\ ~(blk[ptr - HDR].size >= req)
  BY <1>2, MallocOK DEF krealloc
<1>3. CASE req # 0 /\ blk[ptr - HDR].size >= req
  <2>1. live' = [live EXCEPT ![ptr] = req] /\ UNCHANGED <<blk, heap_brk, call>> /\ call = NoCall
    BY <1>3 DEF krealloc, Ready
  <2>2. BlkEnd' = BlkEnd /\ call'.op # "kmalloc" /\ HeapOK(blk, BlkEnd, live)
    BY <2>1 DEF BlkEnd, NoCall, HeapInv
  <2>3. Tiled(blk, BlkEnd) /\ Owned(blk, live)
    BY <2>2 DEF HeapOK
  <2>4. req \in Nat /\ ptr - HDR \in DOMAIN blk /\ blk[ptr - HDR].size \in Nat
    BY <2>3, HeaderOf, TiledFacts, MemoryAssumption DEF Used
  <2>5. Owned(blk, live')
    BY <1>3, <2>1, <2>3, <2>4 DEF Owned
  <2> QED BY <2>1, <2>2, <2>5 DEF HeapInv, HeapOK
<1> QED BY <1>1, <1>2, <1>3

\* Every call keeps the list of blocks and the live allocations in step.
LEMMA HeapStep ==
  ASSUME BackInv, HeapInv, [Next]_vars
  PROVE  HeapInv'
<1>1. CASE UNCHANGED <<blk, heap_brk, live, call>>
  BY <1>1 DEF HeapInv, BlkEnd, Pages
<1>2. ASSUME UNCHANGED <<blk, heap_brk, live>>, call.op # "kmalloc", call'.op # "kmalloc"
      PROVE  HeapInv'
  BY <1>2 DEF HeapInv, BlkEnd
<1>3. ASSUME NEW req \in Sizes, kmalloc(req) PROVE HeapInv'
  BY <1>3, MallocOK DEF kmalloc
<1>4. ASSUME NEW v, NEW n, sys_brk(v) \/ sys_mmap(v) \/ sys_mmap_at(v, n) PROVE HeapInv'
  <2>1. UNCHANGED <<blk, heap_brk, live>> /\ call.op # "kmalloc" /\ call'.op # "kmalloc"
    BY <1>4 DEF sys_brk, sys_mmap, sys_mmap_at, Ready, NoCall
  <2> QED BY <1>2, <2>1
<1>5. CASE map_user_page
  <2>1. UNCHANGED <<blk, heap_brk, live>> /\ call.op = "user" /\ IsCall(call)
        /\ call' = [call EXCEPT !.va = @ + 1, !.left = @ - 1]
    BY <1>5 DEF map_user_page, BackInv
  <2>2. call'.op = "user"
    BY <2>1 DEF IsCall
  <2> QED BY <1>2, <2>1, <2>2
<1>6. CASE user_return
  <2>1. UNCHANGED <<blk, heap_brk, live>> /\ call.op # "kmalloc" /\ call'.op # "kmalloc"
    BY <1>6 DEF user_return, NoCall
  <2> QED BY <1>2, <2>1
<1>7. ASSUME NEW v, unmap_user_page(v) \/ give_page(v) PROVE HeapInv'
  BY <1>1, <1>7 DEF unmap_user_page, give_page
<1>8. CASE take_page \/ UNCHANGED vars
  BY <1>1, <1>8 DEF take_page, vars
<1> QED
  BY <1>3, <1>4, <1>5, <1>6, <1>7, <1>8, FreeOK, ReallocOK, ExpandOK, RetryOK DEF Next

\* The heap starts empty.
LEMMA HeapInit ==
  ASSUME Init
  PROVE  HeapInv
<1>1. DOMAIN blk = {} /\ DOMAIN live = {} /\ heap_brk = HEAP_START /\ call.op = "none"
  BY DEF Init, NoCall
<1>2. HEAP_START \in Nat /\ IsFiniteSet({})
  BY KHeapAssumption, PmmAssumption, FS_EmptySet DEF HEAP_START
<1>3. blk \in [DOMAIN blk -> Block]
  BY <1>1 DEF Init
<1>4. Tiled(blk, heap_brk)
  BY <1>1, <1>2, <1>3 DEF Tiled
<1>5. NoFreePair(blk) /\ Owned(blk, live)
  BY <1>1 DEF NoFreePair, Owned, Used
<1> QED BY <1>1, <1>4, <1>5 DEF HeapInv, HeapOK, BlkEnd

\* Between calls the list tiles the heap.
LEMMA TilesReady ==
  ASSUME HeapInv
  PROVE  HeapTiled /\ NothingLeaked
<1>1. ASSUME Ready PROVE HeapOK(blk, heap_brk, live)
  BY <1>1 DEF HeapInv, BlkEnd, Ready, NoCall
<1>2. HeapTiled
  <2> SUFFICES ASSUME Ready, DOMAIN blk # {} PROVE HeapTiled
    BY DEF HeapTiled
  <2>1. Tiled(blk, heap_brk) /\ NoFreePair(blk)
    BY <1>1 DEF HeapOK
  <2>2. HEAP_START \in DOMAIN blk /\ blk[HEAP_START].prev = NULL
    BY <2>1 DEF Tiled, BlockOK
  <2>3. ASSUME NEW a \in DOMAIN blk
        PROVE  /\ blk[a].size % ALIGN = 0
               /\ IF blk[a].next = NULL THEN End(blk, a) = heap_brk
                  ELSE /\ blk[a].next = End(blk, a) /\ End(blk, a) \in DOMAIN blk
                       /\ blk[End(blk, a)].prev = a
                       /\ ~(blk[a].free /\ blk[End(blk, a)].free)
    <3>1. BlockOK(blk, heap_brk, a) /\ End(blk, a) \in Nat /\ NULL \notin Nat
      BY <2>1, TiledFacts DEF Tiled
    <3>2. CASE End(blk, a) = heap_brk
      BY <3>1, <3>2 DEF BlockOK
    <3>3. CASE End(blk, a) # heap_brk
      <4> DEFINE c == End(blk, a)
      <4>1. c \in DOMAIN blk /\ blk[a].next = c /\ blk[a].next # NULL
        BY <3>1, <3>3 DEF BlockOK
      <4>2. ~(blk[a].free /\ blk[c].free)
        BY <2>1, <4>1 DEF NoFreePair
      <4>3. BlockOK(blk, heap_brk, c) /\ a < c /\ a >= HEAP_START /\ a \in Nat /\ c \in Nat /\ HEAP_START \in Nat
        BY <2>1, <3>1, <4>1, TiledFacts DEF Tiled, BlockOK
      <4>4. blk[c].prev \in DOMAIN blk /\ End(blk, blk[c].prev) = End(blk, a)
        <5> HIDE DEF c
        <5>1. c # HEAP_START
          BY <4>3
        <5> QED BY <4>3, <5>1 DEF BlockOK, c
      <4>5. blk[c].prev = a
        BY <2>1, <4>4, TiledFacts
      <4> QED BY <3>1, <4>1, <4>2, <4>5 DEF BlockOK
    <3> QED BY <3>2, <3>3
  <2> QED BY <2>2, <2>3 DEF HeapTiled, End
<1>3. NothingLeaked
  BY <1>1 DEF NothingLeaked, HeapOK, Owned, Used
<1> QED BY <1>2, <1>3

(***************************************************************************)
(* Whatever sequence of kmalloc, kfree and krealloc the kernel makes, and  *)
(* however many pages heap_expand had to get for them, between calls the   *)
(* blocks tile the heap up to heap_brk, next and prev agree, and no two    *)
(* free blocks touch.                                                      *)
(***************************************************************************)
THEOREM HeapTiledHolds == Spec => []HeapTiled
<1>1. Init => FrameInv /\ BackInv /\ HeapInv
  BY FrameInit, BackInit, HeapInit
<1>2. (FrameInv /\ BackInv /\ HeapInv) /\ [Next]_vars => (FrameInv /\ BackInv /\ HeapInv)'
  BY FrameStep, BackStep, HeapStep
<1>3. FrameInv /\ BackInv /\ HeapInv => HeapTiled
  BY TilesReady
<1> QED BY <1>1, <1>2, <1>3, PTL DEF Spec

(***************************************************************************)
(* A block is in use exactly when kmalloc or krealloc has returned it and  *)
(* nobody has freed it since: a krealloc that moves its block gives the    *)
(* old one back, however long it had to wait for pages.                    *)
(***************************************************************************)
THEOREM NothingLeakedHolds == Spec => []NothingLeaked
<1>1. Init => FrameInv /\ BackInv /\ HeapInv
  BY FrameInit, BackInit, HeapInit
<1>2. (FrameInv /\ BackInv /\ HeapInv) /\ [Next]_vars => (FrameInv /\ BackInv /\ HeapInv)'
  BY FrameStep, BackStep, HeapStep
<1>3. FrameInv /\ BackInv /\ HeapInv => NothingLeaked
  BY TilesReady
<1> QED BY <1>1, <1>2, <1>3, PTL DEF Spec

----------------------------------------------------------------------------
(* The heap implements an allocator *)

\* A live allocation lies inside its block, and the blocks lie apart.
LEMMA RangesApart ==
  ASSUME NEW b, NEW e, Tiled(b, e), NEW lv, Owned(b, lv), NEW a \in DOMAIN b, NEW req \in Nat,
         req <= b[a].size, NEW x \in DOMAIN lv, x # a + HDR
  PROVE  (x .. (x + lv[x] - 1)) \cap ((a + HDR) .. (a + HDR + req - 1)) = {}
<1> DEFINE y == x - HDR
<1>1. x \in Nat /\ y \in Used(b) /\ y + HDR = x /\ lv[x] \in Nat /\ lv[x] <= b[y].size
  BY HeaderOf
<1>2. y \in DOMAIN b
  BY <1>1 DEF Used
<1>3. HDR \in Nat /\ HDR > 0
  BY TiledFacts
<1>4. /\ a \in Nat /\ b[a].size \in Nat /\ End(b, a) = a + HDR + b[a].size
      /\ y \in Nat /\ b[y].size \in Nat /\ End(b, y) = y + HDR + b[y].size
  BY <1>2, TiledFacts
<1>5. (y < a => End(b, y) <= a) /\ (a < y => End(b, a) <= y)
  BY <1>2 DEF Tiled
<1> HIDE DEF y
<1>6. y < a \/ a < y
  BY <1>1, <1>3, <1>4
<1>7. x + lv[x] <= a \/ a + HDR + req <= y
  BY <1>1, <1>3, <1>4, <1>5, <1>6
<1> QED BY <1>1, <1>3, <1>4, <1>7

\* The block that kmalloc takes is a place that an allocator may choose.
LEMMA PlaceOK ==
  ASSUME NEW b, Tiled(b, heap_brk), Owned(b, live), NEW a \in DOMAIN b,
         NEW req \in Sizes, Fits(b, a, ALIGN_UP(req, ALIGN)), NEW old, heap_brk' = heap_brk,
         live' = [x \in (DOMAIN live \ old) \cup {a + HDR} |-> IF x = a + HDR THEN req ELSE live[x]]
  PROVE  Heap!Place(old, a + HDR, req) /\ a + HDR \in HEAP_START .. heap_brk
<1>1. req \in Nat /\ ALIGN_UP(req, ALIGN) \in Nat /\ ALIGN_UP(req, ALIGN) >= req
  BY SizeRounded, MemoryAssumption
<1>2. /\ HDR \in Nat /\ a \in Nat /\ b[a].size \in Nat /\ End(b, a) = a + HDR + b[a].size
      /\ End(b, a) <= heap_brk /\ heap_brk \in Nat /\ HEAP_START \in Nat
  BY TiledFacts
<1>3. a >= HEAP_START /\ a % ALIGN = 0 /\ HDR % ALIGN = 0
  BY KHeapAssumption DEF Tiled, BlockOK
<1>4. (a + HDR) % ALIGN = 0
  <2>1. a \in Int /\ HDR \in Int
    BY <1>2
  <2> QED BY <1>3, <2>1, SumAligned, Zenon
<1>5. req <= b[a].size /\ b[a].free
  BY <1>1, <1>2 DEF Fits
<1>6. a + HDR >= HEAP_START /\ a + HDR + req <= heap_brk /\ a + HDR \in Nat /\ a + HDR <= heap_brk
  BY <1>1, <1>2, <1>3, <1>5
<1>7. a + HDR \notin DOMAIN live
  <2>1. (a + HDR) - HDR = a /\ a \notin Used(b)
    BY <1>2, <1>5 DEF Used
  <2> QED BY <2>1, HeaderOf
<1>8. ASSUME NEW x \in DOMAIN live
      PROVE  Heap!Range2(live, x) \cap ((a + HDR) .. (a + HDR + req - 1)) = {}
  <2>1. x # a + HDR
    BY <1>7
  <2>2. (x .. (x + live[x] - 1)) \cap ((a + HDR) .. (a + HDR + req - 1)) = {}
    BY <1>1, <1>5, <2>1, RangesApart
  <2> QED BY <2>2 DEF Heap!Range2
<1>9. a + HDR \in HEAP_START .. heap_brk
  BY <1>2, <1>6
<1> QED BY <1>4, <1>6, <1>7, <1>8, <1>9 DEF Heap!Place

\* The loop of kmalloc ends with an allocation or a reallocation, or waits.
LEMMA SearchAllocates ==
  ASSUME NEW b, Tiled(b, heap_brk), Owned(b, live),
         NEW req \in Sizes, NEW ptr \in {NULL} \cup DOMAIN live,
         heap_brk' = heap_brk, search(b, req, ptr)
  PROVE  UNCHANGED <<live, heap_brk>> \/ Heap!AllocNext
<1> DEFINE size == ALIGN_UP(req, ALIGN)
<1>1. ASSUME NEW a \in DOMAIN b, FirstFit(b, size, a),
             live' = [x \in (DOMAIN live \ {ptr}) \cup {a + HDR} |->
                        IF x = a + HDR THEN req ELSE live[x]]
      PROVE  Heap!AllocNext
  <2>1. Fits(b, a, size)
    BY <1>1 DEF FirstFit
  <2>2. CASE ptr = NULL
    <3>1. NULL \notin DOMAIN live
      BY HeaderOf, KHeapAssumption
    <3>2. DOMAIN live \ {ptr} = DOMAIN live \ {}
      BY <2>2, <3>1
    <3>3. live' = [x \in (DOMAIN live \ {}) \cup {a + HDR} |-> IF x = a + HDR THEN req ELSE live[x]]
      BY <1>1, <3>2
    <3>4. Heap!Place({}, a + HDR, req) /\ a + HDR \in HEAP_START .. heap_brk
      BY <2>1, <3>3, PlaceOK
    <3> QED BY <3>4 DEF Heap!AllocNext, Heap!Allocate
  <2>3. CASE ptr # NULL
    <3>1. Heap!Place({ptr}, a + HDR, req) /\ a + HDR \in HEAP_START .. heap_brk
      BY <1>1, <2>1, PlaceOK
    <3>2. ptr \in DOMAIN live
      BY <2>3
    <3> QED BY <3>1, <3>2 DEF Heap!AllocNext, Heap!Reallocate
  <2> QED BY <2>2, <2>3
<1> QED BY <1>1 DEF search

\* kfree frees.
LEMMA FreeAllocates ==
  ASSUME NEW ptr \in DOMAIN live, kfree(ptr)
  PROVE  Heap!AllocNext
BY DEF kfree, Without, Heap!AllocNext, Heap!Free

\* kmalloc allocates, or goes to heap_expand.
LEMMA MallocAllocates ==
  ASSUME HeapInv, Ready, NEW req \in Sizes, NEW ptr \in {NULL} \cup DOMAIN live,
         kmalloc_for(req, ptr)
  PROVE  UNCHANGED <<live, heap_brk>> \/ Heap!AllocNext
<1>1. Tiled(blk, heap_brk) /\ Owned(blk, live)
  BY DEF HeapInv, HeapOK, BlkEnd, Ready, NoCall
<1>2. CASE DOMAIN blk = {}
  BY <1>2 DEF kmalloc_for
<1>3. CASE DOMAIN blk # {}
  <2>1. search(blk, req, ptr) /\ heap_brk' = heap_brk
    BY <1>3 DEF kmalloc_for
  <2> QED BY <1>1, <2>1, SearchAllocates
<1> QED BY <1>2, <1>3

\* krealloc frees, stays in place where it meets nobody, or moves.
LEMMA ReallocAllocates ==
  ASSUME HeapInv, NEW ptr \in DOMAIN live, NEW req \in Sizes, krealloc(ptr, req)
  PROVE  UNCHANGED <<live, heap_brk>> \/ Heap!AllocNext
<1>1. CASE req = 0
  BY <1>1, FreeAllocates DEF krealloc
<1>2. CASE req # 0 /\ ~(blk[ptr - HDR].size >= req)
  BY <1>2, MallocAllocates DEF krealloc
<1>3. CASE req # 0 /\ blk[ptr - HDR].size >= req
  <2> DEFINE a == ptr - HDR
  <2>1. live' = [live EXCEPT ![ptr] = req] /\ heap_brk' = heap_brk
    BY <1>3 DEF krealloc
  <2>2. Tiled(blk, heap_brk) /\ Owned(blk, live)
    BY DEF HeapInv, HeapOK, BlkEnd, Ready, NoCall, krealloc
  <2>3. a \in DOMAIN blk /\ a + HDR = ptr
    BY <2>2, HeaderOf DEF Used
  <2>4. /\ req \in Nat /\ HDR \in Nat /\ a \in Nat /\ blk[a].size \in Nat /\ heap_brk \in Nat
        /\ a + HDR + blk[a].size <= heap_brk
    BY <2>2, <2>3, TiledFacts, MemoryAssumption
  <2>5. req <= blk[a].size
    BY <1>3, <2>4
  <2> HIDE DEF a
  <2>6. ASSUME NEW x \in DOMAIN live \ {ptr}
        PROVE  Heap!Range2(live, x) \cap (ptr .. (ptr + req - 1)) = {}
    <3>1. (x .. (x + live[x] - 1)) \cap ((a + HDR) .. (a + HDR + req - 1)) = {}
      BY <2>2, <2>3, <2>4, <2>5, RangesApart
    <3> QED BY <2>3, <3>1 DEF Heap!Range2
  <2>7. ptr + req <= heap_brk
    BY <2>3, <2>4, <2>5
  <2> QED BY <2>1, <2>6, <2>7 DEF Heap!AllocNext, Heap!Reallocate
<1> QED BY <1>1, <1>2, <1>3

\* Every step of the kernel's memory is a step of the allocator or a stutter.
LEMMA StepAllocates ==
  ASSUME BackInv, HeapInv, [Next]_vars
  PROVE  [Heap!AllocNext]_<<live, heap_brk>>
<1>1. ASSUME NEW req \in Sizes, kmalloc(req) PROVE UNCHANGED <<live, heap_brk>> \/ Heap!AllocNext
  BY <1>1, MallocAllocates DEF kmalloc
<1>2. ASSUME NEW v, NEW n,
             \/ sys_brk(v) \/ sys_mmap(v) \/ sys_mmap_at(v, n) \/ unmap_user_page(v) \/ give_page(v)
      PROVE  UNCHANGED <<live, heap_brk>>
  BY <1>2 DEF sys_brk, sys_mmap, sys_mmap_at, unmap_user_page, give_page
<1>3. CASE map_user_page \/ user_return \/ take_page \/ UNCHANGED vars
  BY <1>3 DEF map_user_page, user_return, take_page, vars
<1>4. CASE heap_expand
  <2>1. live' = live /\ (heap_brk' = heap_brk \/ heap_brk' = heap_brk + PAGE_SIZE)
    BY <1>4 DEF heap_expand
  <2>2. heap_brk \in Nat /\ PAGE_SIZE \in Nat \ {0}
    BY PmmAssumption DEF BackInv, HeapBacked
  <2> QED BY <2>1, <2>2 DEF Heap!AllocNext, Heap!Grow
<1>5. CASE kmalloc_retry
  <2> DEFINE b == append(blk, heap_brk - Pages * PAGE_SIZE, Pages * PAGE_SIZE - HDR)
  <2>1. /\ call.op = "kmalloc" /\ call.left = 0 /\ heap_brk' = heap_brk
        /\ search(b, call.arg, call.ptr)
    BY <1>5 DEF kmalloc_retry, Pages
  <2>2. call.arg \in Sizes /\ call.ptr \in {NULL} \cup DOMAIN live
    BY <2>1 DEF HeapInv, Waits
  <2>3. b = append(blk, heap_brk - Pages * PAGE_SIZE, Pages * PAGE_SIZE - HDR)
    OBVIOUS
  <2> HIDE DEF b
  <2>4. Tiled(b, heap_brk) /\ Owned(b, live)
    BY <2>1, <2>3, RetryBlock
  <2> QED BY <2>1, <2>2, <2>4, SearchAllocates
<1> QED BY <1>1, <1>2, <1>3, <1>4, <1>5, FreeAllocates, ReallocAllocates DEF Next

(***************************************************************************)
(* The first-fit list of vmm.c, with its splitting, coalescing and growth  *)
(* a page at a time, implements an allocator: what kmalloc and krealloc    *)
(* return is aligned, inside the heap, large enough and apart from every   *)
(* live allocation, and live allocations stay put.                         *)
(***************************************************************************)
THEOREM HeapIsAllocator == Spec => ImplementsAllocator
<1>1. Init => FrameInv /\ BackInv /\ HeapInv
  BY FrameInit, BackInit, HeapInit
<1>2. (FrameInv /\ BackInv /\ HeapInv) /\ [Next]_vars => (FrameInv /\ BackInv /\ HeapInv)'
  BY FrameStep, BackStep, HeapStep
<1>3. Init => Heap!AllocInit
  BY DEF Init, Heap!AllocInit
<1>4. (FrameInv /\ BackInv /\ HeapInv) /\ [Next]_vars => [Heap!AllocNext]_<<live, heap_brk>>
  BY StepAllocates
<1> QED BY <1>1, <1>2, <1>3, <1>4, PTL DEF Spec, ImplementsAllocator, Heap!AllocSpec, Heap!allocVars
=============================================================================
