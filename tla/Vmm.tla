-------------------------------- MODULE Vmm ---------------------------------
(***************************************************************************)
(* The kernel's 4-level page table (kernel/mm/vmm.c, first half), as       *)
(* operators on the record m of module Pmm, which gains                    *)
(*   m.root   the frame of kernel_pml4, NULL if alloc_page panicked        *)
(*   m.table  the entries of the upper levels: table -> frame, or NULL     *)
(*   m.pte    the last level: virtual page -> frame, or NULL               *)
(* An entry without PF_PRESENT is NULL; the other flags are left out.      *)
(* A virtual address is its page number here.                              *)
(***************************************************************************)
EXTENDS Pmm

CONSTANTS VPage,        \* the virtual pages in play
          ENTRIES,      \* 512 in the code: entries of one table
          BootTables,   \* boot.asm's tables, shared through PML4[511]
          NULL

ASSUME VmmAssumption ==
  /\ VPage \subseteq Nat /\ ENTRIES \in Nat \ {0}
  /\ NULL \notin Pfn

\* A table is named by its level and by the part of the page number above it.
PDPT(v) == <<"pdpt", v \div (ENTRIES * ENTRIES * ENTRIES)>>
PD(v)   == <<"pd",   v \div (ENTRIES * ENTRIES)>>
PT(v)   == <<"pt",   v \div ENTRIES>>

Table == UNION {{PDPT(v), PD(v), PT(v)} : v \in VPage}

\* Mutant: the fresh table is not hooked into its parent.
table_not_linked(m, t) == IF m.table[t] # NULL THEN m ELSE alloc_page(m)

get_or_alloc_table(m, t) ==
  IF m.table[t] # NULL \/ m.panic THEN m
  ELSE LET a == alloc_page(m)
       IN  IF a.panic THEN a ELSE [a EXCEPT !.table[t] = FirstFree(m)]

map_page(m, phys, v) ==
  LET a == get_or_alloc_table(m, PDPT(v))
      b == get_or_alloc_table(a, PD(v))
      c == get_or_alloc_table(b, PT(v))
  IN  IF c.panic THEN c ELSE [c EXCEPT !.pte[v] = phys]

\* Only the last entry is cleared: tables, and the frame itself, stay allocated.
unmap_page(m, v) ==
  IF m.table[PDPT(v)] = NULL \/ m.table[PD(v)] = NULL \/ m.table[PT(v)] = NULL
  THEN m
  ELSE [m EXCEPT !.pte[v] = NULL]

\* The body shared by heap_expand, sys_brk and sys_mmap: a frame, mapped at v.
alloc_and_map(m, v) == map_page(alloc_page(m), FirstFree(m), v)

\* A frame of boot.asm's tables, inside the kernel image.
BootFrame == CHOOSE f \in Reserved : TRUE

vmm_init(p) ==
  LET a == alloc_page(p)
  IN  [bitmap     |-> a.bitmap,
       free_pages |-> a.free_pages,
       panic      |-> a.panic,
       root       |-> IF a.panic THEN NULL ELSE FirstFree(p),
       table      |-> [t \in Table |-> IF t \in BootTables THEN BootFrame ELSE NULL],
       pte        |-> [v \in VPage |-> NULL]]
=============================================================================
