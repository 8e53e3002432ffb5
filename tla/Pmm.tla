-------------------------------- MODULE Pmm ---------------------------------
(***************************************************************************)
(* The physical page allocator of kernel/mm/pmm.c as operators on the      *)
(* record m that modules Vmm, KHeap and Memory keep in the variable mm:    *)
(*   m.bitmap      the page frames whose bit is set (1 = free)             *)
(*   m.free_pages  the counter kept beside the bitmap                      *)
(*   m.panic       alloc_page found no frame, or the heap is exhausted     *)
(* panic() does not return: every operator leaves a panicked m alone.      *)
(* Addresses and sizes are counted in words; PAGE_SIZE is a page in words. *)
(***************************************************************************)
EXTENDS Integers, FiniteSets, FiniteSetsExt

CONSTANTS PAGE_SIZE,
          PMM_MAX_PAGES,
          LowPages,             \* 256 in the code: the first megabyte
          KERNEL_PHYS,          \* where the kernel image starts
          KernelEnd,            \* kernel_end, not page-aligned
          BitmapStart, BitmapEnd \* the array bitmap[], inside the image

Pfn == 0 .. (PMM_MAX_PAGES - 1)

\* An entry of the boot loader's memory map is [base_addr, length, type].
ASSUME PmmAssumption ==
  /\ PAGE_SIZE \in Nat \ {0} /\ PMM_MAX_PAGES \in Nat /\ LowPages \in Nat
  /\ KERNEL_PHYS \in Nat /\ KernelEnd \in Nat
  /\ BitmapStart \in Nat /\ BitmapEnd \in Nat

ALIGN_UP(x, a)   == ((x + a - 1) \div a) * a
ALIGN_DOWN(x, a) == (x \div a) * a

\* The frames from the one containing `from` up to the one ending at or after `to`.
FramesOver(from, to) ==
  {f \in Pfn : from \div PAGE_SIZE <= f /\ f < ALIGN_UP(to, PAGE_SIZE) \div PAGE_SIZE}

Reserved ==
  {f \in Pfn : f < LowPages}
    \cup FramesOver(KERNEL_PHYS, KernelEnd)
    \cup FramesOver(BitmapStart, BitmapEnd)

\* Mutant: the region's bounds are rounded outwards.
FramesTouching(e) ==
  IF e.type # 1 THEN {} ELSE FramesOver(e.base_addr, e.base_addr + e.length)

\* The whole frames of an available region; empty also when end <= base.
FramesOf(e) ==
  LET base == ALIGN_UP(e.base_addr, PAGE_SIZE)
      end  == ALIGN_DOWN(e.base_addr + e.length, PAGE_SIZE)
  IN  IF e.type # 1 THEN {}
      ELSE {f \in Pfn : base \div PAGE_SIZE <= f /\ f < end \div PAGE_SIZE}

\* total_pages counts a frame once for every entry that covers it.
total_pages(entries) == MapThenSumSet(LAMBDA e : Cardinality(FramesOf(e)), entries)

pmm_init(entries) ==
  LET avail == UNION {FramesOf(e) : e \in entries}
  IN  [bitmap     |-> avail \ Reserved,
       free_pages |-> total_pages(entries) - Cardinality(avail \cap Reserved),
       panic      |-> FALSE]

----------------------------------------------------------------------------
\* The frame alloc_page returns: lowest word, lowest bit.
FirstFree(m) == CHOOSE f \in m.bitmap : \A g \in m.bitmap : f <= g

\* Mutant: the bit of the page handed out stays set.
alloc_page_keeping_bit(m) ==
  IF m.panic THEN m
  ELSE IF m.bitmap = {} THEN [m EXCEPT !.panic = TRUE]
  ELSE [m EXCEPT !.free_pages = @ - 1]

alloc_page(m) ==
  IF m.panic THEN m
  ELSE IF m.bitmap = {} THEN [m EXCEPT !.panic = TRUE]
  ELSE [m EXCEPT !.bitmap = @ \ {FirstFree(m)}, !.free_pages = @ - 1]

\* An unaligned address, one out of range and a double free are only logged.
free_page(m, addr) ==
  LET pfn == addr \div PAGE_SIZE
  IN  IF addr % PAGE_SIZE # 0 \/ pfn \notin Pfn \/ pfn \in m.bitmap THEN m
      ELSE [m EXCEPT !.bitmap = @ \cup {pfn}, !.free_pages = @ + 1]
=============================================================================
