------------------------------- MODULE Memory -------------------------------
(***************************************************************************)
(* The kernel's memory: page allocator, page table and heap (modules Pmm,  *)
(* Vmm, KHeap) under the calls that use them: kmalloc, kfree and krealloc  *)
(* from the kernel, sys_brk and sys_mmap from user space, and callers that *)
(* take and give back single pages.                                        *)
(*                                                                         *)
(* A call that needs pages maps them one at a time, any of which may run   *)
(* the machine out of memory, so such a call is a sequence of actions:     *)
(* `call` holds its local variables meanwhile.  Nothing else runs between  *)
(* them, because these calls are made with interrupts off or before there  *)
(* is a second task.                                                       *)
(***************************************************************************)
EXTENDS KHeap

CONSTANTS MemoryMaps,   \* the memory maps the machine may boot with
          Sizes,        \* sizes kmalloc is called with (0 among them)
          UserBase,     \* virtual page of the initial user_brk
          BrkSteps,     \* how far above user_brk sys_brk is asked to go
          BrkWindow,    \* 64 MB in the code: USER_BRK_MAX - user_brk
          MmapPages,    \* numbers of pages sys_mmap is called with
          MmapAt,       \* fixed page addresses sys_mmap is called with
          MaxHeld       \* bound: pages held by direct callers of alloc_page

ASSUME MemoryAssumption ==
  /\ \A entries \in MemoryMaps :
       IsFiniteSet(entries) /\ entries \subseteq [base_addr : Nat, length : Nat, type : Nat]
  /\ \A entries \in MemoryMaps : \A d, e \in entries :
       d # e => \/ d.base_addr + d.length <= e.base_addr  \* regions do not overlap
                \/ e.base_addr + e.length <= d.base_addr
  /\ Sizes \subseteq Nat /\ UserBase \in Nat /\ BrkSteps \subseteq Nat
  /\ BrkWindow \in Nat /\ MmapPages \subseteq Nat \ {0} /\ MmapAt \subseteq VPage
  /\ MaxHeld \in Nat
  /\ (HeapPage .. ((HEAP_START + HEAP_MAX) \div PAGE_SIZE)) \subseteq VPage

VARIABLES
  avail,     \* the memory map entries given to pmm_init
  mm,        \* bitmap and page table: the record of modules Pmm and Vmm
  blk,       \* the list of heap blocks: the function of module KHeap
  heap_brk,
  user_brk,
  live,      \* address returned by kmalloc and not yet freed -> requested size
  held,      \* frames held by callers of alloc_page
  call       \* the call that is waiting for pages

vars == <<avail, mm, blk, heap_brk, user_brk, live, held, call>>

NoCall == [op |-> "none", va |-> 0, left |-> 0, arg |-> 0, ptr |-> NULL]

PageOf(addr) == addr \div PAGE_SIZE
PagesIn(n)   == ALIGN_UP(n, PAGE_SIZE) \div PAGE_SIZE
HeapTop      == HEAP_START + HEAP_MAX

\* kernel_start: pmm_init, then vmm_init.
Init ==
  /\ avail \in MemoryMaps
  /\ mm = vmm_init(pmm_init(avail))
  /\ blk = <<>> /\ live = <<>> /\ held = {}
  /\ heap_brk = HEAP_START
  /\ user_brk = UserBase * PAGE_SIZE
  /\ call = NoCall

Ready == ~mm.panic /\ call = NoCall

----------------------------------------------------------------------------
(* The heap *)

Without(f, S) == [x \in DOMAIN f \ S |-> f[x]]

\* Mutant: krealloc forgets to free the old block.
search_without_free(b, req, ptr) ==
  LET size == ALIGN_UP(req, ALIGN)
  IN  \/ \E a \in DOMAIN b :
           /\ FirstFit(b, size, a)
           /\ blk' = take(b, a, size)
           /\ live' = [x \in (DOMAIN live \ {ptr}) \cup {a + HDR} |->
                         IF x = a + HDR THEN req ELSE live[x]]
           /\ call' = NoCall
      \/ /\ NoFit(b, size)
         /\ blk' = b
         /\ call' = [op |-> "kmalloc", va |-> PageOf(heap_brk), left |-> PagesIn(size + HDR),
                     arg |-> req, ptr |-> ptr]
         /\ UNCHANGED live

\* The loop of kmalloc over the list b: take a block, and end the krealloc of
\* ptr by freeing it; or ask heap_expand for pages.
search(b, req, ptr) ==
  LET size == ALIGN_UP(req, ALIGN)
  IN  \/ \E a \in DOMAIN b :
           /\ FirstFit(b, size, a)
           /\ blk' = IF ptr = NULL THEN take(b, a, size)
                     ELSE release(take(b, a, size), ptr - HDR)
           /\ live' = [x \in (DOMAIN live \ {ptr}) \cup {a + HDR} |->
                         IF x = a + HDR THEN req ELSE live[x]]
           /\ call' = NoCall
      \/ /\ NoFit(b, size)
         /\ blk' = b
         /\ call' = [op |-> "kmalloc", va |-> PageOf(heap_brk), left |-> PagesIn(size + HDR),
                     arg |-> req, ptr |-> ptr]
         /\ UNCHANGED live

\* kmalloc(req), called for krealloc(ptr, req) if ptr is not NULL.
kmalloc_for(req, ptr) ==
  /\ IF DOMAIN blk = {}
     THEN /\ call' = [op |-> "kmalloc", va |-> PageOf(heap_brk), left |-> 1,
                      arg |-> req, ptr |-> ptr]
          /\ UNCHANGED <<blk, live>>
     ELSE search(blk, req, ptr)
  /\ UNCHANGED <<avail, mm, heap_brk, user_brk, held>>

\* kmalloc(0) returns NULL; krealloc(NULL, n) is kmalloc(n).
kmalloc(req) == Ready /\ req # 0 /\ kmalloc_for(req, NULL)

\* One round of the loop of heap_expand.
heap_expand ==
  LET m == alloc_and_map(mm, call.va)
  IN  /\ ~mm.panic /\ call.op = "kmalloc" /\ call.left > 0
      /\ IF m.panic
         THEN mm' = m /\ UNCHANGED <<heap_brk, call>>
         ELSE /\ heap_brk' = heap_brk + PAGE_SIZE
              /\ mm' = [m EXCEPT !.panic = heap_brk' > HeapTop]
              /\ call' = [call EXCEPT !.va = @ + 1, !.left = @ - 1]
      /\ UNCHANGED <<avail, blk, user_brk, live, held>>

\* heap_expand has returned: the new block goes on the list, and kmalloc retries.
kmalloc_retry ==
  LET pages == IF DOMAIN blk = {} THEN 1
               ELSE PagesIn(ALIGN_UP(call.arg, ALIGN) + HDR)
      start == heap_brk - pages * PAGE_SIZE
  IN  /\ ~mm.panic /\ call.op = "kmalloc" /\ call.left = 0
      /\ search(append(blk, start, pages * PAGE_SIZE - HDR), call.arg, call.ptr)
      /\ UNCHANGED <<avail, mm, heap_brk, user_brk, held>>

\* kfree(NULL) returns at once.
kfree(ptr) ==
  /\ Ready
  /\ blk' = release(blk, ptr - HDR)
  /\ live' = Without(live, {ptr})
  /\ UNCHANGED <<avail, mm, heap_brk, user_brk, held, call>>

krealloc(ptr, req) ==
  /\ Ready
  /\ IF req = 0 THEN kfree(ptr)
     ELSE IF blk[ptr - HDR].size >= req
     THEN /\ live' = [live EXCEPT ![ptr] = req]
          /\ UNCHANGED <<avail, mm, blk, heap_brk, user_brk, held, call>>
     ELSE kmalloc_for(req, ptr)

----------------------------------------------------------------------------
(* User memory and single pages *)

\* A request below user_brk or above the window changes nothing.
sys_brk(new) ==
  /\ Ready /\ new <= user_brk + BrkWindow
  /\ (PageOf(user_brk) .. PagesIn(new)) \subseteq VPage   \* bound
  /\ call' = [op |-> "user", va |-> PagesIn(user_brk),
              left |-> PagesIn(new) - PagesIn(user_brk), arg |-> new, ptr |-> NULL]
  /\ UNCHANGED <<avail, mm, blk, heap_brk, user_brk, live, held>>

\* sys_mmap without an address takes what follows user_brk.
sys_mmap(pages) ==
  LET v == PagesIn(user_brk)
  IN  /\ Ready
      /\ (v .. (v + pages)) \subseteq VPage               \* bound
      /\ call' = [op |-> "user", va |-> v, left |-> pages,
                  arg |-> (v + pages) * PAGE_SIZE, ptr |-> NULL]
      /\ UNCHANGED <<avail, mm, blk, heap_brk, user_brk, live, held>>

\* ... and with an address, what lies there, in use or not; user_brk stays.
sys_mmap_at(v, pages) ==
  /\ Ready
  /\ (v .. (v + pages - 1)) \subseteq VPage                \* bound
  /\ call' = [op |-> "user", va |-> v, left |-> pages, arg |-> user_brk, ptr |-> NULL]
  /\ UNCHANGED <<avail, mm, blk, heap_brk, user_brk, live, held>>

\* One round of the loops of sys_brk and sys_mmap.
map_user_page ==
  /\ ~mm.panic /\ call.op = "user" /\ call.left > 0
  /\ mm' = alloc_and_map(mm, call.va)
  /\ call' = [call EXCEPT !.va = @ + 1, !.left = @ - 1]
  /\ UNCHANGED <<avail, blk, heap_brk, user_brk, live, held>>

user_return ==
  /\ ~mm.panic /\ call.op = "user" /\ call.left = 0
  /\ user_brk' = call.arg
  /\ call' = NoCall
  /\ UNCHANGED <<avail, mm, blk, heap_brk, live, held>>

\* Nothing in the kernel calls unmap_page; a caller would keep off the brk area
\* and off the heap.
unmap_user_page(v) ==
  /\ Ready /\ v >= PagesIn(user_brk) /\ v < HeapPage
  /\ mm' = unmap_page(mm, v)
  /\ UNCHANGED <<avail, blk, heap_brk, user_brk, live, held, call>>

take_page ==
  /\ Ready /\ Cardinality(held) < MaxHeld
  /\ mm' = alloc_page(mm)
  /\ held' = IF mm.bitmap = {} THEN held ELSE held \cup {FirstFree(mm)}
  /\ UNCHANGED <<avail, blk, heap_brk, user_brk, live, call>>

\* A holder gives a page back; or somebody frees one twice, or no page at all.
give_page(addr) ==
  /\ Ready
  /\ \/ addr \div PAGE_SIZE \in held \cup mm.bitmap
     \/ addr \div PAGE_SIZE \notin Pfn
  /\ mm' = free_page(mm, addr)
  /\ held' = IF addr % PAGE_SIZE = 0 THEN held \ {addr \div PAGE_SIZE} ELSE held
  /\ UNCHANGED <<avail, blk, heap_brk, user_brk, live, call>>

GiveAddrs == {f * PAGE_SIZE : f \in 0 .. PMM_MAX_PAGES}
               \cup {f * PAGE_SIZE + 1 : f \in held}

Next ==
  \/ \E req \in Sizes : kmalloc(req)
  \/ \E ptr \in DOMAIN live : kfree(ptr) \/ \E req \in Sizes : krealloc(ptr, req)
  \/ heap_expand
  \/ kmalloc_retry
  \/ \E d \in BrkSteps : sys_brk(user_brk + d)
  \/ \E pages \in MmapPages : sys_mmap(pages)
  \/ \E v \in MmapAt : unmap_user_page(v) \/ \E pages \in MmapPages : sys_mmap_at(v, pages)
  \/ map_user_page
  \/ user_return
  \/ take_page
  \/ \E addr \in GiveAddrs : give_page(addr)

Spec == Init /\ [][Next]_vars

----------------------------------------------------------------------------
(* Properties *)

\* Every use a frame can be put to.
Uses == {u \in {<<"root", 0>>} : mm.root # NULL} \cup {<<"held", f>> : f \in held}
          \cup {t \in Table \ BootTables : mm.table[t] # NULL}
          \cup {<<"page", v>> : v \in {w \in VPage : mm.pte[w] # NULL}}
FrameOf(u) == CASE u[1] = "root" -> mm.root
                [] u[1] = "held" -> u[2]
                [] u[1] = "page" -> mm.pte[u[2]]
                [] OTHER -> mm.table[u]

(***************************************************************************)
(* No frame serves two purposes: kernel_pml4, the tables that              *)
(* get_or_alloc_table makes, the pages mapped for the heap and for user    *)
(* space and the pages callers hold are pairwise different, none of them   *)
(* is free, and every one is a whole frame of an available region outside  *)
(* the first megabyte, the kernel image and the bitmap.                    *)
(***************************************************************************)
FramesExclusive ==
  /\ \A u, w \in Uses : FrameOf(u) = FrameOf(w) => u = w
  /\ \A u \in Uses : FrameOf(u) \notin mm.bitmap
  /\ \A f \in {FrameOf(u) : u \in Uses} \cup mm.bitmap :
       /\ f \notin Reserved
       /\ \E e \in avail : /\ e.type = 1 /\ e.base_addr <= f * PAGE_SIZE
                           /\ (f + 1) * PAGE_SIZE <= e.base_addr + e.length

(***************************************************************************)
(* What the kernel and user space may touch is mapped all the way down:    *)
(* every page of the heap below heap_brk, and every page that sys_brk and  *)
(* sys_mmap have handed out below user_brk.                                *)
(***************************************************************************)
Mapped(v) ==
  /\ mm.table[PDPT(v)] # NULL /\ mm.table[PD(v)] # NULL /\ mm.table[PT(v)] # NULL
  /\ mm.pte[v] # NULL
MemoryBacked ==
  ~mm.panic =>
    /\ \A v \in PageOf(HEAP_START) .. (PageOf(heap_brk) - 1) : Mapped(v)
    /\ \A v \in UserBase .. (PagesIn(user_brk) - 1) : Mapped(v)

(***************************************************************************)
(* Between calls the list of blocks tiles the heap: each header is where   *)
(* the block in front of it ends, prev leads back, the last block ends at  *)
(* heap_brk, sizes keep the alignment, and no two neighbours are free, so  *)
(* that kfree never leaves a hole that two coalesced blocks would fill.    *)
(* The block that kmalloc appends after a free one is no exception: the    *)
(* retry takes it at once.                                                 *)
(***************************************************************************)
HeapTiled ==
  Ready /\ DOMAIN blk # {} =>
    /\ HEAP_START \in DOMAIN blk /\ blk[HEAP_START].prev = NULL
    /\ \A a \in DOMAIN blk :
         LET end == a + HDR + blk[a].size
         IN  /\ blk[a].size % ALIGN = 0
             /\ IF blk[a].next = NULL THEN end = heap_brk
                ELSE /\ blk[a].next = end /\ end \in DOMAIN blk
                     /\ blk[end].prev = a
                     /\ ~(blk[a].free /\ blk[end].free)

(***************************************************************************)
(* kmalloc, kfree and krealloc implement an allocator: what they return is *)
(* aligned, inside the heap, large enough and meets no live allocation,    *)
(* and live allocations stay put.                                          *)
(***************************************************************************)
Heap == INSTANCE Allocator WITH
          Size <- Sizes, Start <- HEAP_START, Alignment <- ALIGN,
          live <- live, limit <- heap_brk
ImplementsAllocator == Heap!AllocSpec

(***************************************************************************)
(* No allocation is leaked by the heap itself: a block is in use exactly   *)
(* when its address is live, so after the last kfree the heap is one free  *)
(* block per run of pages.                                                 *)
(***************************************************************************)
NothingLeaked ==
  Ready => {a + HDR : a \in {x \in DOMAIN blk : ~blk[x].free}} = DOMAIN live
=============================================================================
