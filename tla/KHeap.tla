------------------------------- MODULE KHeap --------------------------------
(***************************************************************************)
(* The kernel heap of kernel/mm/vmm.c: a first-fit list of blocks, each    *)
(* with a header in front of it, as operators on the function b from the   *)
(* addresses of the headers in the list to [size, free, next, prev].       *)
(* heap_head is NULL exactly when b is empty, and HEAP_START otherwise.    *)
(* A header swallowed by coalescing leaves the list, hence b.              *)
(***************************************************************************)
EXTENDS Vmm

CONSTANTS HeapPage,   \* virtual page number of HEAP_START
          HEAP_MAX,   \* 64 MB in the code
          HDR,        \* sizeof(struct heap_block): 32 bytes
          ALIGN,      \* 16 bytes
          MIN_SPLIT   \* 32 bytes: the smallest remainder worth a block

HEAP_START == HeapPage * PAGE_SIZE

ASSUME KHeapAssumption ==
  /\ HeapPage \in Nat \ {0} /\ HEAP_MAX \in Nat
  /\ HDR \in Nat \ {0} /\ ALIGN \in Nat \ {0} /\ MIN_SPLIT \in Nat
  /\ HDR % ALIGN = 0 /\ PAGE_SIZE % ALIGN = 0 /\ HDR < PAGE_SIZE
  /\ NULL \notin Nat

\* The k-th header met when following next from heap_head.
Nth(b) ==
  LET n[k \in 0 .. Cardinality(DOMAIN b)] ==
        IF k = 0 THEN (IF DOMAIN b = {} THEN NULL ELSE HEAP_START)
        ELSE IF n[k-1] = NULL THEN NULL ELSE b[n[k-1]].next
  IN  n

\* Mutant: the header is counted as usable space.
FitsWithHeader(b, a, size) == b[a].free /\ b[a].size + HDR >= size

Fits(b, a, size) == b[a].free /\ b[a].size >= size

\* a is the first block of the list that is free and large enough.
FirstFit(b, size, a) ==
  \E k \in 0 .. (Cardinality(DOMAIN b) - 1) :
    /\ Nth(b)[k] = a /\ Fits(b, a, size)
    /\ \A j \in 0 .. (k - 1) : ~Fits(b, Nth(b)[j], size)

NoFit(b, size) == \A a \in DOMAIN b : ~FirstFit(b, size, a)

\* Mutant: the block after the split keeps its old prev.
take_stale_prev(b, a, size) ==
  LET new == a + HDR + size
  IN  IF b[a].size < size + HDR + MIN_SPLIT
      THEN [b EXCEPT ![a].free = FALSE]
      ELSE [x \in DOMAIN b \cup {new} |->
              CASE x = new -> [size |-> b[a].size - size - HDR, free |-> TRUE,
                               next |-> b[a].next, prev |-> a]
                [] x = a   -> [b[a] EXCEPT !.size = size, !.next = new, !.free = FALSE]
                [] OTHER   -> b[x]]

\* kmalloc takes block a, and splits off the remainder if it is large enough.
take(b, a, size) ==
  LET new == a + HDR + size
  IN  IF b[a].size < size + HDR + MIN_SPLIT
      THEN [b EXCEPT ![a].free = FALSE]
      ELSE [x \in DOMAIN b \cup {new} |->
              CASE x = new -> [size |-> b[a].size - size - HDR, free |-> TRUE,
                               next |-> b[a].next, prev |-> a]
                [] x = a   -> [b[a] EXCEPT !.size = size, !.next = new, !.free = FALSE]
                [] x = b[a].next -> [b[x] EXCEPT !.prev = new]
                [] OTHER   -> b[x]]

\* kmalloc puts a free block over the fresh pages at a, at the end of the list;
\* on the first call it becomes heap_head.
append(b, a, size) ==
  LET last == CHOOSE x \in DOMAIN b : b[x].next = NULL
  IN  [x \in DOMAIN b \cup {a} |->
         CASE x = a -> [size |-> size, free |-> TRUE, next |-> NULL,
                        prev |-> IF DOMAIN b = {} THEN NULL ELSE last]
           [] x # a /\ x = last -> [b[x] EXCEPT !.next = a]
           [] OTHER -> b[x]]

\* Block a swallows block c, which follows it.
absorb(b, a, c) ==
  [x \in DOMAIN b \ {c} |->
     CASE x = a -> [b[a] EXCEPT !.size = @ + HDR + b[c].size, !.next = b[c].next]
       [] x = b[c].next -> [b[x] EXCEPT !.prev = a]
       [] OTHER -> b[x]]

\* Mutant: no coalescing with the block in front.
release_forward_only(b, a) ==
  LET f == [b EXCEPT ![a].free = TRUE]
      n == f[a].next
  IN  IF n # NULL /\ f[n].free THEN absorb(f, a, n) ELSE f

\* kfree of the block with header a: coalesce with next, then with prev.
release(b, a) ==
  LET f == [b EXCEPT ![a].free = TRUE]
      n == f[a].next
      g == IF n # NULL /\ f[n].free THEN absorb(f, a, n) ELSE f
      p == g[a].prev
  IN  IF p # NULL /\ g[p].free THEN absorb(g, p, a) ELSE g
=============================================================================
