------------------------------ MODULE MCMemory ------------------------------
(* A machine of which the bitmap covers twelve frames.  Its available      *)
(* regions start and end inside frames, lie around a reserved one and go   *)
(* beyond the bitmap; the first frame is "the first megabyte", the next    *)
(* two hold the kernel image and the bitmap.  Eight frames are left, fewer *)
(* than heap and user space can ask for.  Heap and user pages each         *)
(* straddle a boundary between two page tables.  The other machine has no  *)
(* frame to spare: it panics in vmm_init.                                  *)
EXTENDS Memory
MCBootTables == {PDPT(HeapPage), PD(HeapPage)}
Region(b, l, t) == [base_addr |-> b, length |-> l, type |-> t]
MCMaps == {{Region(0, 24, 1), Region(24, 8, 2), Region(40, 60, 1), Region(100, 10, 2),
            Region(110, 120, 1)},
           {Region(0, 40, 1)}}
MCVPage == 6 .. 9 \cup 251 .. 253
=============================================================================
