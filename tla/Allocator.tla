----------------------------- MODULE Allocator ------------------------------
(***************************************************************************)
(* What a heap promises its callers: an allocation is a range of addresses *)
(* inside the arena that meets no other live allocation, and it stays      *)
(* where it is, untouched by the calls of others, until its owner frees it *)
(* or reallocates it.                                                      *)
(***************************************************************************)
EXTENDS Integers

CONSTANTS Size,        \* the sizes callers ask for
          Start,       \* first address of the arena
          Alignment    \* results are multiples of this

VARIABLES live,        \* live allocations: address -> size
          limit        \* the arena ends here; it only grows

allocVars == <<live, limit>>

Range2(f, a) == a .. (a + f[a] - 1)

AllocInit == live = <<>> /\ limit = Start

Grow == limit' > limit /\ UNCHANGED live

\* old is replaced by a range at a; old is empty for a plain allocation.
Place(old, a, n) ==
  /\ a % Alignment = 0 /\ a >= Start /\ a + n <= limit
  /\ a \notin DOMAIN live
  /\ \A x \in DOMAIN live : Range2(live, x) \cap (a .. (a + n - 1)) = {}
  /\ live' = [x \in (DOMAIN live \ old) \cup {a} |-> IF x = a THEN n ELSE live[x]]
  /\ UNCHANGED limit

Allocate == \E n \in Size : \E a \in Start .. limit : Place({}, a, n)

Free ==
  \E p \in DOMAIN live :
    live' = [x \in DOMAIN live \ {p} |-> live[x]] /\ UNCHANGED limit

\* A reallocation moves to a new range, or stays and meets nobody else.
Reallocate ==
  \E p \in DOMAIN live : \E n \in Size :
    \/ \E a \in Start .. limit : Place({p}, a, n)
    \/ /\ \A x \in DOMAIN live \ {p} : Range2(live, x) \cap (p .. (p + n - 1)) = {}
       /\ p + n <= limit
       /\ live' = [live EXCEPT ![p] = n]
       /\ UNCHANGED limit

AllocNext == Grow \/ Allocate \/ Free \/ Reallocate

AllocSpec == AllocInit /\ [][AllocNext]_allocVars
=============================================================================
