----------------------------- MODULE MCSpinlock -----------------------------
(* Two CPUs, hence four contexts; a counter of four values, the smallest   *)
(* that the assumption allows, wraps twice before the ticket bound.        *)
EXTENDS Spinlock
=============================================================================
