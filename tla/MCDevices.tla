----------------------------- MODULE MCDevices -----------------------------
(***************************************************************************)
(* Devices for TLC.  Rings of three slots hold two entries; a console of   *)
(* two rows of four columns with tab stops at every second scrolls, wraps  *)
(* and tabs to its edge within a few characters.  A movement may overflow, *)
(* and either of its last two bytes may look like a packet's first.        *)
(***************************************************************************)
EXTENDS Devices

Plain == [bit3 |-> FALSE, overflow |-> FALSE]
LikeFirst == [bit3 |-> TRUE, overflow |-> FALSE]
MCMoves == {[overflow |-> FALSE, dx |-> Plain, dy |-> Plain],
            [overflow |-> FALSE, dx |-> LikeFirst, dy |-> Plain],
            [overflow |-> TRUE, dx |-> Plain, dy |-> LikeFirst]}
=============================================================================
