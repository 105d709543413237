--------------------------- MODULE MCClientSlots ---------------------------
(* Two places, descriptors enough for both and a connection in hand.       *)
EXTENDS ClientSlots

Fds3 == 0..2
=============================================================================
