------------------------------ MODULE MCBridge ------------------------------
(* Instances of Bridge: two places for clients and two descriptors, so     *)
(* that a descriptor gets reused once it is closed.  The clients ask for   *)
(* the bus as master 48, or also as 16, so that a client may ask again     *)
(* with another address; both are of one priority class and on the line,   *)
(* so that there are second rounds.                                        *)
EXTENDS Bridge

Places2 == 1..2
Fds2 == 0..1
Address1 == {3 * 16}
Addresses2 == {3 * 16, 16}
Line3 == {SYN, 3 * 16, 16}
=============================================================================
