------------------------------ MODULE BusLock ------------------------------
(***************************************************************************)
(* What the arbitration promises, with the protocol left out: the bus is a *)
(* lock.  Adapters compete for it from the SYN that opens a round; one of  *)
(* the competitors may win while nobody owns the bus; the others give up   *)
(* only once the bus has an owner; the next SYN frees it.                  *)
(***************************************************************************)
CONSTANTS
  Nodes,      \* the adapters
  NoOwner     \* the owner of a free bus, not one of Nodes

VARIABLES
  owner,      \* the adapter whose client may send, or NoOwner
  compete     \* the adapters that compete for the bus

vars == <<owner, compete>>

Init ==
  /\ owner = NoOwner
  /\ compete = {}

(* A SYN: the bus is free and a new field competes, which may hold those   *)
(* still in an open arbitration.                                           *)
Open ==
  /\ owner' = NoOwner
  /\ compete' \in SUBSET Nodes

Win(n) ==
  /\ owner = NoOwner
  /\ n \in compete
  /\ owner' = n
  /\ compete' = compete \ {n}

GiveUp ==
  /\ owner # NoOwner
  /\ compete' \in SUBSET compete
  /\ UNCHANGED owner

Crash(n) ==
  /\ owner' = IF owner = n THEN NoOwner ELSE owner
  /\ compete' = compete \ {n}

Next ==
  \/ Open
  \/ GiveUp
  \/ \E n \in Nodes : Win(n) \/ Crash(n)

Spec == Init /\ [][Next]_vars
=============================================================================
