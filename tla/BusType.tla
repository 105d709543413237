------------------------------ MODULE BusType ------------------------------
(***************************************************************************)
(* The bus end of one adapter: BusType::receive and the arbitration slot   *)
(* (src/bridge/bus_type.cpp).                                              *)
(*                                                                         *)
(* The slot is the pair arbitration_client, arbitration_address: at most   *)
(* one client may ask for the bus at a time.  Every symbol received goes   *)
(* through Receive, which moves the bus state and the arbitration, may     *)
(* start an arbitration for the owner of the slot, and queues what the     *)
(* clients are to be told.                                                 *)
(***************************************************************************)
EXTENDS Arbitration, Sequences

NoFd == -1

EmptySlot == [client |-> NoFd, address |-> -1]

(* BusType::BusType; client_fd_ is "fd".                                   *)
BusTypeInit == [bus |-> BusInit, arb |-> ArbInit, fd |-> NoFd]

(* An entry of queue_.  An enhanced entry is an answer, for the client fd  *)
(* only; any other one is a symbol for all clients but fd.                 *)
Data(enhanced, c, d, fd) == [enhanced |-> enhanced, c |-> c, d |-> d, fd |-> fd]

(* Mutant: the slot goes to whoever asks last.                             *)
SlotTakeAlways(slot, client, address) ==
  [client |-> client, address |-> address]

(* setArbitrationClient: a free slot is taken, an owned one stays.         *)
SlotTake(slot, client, address) ==
  IF slot.client < 0 THEN [client |-> client, address |-> address] ELSE slot

Won  == {"won1", "won2"}
Lost == {"lost1", "lost2"}

(* Outcomes after which the slot is read (again).                          *)
Idle == {"none", "restart1", "restart2"}

(* Mutant: an error answers the client but keeps the slot.                 *)
DoneKept == Won \cup Lost

(* Outcomes that answer the client and free the slot.                      *)
Done == Won \cup Lost \cup {"error"}

(* BusType::receive for adapter t: the record t after the symbol, the slot *)
(* after it, the entries pushed on queue_, the bytes written to the bus    *)
(* and the outcome of the arbitration.                                     *)
Receive(t, slot, symbol, behind) ==
  LET bus     == BusData(t.bus, symbol)
      outcome == ArbOutcome(bus, t.arb, symbol)
      arb     == ArbAfter(bus, t.arb, symbol)
      starts  == /\ outcome \in Idle
                 /\ slot.client >= 0
                 /\ StartResult(bus, arb, slot.address, behind) = "started"
      fd      == IF outcome \in Idle THEN slot.client ELSE t.fd
      answer  == CASE outcome \in Won  -> <<Data(TRUE, "started", bus.master, fd)>>
                   [] outcome \in Lost -> <<Data(TRUE, "failed", bus.master, fd)>>
                   [] outcome = "error" -> <<Data(TRUE, "error_ebus", 0, fd)>>
                   [] OTHER -> <<>>
      hidden  == IF outcome \in Won \cup {"arbitrating"} THEN fd ELSE NoFd
  IN [adapter |-> [bus |-> bus,
                   arb |-> IF starts THEN ArbStart(arb, slot.address) ELSE arb,
                   fd  |-> IF outcome \in Done THEN NoFd ELSE fd],
      slot    |-> IF outcome \in Done THEN EmptySlot ELSE slot,
      pushed  |-> Append(answer, Data(FALSE, "received", symbol, hidden)),
      written |-> (IF starts THEN {slot.address} ELSE {}) \cup
                  (IF WritesSecond(bus, t.arb, behind) THEN {t.arb.address}
                   ELSE {}),
      outcome |-> outcome]
=============================================================================
