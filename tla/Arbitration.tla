---------------------------- MODULE Arbitration ----------------------------
(***************************************************************************)
(* One adapter's part in the arbitration for the bus: class Arbitration    *)
(* (src/bridge/arbitration.cpp).  A record [arbitrating, second, address,  *)
(* restarts] stands for the object.                                        *)
(*                                                                         *)
(* "behind" says that the UART already holds a further symbol when the     *)
(* code looks (bus.available()): the SYN being handled is then too old to  *)
(* answer.  The other lateness test, more than 4456 us since the start     *)
(* bit, has the same effect and is part of the same flag.                  *)
(***************************************************************************)
EXTENDS BusState

CONSTANT MaxRestarts   \* the literal 3 of Arbitration::data

ASSUME RestartAssumption == MaxRestarts \in Nat

ArbInit ==
  [arbitrating |-> FALSE, second |-> FALSE, address |-> 0, restarts |-> 0]

(* The priority class of a master address: its low nibble.                 *)
Class(address) == address % 16

---------------------------------------------------------------------------
(* Arbitration::start.                                                     *)

(* Mutant: the state of the bus is not looked at.                          *)
StartResultAnytime(b, a, master, behind) ==
  CASE a.arbitrating \/ master = SYN -> "not_started"
    [] ~(a.arbitrating \/ master = SYN) /\ behind -> "late"
    [] OTHER -> "started"

StartResult(b, a, master, behind) ==
  CASE a.arbitrating \/ master = SYN \/ b.state # "received_first_syn" ->
         "not_started"
    [] ~(a.arbitrating \/ master = SYN \/ b.state # "received_first_syn")
         /\ behind -> "late"
    [] OTHER -> "started"

ArbStart(a, master) ==
  [a EXCEPT !.arbitrating = TRUE, !.address = master, !.second = FALSE]

---------------------------------------------------------------------------
(* Arbitration::data, called after the bus state b has taken the symbol.   *)

(* A SYN came where an address was due: what the adapter wrote was lost.   *)
(* restart_count_ is incremented by both tests of the code, so a restart   *)
(* from the second round costs two.                                        *)
RestartOutcome(b, a) ==
  CASE b.previous = "received_first_syn" /\ a.restarts < MaxRestarts ->
         "restart1"
    [] b.previous = "received_second_syn" /\ a.restarts + 1 < MaxRestarts ->
         "restart2"
    [] OTHER -> "error"

(* Mutants: the address read back is compared by its class only; the first *)
(* round is given up as soon as another class is seen.                     *)
ArbOutcomeByClass(b, a, symbol) ==
  CASE ~a.arbitrating -> "none"
    [] a.arbitrating
         /\ b.state \in {"startup", "startup_first_syn",
                         "startup_symbol_after_first_syn",
                         "startup_second_syn", "received_first_syn"} ->
         RestartOutcome(b, a)
    [] a.arbitrating /\ Class(symbol) = Class(a.address)
         /\ b.state = "received_address_after_first_syn" -> "won1"
    [] a.arbitrating /\ symbol = a.address
         /\ b.state = "received_address_after_second_syn" -> "won2"
    [] a.arbitrating /\ b.state = "busy" ->
         IF a.second THEN "lost2" ELSE "lost1"
    [] OTHER -> "arbitrating"

ArbOutcomeEarly(b, a, symbol) ==
  CASE ~a.arbitrating -> "none"
    [] a.arbitrating
         /\ b.state \in {"startup", "startup_first_syn",
                         "startup_symbol_after_first_syn",
                         "startup_second_syn", "received_first_syn"} ->
         RestartOutcome(b, a)
    [] a.arbitrating /\ symbol = a.address
         /\ b.state = "received_address_after_first_syn" -> "won1"
    [] a.arbitrating /\ Class(symbol) # Class(a.address)
         /\ b.state = "received_address_after_first_syn" -> "lost1"
    [] a.arbitrating /\ symbol = a.address
         /\ b.state = "received_address_after_second_syn" -> "won2"
    [] a.arbitrating /\ b.state = "busy" ->
         IF a.second THEN "lost2" ELSE "lost1"
    [] OTHER -> "arbitrating"

ArbOutcome(b, a, symbol) ==
  CASE ~a.arbitrating -> "none"
    [] a.arbitrating
         /\ b.state \in {"startup", "startup_first_syn",
                         "startup_symbol_after_first_syn",
                         "startup_second_syn", "received_first_syn"} ->
         RestartOutcome(b, a)
    [] a.arbitrating /\ symbol = a.address
         /\ b.state = "received_address_after_first_syn" -> "won1"
    [] a.arbitrating /\ symbol = a.address
         /\ b.state = "received_address_after_second_syn" -> "won2"
    [] a.arbitrating /\ b.state = "busy" ->
         IF a.second THEN "lost2" ELSE "lost1"
    [] OTHER -> "arbitrating"

(* Mutant: every master of another address goes into the second round.     *)
JoinsSecondAlways(b, a, symbol) ==
  /\ a.arbitrating
  /\ b.state = "received_address_after_first_syn"
  /\ symbol # a.address

(* The first round went to another master of the same class: take part in  *)
(* the second round.                                                       *)
JoinsSecond(b, a, symbol) ==
  /\ a.arbitrating
  /\ b.state = "received_address_after_first_syn"
  /\ symbol # a.address
  /\ Class(symbol) = Class(a.address)

ArbAfter(b, a, symbol) ==
  LET outcome == ArbOutcome(b, a, symbol)
  IN [arbitrating |-> outcome = "arbitrating",
      second      |-> a.second \/ JoinsSecond(b, a, symbol),
      address     |-> a.address,
      restarts    |-> CASE outcome = "restart1" -> a.restarts + 1
                        [] outcome = "restart2" -> a.restarts + 2
                        [] outcome \in {"none", "arbitrating"} -> a.restarts
                        [] OTHER -> 0]

(* The address goes on the bus again in the second round.                  *)
WritesSecond(b, a, behind) ==
  /\ a.arbitrating
  /\ b.state = "received_second_syn"
  /\ a.second
  /\ ~behind

Arbs == [arbitrating : BOOLEAN, second : BOOLEAN, address : Symbols,
         restarts : Nat]
=============================================================================
