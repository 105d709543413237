------------------------------ MODULE BusState ------------------------------
(***************************************************************************)
(* What one adapter deduces about the eBUS from the symbols it receives:   *)
(* the state machine of class BusState (include/bridge/bus_state.hpp).     *)
(*                                                                         *)
(* Symbols are bytes.  SYN (0xAA) separates the telegrams; a master that   *)
(* wants the bus writes its address right after a SYN.  A record           *)
(* [state, previous, master] stands for the object: time stamps are left   *)
(* out (only log lines and the late test read them), and so is the member  *)
(* "symbol", which the code never assigns.                                 *)
(***************************************************************************)
EXTENDS Integers

SYN == 170

Symbols == 0..255

BusStates ==
  {"startup", "startup_first_syn", "startup_symbol_after_first_syn",
   "startup_second_syn", "received_first_syn",
   "received_address_after_first_syn", "received_second_syn",
   "received_address_after_second_syn", "busy"}

(* The bus states after a SYN, and those after any other symbol.  An       *)
(* adapter in "startup" has not seen a SYN since it booted.                *)
AfterSyn ==
  {"startup_first_syn", "startup_second_syn", "received_first_syn",
   "received_second_syn"}

AfterSymbol ==
  {"startup_symbol_after_first_syn", "received_address_after_first_syn",
   "received_address_after_second_syn", "busy"}

AddressDue == {"received_first_syn", "received_second_syn"}

AddressSeen ==
  {"received_address_after_first_syn", "received_address_after_second_syn"}

BusInit == [state |-> "startup", previous |-> "startup", master |-> 0]

(* The state reached by a SYN.  received_second_syn and                    *)
(* received_address_after_second_syn take the error path of the code,      *)
(* which leads to received_first_syn like the ordinary one.                *)
OnSyn(s) ==
  CASE s = "startup" -> "startup_first_syn"
    [] s = "startup_symbol_after_first_syn" -> "startup_second_syn"
    [] s = "received_address_after_first_syn" -> "received_second_syn"
    [] OTHER -> "received_first_syn"

(* Mutant: the address after the first SYN is not recognised as over.      *)
OnSymbolStuck(s) ==
  CASE s = "startup" -> "startup"
    [] s = "startup_first_syn" -> "startup_symbol_after_first_syn"
    [] s \in {"received_first_syn", "received_address_after_first_syn"} ->
         "received_address_after_first_syn"
    [] s = "received_second_syn" -> "received_address_after_second_syn"
    [] OTHER -> "busy"

(* The state reached by any other symbol.                                  *)
OnSymbol(s) ==
  CASE s = "startup" -> "startup"
    [] s = "startup_first_syn" -> "startup_symbol_after_first_syn"
    [] s = "received_first_syn" -> "received_address_after_first_syn"
    [] s = "received_second_syn" -> "received_address_after_second_syn"
    [] OTHER -> "busy"

(* Mutant: the master of the second round is not recorded.                 *)
BusDataFirst(b, symbol) ==
  [state    |-> IF symbol = SYN THEN OnSyn(b.state) ELSE OnSymbol(b.state),
   previous |-> b.state,
   master   |-> IF b.state = "received_first_syn" THEN symbol ELSE b.master]

BusData(b, symbol) ==
  [state    |-> IF symbol = SYN THEN OnSyn(b.state) ELSE OnSymbol(b.state),
   previous |-> b.state,
   master   |-> IF b.state \in {"received_first_syn", "received_second_syn"}
                THEN symbol ELSE b.master]

Buses == [state : BusStates, previous : BusStates, master : Symbols]
=============================================================================
