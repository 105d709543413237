----------------------------- MODULE MCEbusLine -----------------------------
(***************************************************************************)
(* Instances of EbusLine.  The addresses make every case of the            *)
(* arbitration happen: p and r share the best priority class, but the high *)
(* nibble of q is smaller, so when all three write, their AND is the       *)
(* address of none of them and p and r go into the second round.           *)
(***************************************************************************)
EXTENDS EbusLine, TLC

CONSTANTS p, q, r

Addr3 == p :> 3 * 16 @@ q :> 1 * 16 + 1 @@ r :> 7 * 16
Addr2 == p :> 3 * 16 @@ q :> 1 * 16 + 1

(* A payload byte that looks like the address of p.                        *)
Payload1 == {3 * 16}
=============================================================================
