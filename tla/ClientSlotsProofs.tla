------------------------- MODULE ClientSlotsProofs -------------------------
(***************************************************************************)
(* When a connection gets lost, for any number of places, descriptors and  *)
(* connections: only when client_accept fills an element in the one window *)
(* that closeSocket leaves to it, and so never on the ports whose table    *)
(* only client_accept writes.                                              *)
(***************************************************************************)
EXTENDS ClientSlots, TLAPS

TypeOK ==
  /\ table \in [Places -> Fds \cup {NoFd}]
  /\ socket \in [Fds -> Nat]
  /\ next \in Nat \ {0}
  /\ accept \in [pc : {"accept", "probe", "shutdown", "close", "clear", "put",
                       "refuse"},
                 fd : Fds \cup {NoFd}, i : Places]
  /\ loop \in [pc : {"idle", "shutdown", "close", "clear"}, i : Places]

(* What the place at hand holds while client_accept empties it.            *)
PlaceAtHand ==
  /\ accept.pc = "clear" =>
       (table[accept.i] \in Fds => socket[table[accept.i]] = NoConn)
  /\ accept.pc = "put" => table[accept.i] = NoFd

(* A descriptor that data_loop has closed and is about to clear may have   *)
(* been given to a new connection; that one is then held elsewhere.        *)
ClearedIsHeld ==
  loop.pc = "clear" =>
    \A f \in Fds : table[loop.i] = f /\ socket[f] # NoConn =>
      \/ \E i \in Places : i # loop.i /\ table[i] = f
      \/ accept.pc # "accept" /\ accept.fd = f

Inv == TypeOK /\ PlaceAtHand /\ ClearedIsHeld /\ NoConnectionLost

(* Each step of either task, outside the window.                           *)
LEMMA StepInv ==
  ASSUME MaxPlaces \in Nat \ {0}, Fds \subseteq Nat, Inv, Next, ~Window
  PROVE  Inv'
<1>1. 1 \in Places /\ NoFd \notin Fds
  BY DEF Places, NoFd
<1>2. TypeOK /\ PlaceAtHand /\ ClearedIsHeld /\ NoConnectionLost
  BY DEF Inv
<1>3. ASSUME NEW f \in Fds, Accept(f)
      PROVE  Inv'
  <2>1. TypeOK' /\ PlaceAtHand'
    BY <1>1, <1>2, <1>3 DEF Accept, At, TypeOK, PlaceAtHand
  <2>2. NoConnectionLost' /\ ClearedIsHeld'
    BY <1>2, <1>3 DEF Accept, At, TypeOK, NoConnectionLost, ClearedIsHeld
  <2>3. QED
    BY <2>1, <2>2 DEF Inv
<1>4. CASE Probe
  <2>1. accept' \in [pc : {"probe", "shutdown", "refuse"},
                     fd : Fds \cup {NoFd}, i : Places] /\ accept'.fd = accept.fd
    <3>1. accept.i # MaxPlaces => accept.i + 1 \in Places
      BY <1>2 DEF TypeOK, Places
    <3>2. accept' \in {[accept EXCEPT !.pc = "shutdown"],
                       [accept EXCEPT !.pc = "refuse"]}
            \/ (accept.i # MaxPlaces /\ accept' = [accept EXCEPT !.i = accept.i + 1])
      BY <1>4 DEF Probe
    <3>3. QED
      BY <1>2, <1>4, <3>1, <3>2 DEF Probe, At, TypeOK
  <2>2. TypeOK' /\ PlaceAtHand'
    BY <1>2, <1>4, <2>1 DEF Probe, TypeOK, PlaceAtHand
  <2>3. NoConnectionLost' /\ ClearedIsHeld'
    BY <1>2, <1>4, <2>1 DEF Probe, At, NoConnectionLost, ClearedIsHeld
  <2>4. QED
    BY <2>2, <2>3 DEF Inv
<1>5. CASE AcceptShutdown
  <2>1. TypeOK' /\ PlaceAtHand'
    BY <1>2, <1>5 DEF AcceptShutdown, GoTo, TypeOK, PlaceAtHand
  <2>2. NoConnectionLost' /\ ClearedIsHeld'
    BY <1>2, <1>5 DEF AcceptShutdown, At, GoTo, TypeOK, NoConnectionLost, ClearedIsHeld
  <2>3. QED
    BY <2>1, <2>2 DEF Inv
<1>6. CASE AcceptClose
  <2>1. TypeOK' /\ PlaceAtHand'
    BY <1>1, <1>2, <1>6 DEF AcceptClose, CloseFd, GoTo, TypeOK, PlaceAtHand, NoConn
  <2>2. NoConnectionLost' /\ ClearedIsHeld'
    BY <1>2, <1>6
       DEF AcceptClose, CloseFd, At, GoTo, TypeOK, NoConnectionLost, ClearedIsHeld
  <2>3. QED
    BY <2>1, <2>2 DEF Inv
<1>7. CASE AcceptClear
  <2>1. TypeOK' /\ PlaceAtHand'
    BY <1>2, <1>7 DEF AcceptClear, GoTo, TypeOK, PlaceAtHand
  <2>2. NoConnectionLost' /\ ClearedIsHeld'
    BY <1>1, <1>2, <1>7
       DEF AcceptClear, At, GoTo, TypeOK, PlaceAtHand, NoConnectionLost, ClearedIsHeld
  <2>3. QED
    BY <2>1, <2>2 DEF Inv
<1>8. CASE Put
  <2>1. TypeOK' /\ PlaceAtHand'
    BY <1>2, <1>8 DEF Put, GoTo, TypeOK, PlaceAtHand
  <2>2. NoConnectionLost'
    BY <1>1, <1>2, <1>8 DEF Put, At, GoTo, TypeOK, PlaceAtHand, NoConnectionLost
  <2>3. ClearedIsHeld'
    BY <1>1, <1>2, <1>8 DEF Put, Window, At, GoTo, TypeOK, PlaceAtHand, ClearedIsHeld
  <2>4. QED
    BY <2>1, <2>2, <2>3 DEF Inv
<1>9. CASE Refuse
  <2>1. TypeOK' /\ PlaceAtHand'
    BY <1>2, <1>9 DEF Refuse, CloseFd, GoTo, TypeOK, PlaceAtHand, NoConn
  <2>2. /\ accept.pc = "refuse" /\ accept'.pc = "accept"
        /\ table' = table /\ loop' = loop
        /\ accept.fd \in Fds => socket' = [socket EXCEPT ![accept.fd] = NoConn]
        /\ accept.fd = NoFd => socket' = socket
    BY <1>1, <1>2, <1>9 DEF Refuse, CloseFd, At, GoTo, TypeOK
  <2>3. NoConnectionLost' /\ ClearedIsHeld'
    BY <1>1, <1>2, <2>2 DEF TypeOK, NoConnectionLost, ClearedIsHeld
  <2>4. QED
    BY <2>1, <2>3 DEF Inv
<1>10. ASSUME NEW i \in Places, ReadMalformed(i)
       PROVE  Inv'
  BY <1>2, <1>10 DEF ReadMalformed, Inv, TypeOK, PlaceAtHand, ClearedIsHeld, NoConnectionLost
<1>11. CASE LoopShutdown
  BY <1>2, <1>11
     DEF LoopShutdown, Inv, TypeOK, PlaceAtHand, ClearedIsHeld, NoConnectionLost
<1>12. CASE LoopClose
  <2>1. TypeOK' /\ PlaceAtHand'
    BY <1>1, <1>2, <1>12 DEF LoopClose, CloseFd, TypeOK, PlaceAtHand, NoConn
  <2>2. NoConnectionLost' /\ ClearedIsHeld'
    BY <1>1, <1>2, <1>12 DEF LoopClose, CloseFd, TypeOK, NoConnectionLost, ClearedIsHeld
  <2>3. QED
    BY <2>1, <2>2 DEF Inv
(* What is cleared was closed, and what came to its descriptor since is    *)
(* held elsewhere.                                                         *)
<1>13. CASE LoopClear
  <2>1. TypeOK' /\ PlaceAtHand' /\ ClearedIsHeld'
    BY <1>1, <1>2, <1>13 DEF LoopClear, TypeOK, PlaceAtHand, ClearedIsHeld
  <2>2. NoConnectionLost'
    BY <1>2, <1>13 DEF LoopClear, TypeOK, ClearedIsHeld, NoConnectionLost
  <2>3. QED
    BY <2>1, <2>2 DEF Inv
<1>14. ASSUME NEW c \in 1..MaxConns, Hangup(c)
       PROVE  Inv'
  BY <1>2, <1>14 DEF Hangup, Inv, TypeOK, PlaceAtHand, ClearedIsHeld, NoConnectionLost
<1>15. QED
  BY <1>3, <1>4, <1>5, <1>6, <1>7, <1>8, <1>9, <1>10, <1>11, <1>12, <1>13, <1>14 DEF Next

LEMMA InitInv ==
  ASSUME MaxPlaces \in Nat \ {0}, Init
  PROVE  Inv
<1>1. 1 \in Places
  BY DEF Places
<1>2. QED
  BY <1>1 DEF Init, Inv, TypeOK, PlaceAtHand, ClearedIsHeld, NoConnectionLost, NoConn

(* A connection gets lost only in the window between the closing of an     *)
(* element's socket and its clearing, when client_accept fills that very   *)
(* element (handleNewClient, closeSocket): outside it both tasks may do    *)
(* what they like, also with descriptors that are closed and given again.  *)
THEOREM LostOnlyInWindow ==
  ASSUME MaxPlaces \in Nat \ {0}, Fds \subseteq Nat
  PROVE  Spec /\ [][~Window]_vars => []NoConnectionLost
<1>1. Init => Inv
  BY InitInv
<1>2. Inv /\ [Next]_vars /\ [~Window]_vars => Inv'
  <2>1. ASSUME Inv, UNCHANGED vars PROVE Inv'
    BY <2>1 DEF vars, Inv, TypeOK, PlaceAtHand, ClearedIsHeld, NoConnectionLost
  <2>2. QED
    BY <2>1, StepInv
<1>3. Inv => NoConnectionLost
  BY DEF Inv
<1>4. QED
  BY <1>1, <1>2, <1>3, PTL DEF Spec

(* With well-formed commands, as on the regular and the read-only port, an *)
(* open descriptor is always in the table or in the hands of client_accept *)
(* (handleNewClient): there is no such window.                             *)
THEOREM AcceptLosesNoConnection ==
  ASSUME MaxPlaces \in Nat \ {0}, Fds \subseteq Nat, Malformed = FALSE
  PROVE  Spec => []NoConnectionLost
<1> DEFINE Quiet == loop.pc = "idle"
<1>1. Init => Quiet
  BY DEF Init
<1>2. Quiet /\ [Next]_vars => Quiet'
  BY DEF Next, vars, Accept, Probe, AcceptShutdown, AcceptClose, AcceptClear, Put, Refuse,
         ReadMalformed, LoopShutdown, LoopClose, LoopClear, Hangup
<1>3. Quiet => [~Window]_vars
  BY DEF Window
<1>4. Spec => [][~Window]_vars
  BY <1>1, <1>2, <1>3, PTL DEF Spec
<1>5. QED
  BY <1>4, LostOnlyInWindow, PTL
=============================================================================
