---------------------------- MODULE ClientSlots ----------------------------
(***************************************************************************)
(* The table of clients of one listening port (wifi_clients and its kin in *)
(* src/bridge/client.cpp), which two tasks of equal priority write without *)
(* a lock: client_accept puts connections into it, data_loop closes a      *)
(* connection of the enhanced port after a malformed command.  Bridge      *)
(* takes each of these as one step; here every access to the table and     *)
(* every socket call is a step of its own.                                 *)
(*                                                                         *)
(* closeSocket gets a reference to the table's element and reads it again  *)
(* for shutdown and for close, since both calls may change it for all the  *)
(* compiler knows.                                                         *)
(***************************************************************************)
EXTENDS Integers

CONSTANTS
  MaxPlaces,  \* MAX_WIFI_CLIENTS
  Fds,        \* socket descriptors
  MaxConns,   \* how many connections are made
  Malformed   \* whether clients may send malformed commands: TRUE for the
              \* enhanced port, FALSE for the others

VARIABLES
  table,      \* the descriptor in each place, or NoFd
  socket,     \* the connection behind each descriptor, or NoConn when closed
  up,         \* the connections that neither side has shut down
  next,       \* the number of the next connection
  accept,     \* client_accept: where it is, the accepted descriptor, the place
  loop        \* data_loop: where it is in closeSocket, the place

vars == <<table, socket, up, next, accept, loop>>

NoFd == -1
NoConn == 0

Places == 1..MaxPlaces

Init ==
  /\ table = [i \in Places |-> NoFd]
  /\ socket = [f \in Fds |-> NoConn]
  /\ up = {}
  /\ next = 1
  /\ accept = [pc |-> "accept", fd |-> NoFd, i |-> 1]
  /\ loop = [pc |-> "idle", i |-> 1]

(* isSocketConnected: a closed descriptor is not connected.                *)
Connected(f) == f # NoFd /\ socket[f] \in up

(* shutdown(f) and close(f); on NoFd they fail.                            *)
Shutdown(f) == up' = IF f = NoFd THEN up ELSE up \ {socket[f]}
CloseFd(f) ==
  socket' = IF f = NoFd THEN socket ELSE [socket EXCEPT ![f] = NoConn]

---------------------------------------------------------------------------
(* client_accept: handleNewClient                                          *)

At(pc) == accept.pc = pc
GoTo(pc) == accept' = [accept EXCEPT !.pc = pc]

Accept(f) ==
  /\ At("accept")
  /\ next <= MaxConns
  /\ socket[f] = NoConn
  /\ socket' = [socket EXCEPT ![f] = next]
  /\ up' = up \cup {next}
  /\ next' = next + 1
  /\ accept' = [pc |-> "probe", fd |-> f, i |-> 1]
  /\ UNCHANGED <<table, loop>>

Probe ==
  /\ At("probe")
  /\ accept' = CASE ~Connected(table[accept.i]) ->
                      [accept EXCEPT !.pc = "shutdown"]
                 [] Connected(table[accept.i]) /\ accept.i = MaxPlaces ->
                      [accept EXCEPT !.pc = "refuse"]
                 [] OTHER -> [accept EXCEPT !.i = @ + 1]
  /\ UNCHANGED <<table, socket, up, next, loop>>

AcceptShutdown ==
  /\ At("shutdown")
  /\ Shutdown(table[accept.i])
  /\ GoTo(IF table[accept.i] = NoFd THEN "put" ELSE "close")
  /\ UNCHANGED <<table, socket, next, loop>>

AcceptClose ==
  /\ At("close")
  /\ CloseFd(table[accept.i])
  /\ GoTo("clear")
  /\ UNCHANGED <<table, up, next, loop>>

AcceptClear ==
  /\ At("clear")
  /\ table' = [table EXCEPT ![accept.i] = NoFd]
  /\ GoTo("put")
  /\ UNCHANGED <<socket, up, next, loop>>

Put ==
  /\ At("put")
  /\ table' = [table EXCEPT ![accept.i] = accept.fd]
  /\ GoTo("accept")
  /\ UNCHANGED <<socket, up, next, loop>>

(* All places are taken: the new connection is told so and closed.         *)
Refuse ==
  /\ At("refuse")
  /\ CloseFd(accept.fd)
  /\ up' = up \ {socket[accept.fd]}
  /\ GoTo("accept")
  /\ UNCHANGED <<table, next, loop>>

---------------------------------------------------------------------------
(* data_loop: readCmd finds a malformed command of the client in place i   *)
(* and calls closeSocket.                                                  *)

ReadMalformed(i) ==
  /\ Malformed
  /\ loop.pc = "idle"
  /\ Connected(table[i])
  /\ loop' = [pc |-> "shutdown", i |-> i]
  /\ UNCHANGED <<table, socket, up, next, accept>>

LoopShutdown ==
  /\ loop.pc = "shutdown"
  /\ Shutdown(table[loop.i])
  /\ loop' = [loop EXCEPT !.pc = IF table[loop.i] = NoFd THEN "idle" ELSE "close"]
  /\ UNCHANGED <<table, socket, next, accept>>

LoopClose ==
  /\ loop.pc = "close"
  /\ CloseFd(table[loop.i])
  /\ loop' = [loop EXCEPT !.pc = "clear"]
  /\ UNCHANGED <<table, up, next, accept>>

LoopClear ==
  /\ loop.pc = "clear"
  /\ table' = [table EXCEPT ![loop.i] = NoFd]
  /\ loop' = [loop EXCEPT !.pc = "idle"]
  /\ UNCHANGED <<socket, up, next, accept>>

(* The peer closes connection c.                                           *)
Hangup(c) ==
  /\ c \in up
  /\ up' = up \ {c}
  /\ UNCHANGED <<table, socket, next, accept, loop>>

Next ==
  \/ \E f \in Fds : Accept(f)
  \/ Probe \/ AcceptShutdown \/ AcceptClose \/ AcceptClear \/ Put \/ Refuse
  \/ \E i \in Places : ReadMalformed(i)
  \/ LoopShutdown \/ LoopClose \/ LoopClear
  \/ \E c \in 1..MaxConns : Hangup(c)

Spec == Init /\ [][Next]_vars

---------------------------------------------------------------------------
(* Properties                                                              *)

(* No connection gets lost: a descriptor that is open is in the table,     *)
(* where its client is served and its end noticed, or in the hands of      *)
(* client_accept (handleNewClient, closeSocket).                           *)
NoConnectionLost ==
  \A f \in Fds : socket[f] # NoConn =>
    \/ \E i \in Places : table[i] = f
    \/ accept.pc # "accept" /\ accept.fd = f

(* The window in which one does: data_loop has closed the socket and is    *)
(* about to clear the element that client_accept fills now.                *)
Window == Put /\ loop.pc = "clear" /\ loop.i = accept.i
=============================================================================
