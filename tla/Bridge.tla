------------------------------- MODULE Bridge -------------------------------
(***************************************************************************)
(* The bridge of one adapter: enhanced-protocol clients on TCP sockets,    *)
(* the arbitration slot, the queue of BusType and the eBUS                 *)
(* (src/bridge/client.cpp, src/bridge/bus_type.cpp).                       *)
(*                                                                         *)
(* Two tasks run.  data_loop handles client commands, takes a symbol from  *)
(* the UART, pops one entry of the queue and forwards it; client_accept    *)
(* puts new connections into the table of clients.  They interleave, and   *)
(* so do the clients: a command is handled whenever the loop gets to it.   *)
(*                                                                         *)
(* The bus is any sequence of symbols out of Line.  Regular and read-only  *)
(* clients are left out: they get every symbol and own no arbitration;     *)
(* what they or CMD_SEND put on the bus comes back as a symbol of Line.    *)
(***************************************************************************)
EXTENDS BusType

CONSTANTS
  Places,     \* 1..MAX_WIFI_CLIENTS
  Fds,        \* socket descriptors
  Line,       \* symbols that occur on the bus
  Addresses,  \* master addresses the clients ask with
  MaxQueue,   \* the bus is slower than the loop: no symbol comes when the
              \* queue holds more than this
  Modes       \* how clients may behave, see mode

ASSUME BridgeAssumption ==
  /\ Places # {} /\ Places \subseteq Nat
  /\ Fds \subseteq Nat
  /\ SYN \in Line /\ Line \subseteq Symbols
  /\ Addresses \subseteq Symbols \ {SYN}
  /\ MaxQueue \in Nat
  /\ Modes \subseteq {"patient", "cancel", "hangup"}

VARIABLES
  adapter,    \* the BusType object
  slot,       \* the arbitration slot
  queue,      \* queue_ of the BusType object
  popped,     \* whether dataProcess has taken the head of queue and is about
              \* to forward it
  clients,    \* wifi_clients_enhanced
  open,       \* the descriptors whose peer is connected
  asked,      \* the address the peer of a descriptor asked with last and
              \* waits an answer for
  mode        \* "patient": a client asks again only when it is answered;
              \* otherwise it asks when it likes and, "cancel", may withdraw
              \* with START SYN or, "hangup", may disconnect

vars == <<adapter, slot, queue, popped, clients, open, asked, mode>>

NotAsked == -1

Init ==
  /\ adapter = BusTypeInit
  /\ slot = EmptySlot
  /\ queue = <<>>
  /\ popped = FALSE
  /\ clients = [i \in Places |-> NoFd]
  /\ open = {}
  /\ asked = [f \in Fds |-> NotAsked]
  /\ mode \in Modes

Connected(f) == f \in open

---------------------------------------------------------------------------
(* The accept task.                                                        *)

FreePlaces == {i \in Places : ~Connected(clients[i])}

(* handleNewClient: the first place without a connected client is closed   *)
(* and taken over.  Without such a place the connection is refused and     *)
(* nothing changes.                                                        *)
Accept(f) ==
  /\ f \notin {clients[i] : i \in Places}
  /\ \E i \in FreePlaces :
       /\ \A j \in FreePlaces : i <= j
       /\ clients' = [clients EXCEPT ![i] = f]
  /\ open' = open \cup {f}
  /\ asked' = [asked EXCEPT ![f] = NotAsked]
  /\ UNCHANGED <<adapter, slot, queue, popped, mode>>

(* The peer of a connection goes away; the firmware notices later.         *)
Hangup(f) ==
  /\ mode = "hangup"
  /\ f \in open
  /\ open' = open \ {f}
  /\ asked' = [asked EXCEPT ![f] = NotAsked]
  /\ UNCHANGED <<adapter, slot, queue, popped, clients, mode>>

---------------------------------------------------------------------------
(* data_loop: commands (handleClientEnhanced, readCmd, processCmd).        *)
(* CMD_INIT, CMD_INFO and CMD_SEND change nothing that is modelled.        *)

(* CMD_START with an address.  A free slot is taken.  An owned slot keeps  *)
(* its address: from the owner the command is a repeat and is ignored,     *)
(* whatever address it names; any other client is answered error_host at   *)
(* once and waits for nothing more.                                        *)
Start(i, address) ==
  /\ ~popped
  /\ Connected(clients[i])
  /\ mode = "patient" => asked[clients[i]] = NotAsked
  /\ slot' = SlotTake(slot, clients[i], address)
  /\ asked' = [asked EXCEPT ![clients[i]] =
                 IF slot'.client = clients[i] THEN address ELSE NotAsked]
  /\ UNCHANGED <<adapter, queue, popped, clients, open, mode>>

(* CMD_START with SYN frees the slot, whoever owns it.                     *)
Cancel(i) ==
  /\ mode = "cancel"
  /\ ~popped
  /\ Connected(clients[i])
  /\ slot' = EmptySlot
  /\ asked' = [asked EXCEPT ![clients[i]] = NotAsked]
  /\ UNCHANGED <<adapter, queue, popped, clients, open, mode>>

(* A malformed command makes the bridge close the connection.              *)
Malformed(i) ==
  /\ mode = "hangup"
  /\ ~popped
  /\ Connected(clients[i])
  /\ clients' = [clients EXCEPT ![i] = NoFd]
  /\ open' = open \ {clients[i]}
  /\ asked' = [asked EXCEPT ![clients[i]] = NotAsked]
  /\ UNCHANGED <<adapter, slot, queue, popped, mode>>

---------------------------------------------------------------------------
(* data_loop: the bus (dataProcess, BusType::read).                        *)

(* A symbol is received, then the oldest entry is popped.                  *)
Take(symbol, behind) ==
  /\ ~popped
  /\ Len(queue) <= MaxQueue
  /\ LET reaction == Receive(adapter, slot, symbol, behind)
     IN /\ adapter' = reaction.adapter
        /\ slot' = reaction.slot
        /\ queue' = queue \o reaction.pushed
  /\ popped' = TRUE
  /\ UNCHANGED <<clients, open, asked, mode>>

(* No symbol has come: the oldest entry is popped.                         *)
Pop ==
  /\ ~popped
  /\ queue # <<>>
  /\ popped' = TRUE
  /\ UNCHANGED <<adapter, slot, queue, clients, open, asked, mode>>

ClientFds == {clients[i] : i \in Places} \cap open

(* Mutant: answers are distributed like symbols.                           *)
ReceiversAlike(d) == {f \in ClientFds : f # d.fd}

(* The connected clients that get the entry d: an answer goes to the       *)
(* client with its descriptor, a symbol to all others.                     *)
Receivers(d) ==
  {f \in ClientFds : IF d.enhanced THEN f = d.fd ELSE f # d.fd}

(* The popped entry goes out.                                              *)
Forward ==
  /\ popped
  /\ asked' = [f \in Fds |->
                IF Head(queue).enhanced /\ f \in Receivers(Head(queue))
                THEN NotAsked ELSE asked[f]]
  /\ queue' = Tail(queue)
  /\ popped' = FALSE
  /\ UNCHANGED <<adapter, slot, clients, open, mode>>

---------------------------------------------------------------------------
Next ==
  \/ \E f \in Fds : Accept(f) \/ Hangup(f)
  \/ \E i \in Places : \/ \E address \in Addresses : Start(i, address)
                       \/ Cancel(i)
                       \/ Malformed(i)
  \/ \E symbol \in Line, behind \in BOOLEAN : Take(symbol, behind)
  \/ Pop
  \/ Forward

(* data_loop runs without pause; SYNs come again and again (the SYN        *)
(* generator of the bus); the loop is not behind at every SYN that could   *)
(* start an arbitration.                                                   *)
StartInTime ==
  /\ slot.client # NoFd
  /\ ~adapter.arb.arbitrating
  /\ Take(SYN, FALSE)
  /\ adapter'.arb.arbitrating

Fairness ==
  /\ WF_vars(Pop)
  /\ WF_vars(Forward)
  /\ SF_vars(\E behind \in BOOLEAN : Take(SYN, behind))
  /\ SF_vars(StartInTime)

Spec == Init /\ [][Next]_vars

FairSpec == Spec /\ Fairness

---------------------------------------------------------------------------
(* Properties                                                              *)

Entries == [enhanced : BOOLEAN,
            c : {"received", "started", "failed", "error_ebus"},
            d : Symbols, fd : Fds \cup {NoFd}]

Adapters == [bus : Buses, arb : Arbs, fd : Fds \cup {NoFd}]

Slots == {EmptySlot} \cup [client : Fds, address : Addresses]

(* Every variable holds values of its type; an entry is popped only from a *)
(* queue that has one.                                                     *)
TypeOK ==
  /\ adapter \in Adapters
  /\ slot \in Slots
  /\ queue \in Seq(Entries)
  /\ popped \in BOOLEAN
  /\ popped => queue # <<>>
  /\ clients \in [Places -> Fds \cup {NoFd}]
  /\ open \in SUBSET Fds
  /\ asked \in [Fds -> Addresses \cup {NotAsked}]
  /\ mode \in Modes

(* While an arbitration runs, the request it serves stays in the slot, so  *)
(* that the arbitrationDone that ends it erases no other client's request  *)
(* (BusType::receive), unless a client withdraws.                          *)
ArbitrationServesSlot ==
  mode # "cancel" /\ adapter.arb.arbitrating =>
    slot = [client |-> adapter.fd, address |-> adapter.arb.address]

(* The same without the exception: "only one client can be in arbitration" *)
(* (processCmd).                                                           *)
OnlyOneClientInArbitration ==
  adapter.arb.arbitrating /\ slot.client # NoFd => slot.client = adapter.fd

(* An answer reaches a client that waits for one, a "started" carries the  *)
(* address it asked for last, and no second answer follows: "'enhanced'    *)
(* data should go only to the arbitrating client" (struct Data in          *)
(* bus_type.hpp).                                                          *)
AnswersAreAsked ==
  \A k \in 1..Len(queue) :
    queue[k].enhanced /\ queue[k].fd \in ClientFds =>
      /\ asked[queue[k].fd] # NotAsked
      /\ queue[k].c = "started" => queue[k].d = asked[queue[k].fd]
      /\ \A l \in 1..Len(queue) :
           queue[l].enhanced /\ queue[l].fd = queue[k].fd => l = k

(* It holds as long as no client asks twice, withdraws or goes away.       *)
PatientAnswers == mode = "patient" => AnswersAreAsked

(* Every request of a patient client is answered: none waits for ever.     *)
RequestAnswered ==
  \A f \in Fds : []<>(mode = "patient" => asked[f] = NotAsked)

(* The slot never stays occupied, not even when its client has gone: it is *)
(* free again and again.                                                   *)
SlotFreed == []<>(slot.client = NoFd)

---------------------------------------------------------------------------
(* The inductive invariant behind these properties (BridgeProofs).         *)

(* The request in the slot is that of a client that waits for its answer.  *)
SlotIsAsked ==
  slot.client # NoFd =>
    /\ slot.client \in ClientFds
    /\ asked[slot.client] = slot.address

(* An answer on its way is for a client that waits for it; the slot is no  *)
(* longer that client's.                                                   *)
AnswersAreOwed ==
  \A k \in 1..Len(queue) : queue[k].enhanced =>
    /\ queue[k].fd \in ClientFds
    /\ queue[k].fd # slot.client

IInv ==
  /\ TypeOK
  /\ ArbitrationServesSlot
  /\ PatientAnswers
  /\ mode = "patient" => SlotIsAsked /\ AnswersAreOwed

---------------------------------------------------------------------------
(* What exactly breaks the two promises that clients of any mode do not    *)
(* get, OnlyOneClientInArbitration and AnswersAreAsked.                    *)

(* The request in the slot is the one that is arbitrated.                  *)
Served ==
  adapter.arb.arbitrating =>
    slot = [client |-> adapter.fd, address |-> adapter.arb.address]

(* A client withdraws while an arbitration is on the bus.                  *)
Overtaken == \E i \in Places : Cancel(i) /\ adapter.arb.arbitrating

(* Nothing else takes the slot from an arbitration that runs: no START, no *)
(* client that goes away, no symbol (processCmd, BusType::receive).        *)
OnlyWithdrawalUnseats == [][Served /\ ~Overtaken => Served']_vars

Answered(f) == \E k \in 1..Len(queue) : queue[k].enhanced /\ queue[k].fd = f

Serving(f) == adapter.arb.arbitrating /\ adapter.fd = f

(* All that is under way for the client f, its request, its arbitration or *)
(* its only answer, belongs to what f asked last.                          *)
DueTo(f) ==
  /\ slot.client = f => asked[f] = slot.address
  /\ Serving(f) => asked[f] = adapter.arb.address
  /\ Answered(f) => slot.client # f /\ ~Serving(f)
  /\ \A k \in 1..Len(queue) : queue[k].enhanced /\ queue[k].fd = f =>
       /\ asked[f] # NotAsked
       /\ queue[k].c = "started" => queue[k].d = asked[f]
       /\ \A l \in 1..Len(queue) :
            queue[l].enhanced /\ queue[l].fd = f => l = k

AnswersDue == \A f \in ClientFds : DueTo(f)

UnderWay(f) == slot.client = f \/ Serving(f) \/ Answered(f)

(* A connection gets the descriptor of one that left something under way.  *)
Inherits(f) == Accept(f) /\ UnderWay(f)

(* A client withdraws what is on the bus already, or answered.             *)
WithdrawsLate(f) ==
  \E i \in Places : Cancel(i) /\ clients[i] = f /\ (Serving(f) \/ Answered(f))

(* A client asks again while something of its last request is under way:   *)
(* for another address, which the bridge ignores and answers with the old  *)
(* one, or refused because the slot went to another client, or before it   *)
(* has read the answer that is on its way.                                 *)
AsksAgain(f) ==
  \E i \in Places, address \in Addresses :
    /\ Start(i, address)
    /\ clients[i] = f
    /\ UnderWay(f)
    /\ asked'[f] # asked[f] \/ Answered(f)

Estranged == \E f \in Fds : Inherits(f) \/ WithdrawsLate(f) \/ AsksAgain(f)

(* Nothing else brings a client an answer it does not wait for, whatever   *)
(* clients ask, withdraw, and leave behind: a repeat of the same request   *)
(* and the requests of other clients do not.                               *)
OnlyEstrangement == [][AnswersDue /\ ~Estranged => AnswersDue']_vars
=============================================================================
