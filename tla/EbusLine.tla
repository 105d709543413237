------------------------------ MODULE EbusLine ------------------------------
(***************************************************************************)
(* Several adapters that run the bridge firmware share one eBUS.           *)
(*                                                                         *)
(* Each adapter n serves a client that asks for the bus with the master    *)
(* address Addr[n].  One step is one symbol on the wire: every adapter     *)
(* receives it and reacts with Receive of module BusType, possibly by      *)
(* writing its own address in the next symbol time.  The wire is a wired   *)
(* AND: when several adapters write at once, the bitwise AND of their      *)
(* addresses is what all of them read back.                                *)
(*                                                                         *)
(* Faults: a written address may be lost (the case the restart logic of    *)
(* arbitration.cpp is for), an adapter may be behind when it handles a SYN *)
(* and miss the round, a client may withdraw its request at any time, and  *)
(* an adapter may reboot at any time and rejoin in the middle of whatever  *)
(* the bus is doing.                                                       *)
(***************************************************************************)
EXTENDS BusType, FiniteSets

CONSTANTS
  Nodes,      \* the adapters
  Addr,       \* the master address the client of each adapter uses
  Payload,    \* the bytes a master sends after its address
  Lossy,      \* whether written addresses may get lost
  Reboots,    \* whether adapters may reboot
  NoOwner     \* stands for the owner of a free bus in the abstract module

Nibbles == {0, 1, 3, 7, 15}

(* The 25 eBUS master addresses: both nibbles are 0, 1, 3, 7 or 15.        *)
MasterAddresses == {16 * h + l : h \in Nibbles, l \in Nibbles}

ASSUME LineAssumption ==
  /\ Nodes # {}
  /\ Addr \in [Nodes -> MasterAddresses]
  /\ \A m, n \in Nodes : Addr[m] = Addr[n] => m = n
  /\ Payload \subseteq Symbols \ {SYN}
  /\ Lossy \in BOOLEAN
  /\ Reboots \in BOOLEAN
  /\ NoOwner \notin Nodes

VARIABLES
  adapter,    \* the BusType object of each adapter
  slot,       \* the arbitration slot of each adapter
  written,    \* the bytes each adapter puts on the wire in the next symbol time
  holds,      \* the adapters that won the bus in the current telegram
  news        \* what each adapter tells its client on the last symbol

vars == <<adapter, slot, written, holds, news>>

---------------------------------------------------------------------------

Client == 0            \* the fd of an adapter's client

NoNews == [c |-> "none", d |-> 0]

(* The bytes on the wire when the adapters in W write: the nibbles of a    *)
(* master address are one-runs 0, 1, 11, 111, 1111, so that their bitwise  *)
(* AND is the smallest of them.                                            *)
Smallest(S) == CHOOSE x \in S : \A y \in S : x <= y
Bytes(W) == UNION {written[n] : n \in W}
WiredAnd(W) == 16 * Smallest({b \div 16 : b \in Bytes(W)})
                  + Smallest({b % 16 : b \in Bytes(W)})

Writers == {n \in Nodes : written[n] # {}}

Init ==
  /\ adapter = [n \in Nodes |-> BusTypeInit]
  /\ slot = [n \in Nodes |-> EmptySlot]
  /\ written = [n \in Nodes |-> {}]
  /\ holds = {}
  /\ news = [n \in Nodes |-> NoNews]

(* Client n asks for the bus (CMD_START); while an earlier request of its  *)
(* stands this is a repeat and changes nothing.                            *)
Request(n) ==
  /\ slot' = [slot EXCEPT ![n] = SlotTake(slot[n], Client, Addr[n])]
  /\ UNCHANGED <<adapter, written, holds, news>>

(* Client n withdraws (CMD_START with SYN).                                *)
Cancel(n) ==
  /\ slot' = [slot EXCEPT ![n] = EmptySlot]
  /\ UNCHANGED <<adapter, written, holds, news>>

(* Adapter n reboots: it forgets everything, its client is disconnected.   *)
Reboot(n) ==
  /\ Reboots
  /\ adapter' = [adapter EXCEPT ![n] = BusTypeInit]
  /\ slot' = [slot EXCEPT ![n] = EmptySlot]
  /\ written' = [written EXCEPT ![n] = {}]
  /\ holds' = holds \ {n}
  /\ news' = [m \in Nodes |-> NoNews]

(* The reaction of adapter n to a symbol.                                  *)
Reaction(n, symbol, behind) ==
  Receive(adapter[n], slot[n], symbol, n \in behind)

(* One symbol time: all adapters receive the symbol.                       *)
Symbol(symbol, behind) ==
  /\ adapter' = [n \in Nodes |-> Reaction(n, symbol, behind).adapter]
  /\ slot' = [n \in Nodes |-> Reaction(n, symbol, behind).slot]
  /\ written' = [n \in Nodes |-> Reaction(n, symbol, behind).written]
  /\ holds' = IF symbol = SYN THEN {}
              ELSE holds \cup {n \in Nodes :
                                 Reaction(n, symbol, behind).outcome \in Won}
  /\ news' = [n \in Nodes |->
                LET entry == Head(Reaction(n, symbol, behind).pushed)
                IN IF entry.enhanced THEN [c |-> entry.c, d |-> entry.d]
                   ELSE NoNews]

(* The writers contend; those in lost do not make it to the wire.          *)
Contend(behind) ==
  \E lost \in SUBSET Writers :
    /\ lost # Writers
    /\ lost # {} => Lossy
    /\ Symbol(WiredAnd(Writers \ lost), behind)

(* Nobody drives the wire, or what they wrote got lost, or the master ends *)
(* its telegram: the next symbol is a SYN.                                 *)
Syn(behind) ==
  /\ Writers # {} => Lossy
  /\ Symbol(SYN, behind)

(* The client of an adapter that holds the bus sends a byte.  (The code    *)
(* passes on CMD_SEND at any time; clients keep to the protocol.)          *)
Transmit(behind) ==
  /\ holds # {}
  /\ Writers = {}
  /\ \E byte \in Payload : Symbol(byte, behind)

Next ==
  \/ \E n \in Nodes : Request(n) \/ Cancel(n) \/ Reboot(n)
  \/ \E behind \in SUBSET Nodes : Contend(behind) \/ Syn(behind) \/ Transmit(behind)

(* The wire never stops: the SYN generator of the bus ends every pause,    *)
(* and telegrams are finite.  An adapter whose client waits is not behind  *)
(* at every SYN it could answer: the data loop polls the UART without      *)
(* pause.                                                                  *)
InTime(n) ==
  /\ slot[n].client = Client
  /\ ~adapter[n].arb.arbitrating
  /\ \E behind \in SUBSET (Nodes \ {n}) : Syn(behind)
  /\ adapter'[n].arb.arbitrating

Fairness ==
  /\ WF_vars(\E behind \in SUBSET Nodes : Syn(behind) \/ Contend(behind))
  /\ \A n \in Nodes : SF_vars(InTime(n))

Spec == Init /\ [][Next]_vars

FairSpec == Spec /\ Fairness
---------------------------------------------------------------------------
(* Properties                                                              *)

News == [c : {"none", "started", "failed", "error_ebus"}, d : Symbols]

Adapters == [bus : Buses, arb : Arbs, fd : {NoFd, Client}]

Slots == [client : {NoFd, Client}, address : Int]

(* Every variable holds values of its type.                                *)
TypeOK ==
  /\ adapter \in [Nodes -> Adapters]
  /\ slot \in [Nodes -> Slots]
  /\ written \in [Nodes -> SUBSET Symbols]
  /\ holds \in SUBSET Nodes
  /\ news \in [Nodes -> News]

(* Two adapters never believe to own the bus in the same telegram,         *)
(* whatever is lost, late or restarted ("we won; nobody else will write to *)
(* the bus", Arbitration::data).                                           *)
MutualExclusion == \A m, n \in holds : m = n

(* No adapter writes its address into the telegram of another, not even    *)
(* one that has just booted and has to find the beat of the bus            *)
(* (BusState::data, Arbitration::start).                                   *)
NoCollision == holds # {} => Writers = {}

(* An adapter that reports "failed m" to its client names the master that  *)
(* has the bus at that moment (BusType::receive, lost1 and lost2).         *)
LostNamesWinner ==
  \A n \in Nodes : news[n].c = "failed" =>
    \E h \in holds : h # n /\ news[n].d = Addr[h]

(* "started" reaches the client of the one adapter that has the bus, and   *)
(* carries its own address (BusType::receive, won1 and won2).              *)
StartedNamesSelf ==
  \A n \in Nodes : news[n].c = "started" =>
    holds = {n} /\ news[n].d = Addr[n]

(* When no written address gets lost, the adapter that wins has the best   *)
(* priority class of all that take part, over both rounds                  *)
(* (Arbitration::data).                                                    *)
BestClassWins ==
  [][\A n \in holds' \ holds : \A m \in Nodes :
       adapter[m].arb.arbitrating => Class(Addr[n]) <= Class(Addr[m])]_vars

(* Every request is answered or withdrawn, even if the adapter always      *)
(* loses, or its writes are always lost: the slot does not stay occupied   *)
(* (BusType::receive, arbitrationDone).                                    *)
RequestAnswered ==
  \A n \in Nodes : (slot[n].client = Client) ~> (slot[n].client = NoFd)

(* Seen as a whole the adapters implement a lock on the bus (BusLock): it  *)
(* passes from owner to owner only through a SYN, only a competitor gets   *)
(* it, and a competitor gives up only to an owner.                         *)
Owner == IF holds = {} THEN NoOwner ELSE CHOOSE h \in holds : TRUE

Competitors == {n \in Nodes : adapter[n].arb.arbitrating}

Lock == INSTANCE BusLock WITH owner <- Owner, compete <- Competitors

ImplementsLock == Lock!Spec

---------------------------------------------------------------------------
(* The inductive invariant behind these properties (EbusLineProofs).       *)

(* What holds of an adapter t, its slot s and the address A of its client: *)
(* a request and an arbitration are for A, an arbitration goes on only     *)
(* between a SYN and the second symbol after it.                           *)
Sound(t, s, A) ==
  /\ s = EmptySlot \/ s = [client |-> Client, address |-> A]
  /\ t.arb.arbitrating =>
       /\ t.fd = Client
       /\ t.arb.address = A
       /\ t.bus.state \in AddressDue \cup AddressSeen

AllSound == \A n \in Nodes : Sound(adapter[n], slot[n], Addr[n])

(* The adapters agree on whether the last symbol was a SYN.                *)
InStep ==
  \A m, n \in Nodes :
    adapter[m].bus.state \in AfterSyn => adapter[n].bus.state \notin AfterSymbol

FreeAfterSyn ==
  \A n \in Nodes : adapter[n].bus.state \in AfterSyn => holds = {}

WritesAfterSyn ==
  \A n \in Nodes :
    /\ written[n] \in SUBSET {Addr[n]}
    /\ written[n] # {} => /\ adapter[n].arb.arbitrating
                          /\ adapter[n].bus.state \in AddressDue

HoldersRest == \A n \in holds : ~adapter[n].arb.arbitrating

(* Who is waiting for the symbol after an address knows the holder.        *)
MasterIsHolder ==
  \A n \in Nodes : \A h \in holds :
    adapter[n].bus.state \in AddressSeen => adapter[n].bus.master = Addr[h]

IInv ==
  /\ TypeOK
  /\ AllSound
  /\ InStep
  /\ FreeAfterSyn
  /\ WritesAfterSyn
  /\ HoldersRest
  /\ MasterIsHolder
  /\ MutualExclusion
  /\ LostNamesWinner
  /\ StartedNamesSelf

---------------------------------------------------------------------------
(* The inductive invariant behind BestClassWins.                           *)

(* Adapters that started together and miss nothing deduce the same.        *)
SameBeat == \A m, n \in Nodes : adapter[m].bus = adapter[n].bus

(* All who compete write in the first round; who writes in the second has  *)
(* the class that the first one found.                                     *)
RoundsWrite ==
  \A n \in Nodes :
    /\ adapter[n].bus.state = "received_first_syn" /\ adapter[n].arb.arbitrating =>
         written[n] = {Addr[n]} /\ ~adapter[n].arb.second
    /\ adapter[n].bus.state = "received_second_syn" /\ written[n] # {} =>
         adapter[n].arb.second

(* The address seen in a round is of the best class of all who compete.    *)
RoundsNarrow ==
  \A n \in Nodes :
    adapter[n].arb.arbitrating /\ adapter[n].bus.state # "received_first_syn" =>
      /\ Class(adapter[n].bus.master) <= Class(Addr[n])
      /\ adapter[n].arb.second => Class(adapter[n].bus.master) = Class(Addr[n])

ClassIInv == IInv /\ SameBeat /\ RoundsWrite /\ RoundsNarrow
=============================================================================
