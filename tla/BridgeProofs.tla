---------------------------- MODULE BridgeProofs ----------------------------
(***************************************************************************)
(* Proofs about Bridge, for any number of clients and descriptors, any     *)
(* traffic on the bus and a queue of any length.                           *)
(***************************************************************************)
EXTENDS Bridge, BusTypeProofs, SequenceTheorems

---------------------------------------------------------------------------
(* Sequences.                                                              *)

LEMMA AppendToShort ==
  ASSUME NEW x, NEW y
  PROVE  Append(<<>>, y) = <<y>> /\ Append(<<x>>, y) = <<x, y>>
<1>1. <<>> \in Seq({x, y}) /\ <<x>> \in Seq({x, y})
  OBVIOUS
<1>2. <<y>> \in Seq({x, y}) /\ <<x, y>> \in Seq({x, y})
  OBVIOUS
<1>3. Append(<<>>, y) = <<y>>
  BY <1>1, <1>2, AppendProperties, SeqEqual
<1>4. Append(<<x>>, y) = <<x, y>>
  <2>1. /\ Append(<<x>>, y) \in Seq({x, y})
        /\ Len(Append(<<x>>, y)) = 2
        /\ Append(<<x>>, y)[1] = x
        /\ Append(<<x>>, y)[2] = y
    BY <1>1, AppendProperties
  <2>2. \A i \in 1..2 : Append(<<x>>, y)[i] = <<x, y>>[i]
    BY <2>1
  <2>3. QED
    BY <1>2, <2>1, <2>2, SeqEqual
<1>5. QED
  BY <1>3, <1>4

LEMMA ConcatShort ==
  ASSUME NEW S, NEW q \in Seq(S), NEW x \in S, NEW y \in S
  PROVE  /\ q \o <<x>> = Append(q, x)
         /\ q \o <<x, y>> = Append(Append(q, x), y)
OBVIOUS

LEMMA TailFacts ==
  ASSUME NEW S, NEW q \in Seq(S), q # <<>>
  PROVE  /\ Head(q) = q[1]
         /\ Tail(q) \in Seq(S)
         /\ Len(Tail(q)) = Len(q) - 1
         /\ \A k \in 1..Len(Tail(q)) : k + 1 \in 1..Len(q) /\ Tail(q)[k] = q[k + 1]
OBVIOUS

---------------------------------------------------------------------------
(* One symbol.                                                             *)

(* What Receive does to the bridge: it keeps the types; it queues the      *)
(* symbol, and before it an answer when an arbitration ends, which frees   *)
(* the slot; an arbitration that runs afterwards either ran before or is   *)
(* for the request in the slot.                                            *)
LEMMA ReceiveFacts ==
  ASSUME NEW t \in Adapters, NEW s \in Slots, NEW symbol \in Symbols,
         NEW behind, NEW r, r = Receive(t, s, symbol, behind)
  PROVE  /\ r.adapter \in Adapters
         /\ \/ /\ r.slot = s
               /\ \E x \in Entries : ~x.enhanced /\ r.pushed = <<x>>
            \/ /\ r.slot = EmptySlot
               /\ t.arb.arbitrating
               /\ ~r.adapter.arb.arbitrating
               /\ \E e, x \in Entries :
                    /\ e.enhanced /\ ~x.enhanced /\ r.pushed = <<e, x>>
                    /\ e.fd = t.fd
                    /\ e.c = "started" => e.d = t.arb.address
         /\ r.adapter.arb.arbitrating =>
              /\ r.slot = s
              /\ \/ /\ t.arb.arbitrating
                    /\ r.adapter.fd = t.fd
                    /\ r.adapter.arb.address = t.arb.address
                 \/ /\ s \in [client : Fds, address : Addresses]
                    /\ r.adapter.fd = s.client
                    /\ r.adapter.arb.address = s.address
<1> DEFINE bus     == BusData(t.bus, symbol)
           outcome == ArbOutcome(bus, t.arb, symbol)
           arb     == ArbAfter(bus, t.arb, symbol)
           starts  == /\ outcome \in Idle
                      /\ s.client >= 0
                      /\ StartResult(bus, arb, s.address, behind) = "started"
           fd      == IF outcome \in Idle THEN s.client ELSE t.fd
           hidden  == IF outcome \in Won \cup {"arbitrating"} THEN fd ELSE NoFd
           answer  == CASE outcome \in Won  -> <<Data(TRUE, "started", bus.master, fd)>>
                        [] outcome \in Lost -> <<Data(TRUE, "failed", bus.master, fd)>>
                        [] outcome = "error" -> <<Data(TRUE, "error_ebus", 0, fd)>>
                        [] OTHER -> <<>>
<1>1. r.pushed = Append(answer, Data(FALSE, "received", symbol, hidden))
  BY DEF Receive
<1>2. /\ r.adapter = [bus |-> bus,
                      arb |-> IF starts THEN ArbStart(arb, s.address) ELSE arb,
                      fd |-> IF outcome \in Done THEN NoFd ELSE fd]
      /\ r.slot = IF outcome \in Done THEN EmptySlot ELSE s
  BY ReceiveFields
<1>3. /\ t.bus \in Buses
      /\ t.arb \in Arbs
      /\ t.fd \in Fds \cup {NoFd}
      /\ s.client \in Fds \cup {NoFd}
      /\ s.client >= 0 => s \in [client : Fds, address : Addresses]
  BY DEF Adapters, Slots, EmptySlot, NoFd
<1>4. bus \in Buses /\ arb \in Arbs
  BY <1>3, BusDataFacts, ArbAfterType
<1>5. /\ outcome \in Idle \cup Done \cup {"arbitrating"}
      /\ outcome # "none" => t.arb.arbitrating
      /\ outcome \in Won => bus.state \in AddressSeen /\ symbol = t.arb.address
  BY <1>3, <1>4, OutcomeFacts
<1>6. /\ outcome \in Idle => outcome \notin Done
      /\ outcome \in Done => outcome \in Won \/ outcome \in Lost \/ outcome = "error"
      /\ outcome \in Won => outcome \notin Lost /\ outcome # "error"
      /\ outcome \in Lost => outcome # "error"
      /\ Won \subseteq Done
      /\ Lost \subseteq Done
      /\ "error" \in Done
      /\ "arbitrating" \notin Idle \cup Done
      /\ "none" \notin Done
  BY DEF Idle, Done, Won, Lost
<1>7. /\ arb.arbitrating = (outcome = "arbitrating")
      /\ arb.address = t.arb.address
  BY DEF ArbAfter
<1>8. outcome \in Won => bus.master = t.arb.address
  <2>1. symbol = SYN => bus.state \notin AddressSeen
    BY <1>3, BusDataFacts, StateSets
  <2>2. QED
    BY <1>3, <1>5, <2>1, BusDataFacts
<1>9. bus.master \in Symbols /\ 0 \in Symbols
  BY <1>4 DEF Buses, Symbols
<1> HIDE DEF bus, outcome, arb, starts
<1>10. starts => /\ s \in [client : Fds, address : Addresses]
                 /\ ArbStart(arb, s.address) \in Arbs
                 /\ ArbStart(arb, s.address).address = s.address
                 /\ outcome \in Idle
  <2>1. starts => s \in [client : Fds, address : Addresses] /\ outcome \in Idle
    BY <1>3 DEF starts
  <2>2. s \in [client : Fds, address : Addresses] => s.address \in Symbols
    BY BridgeAssumption
  <2>3. s.address \in Symbols =>
          /\ ArbStart(arb, s.address) \in Arbs
          /\ ArbStart(arb, s.address).address = s.address
    BY <1>4 DEF ArbStart, Arbs
  <2>4. QED
    BY <2>1, <2>2, <2>3
<1>11. /\ r.adapter.arb = IF starts THEN ArbStart(arb, s.address) ELSE arb
       /\ r.adapter.fd = IF outcome \in Done THEN NoFd ELSE fd
  BY <1>2
<1>12. r.adapter \in Adapters
  BY <1>2, <1>3, <1>4, <1>10 DEF Adapters
<1>13. hidden \in Fds \cup {NoFd} /\ fd \in Fds \cup {NoFd}
  BY <1>3
<1>14. /\ Data(FALSE, "received", symbol, hidden) \in Entries
       /\ ~Data(FALSE, "received", symbol, hidden).enhanced
  BY <1>13 DEF Data, Entries
<1>15. CASE outcome \notin Done
  <2>1. answer = <<>>
    BY <1>6, <1>15
  <2>2. r.pushed = <<Data(FALSE, "received", symbol, hidden)>>
    BY <1>1, <2>1, AppendToShort
  <2>3. r.slot = s
    BY <1>2, <1>15
  <2>4. ASSUME r.adapter.arb.arbitrating
        PROVE  \/ /\ t.arb.arbitrating
                  /\ r.adapter.fd = t.fd
                  /\ r.adapter.arb.address = t.arb.address
               \/ /\ s \in [client : Fds, address : Addresses]
                  /\ r.adapter.fd = s.client
                  /\ r.adapter.arb.address = s.address
    <3>1. CASE starts
      BY <1>10, <1>11, <1>15, <3>1
    <3>2. CASE ~starts
      BY <1>5, <1>6, <1>7, <1>11, <1>15, <2>4, <3>2
    <3>3. QED
      BY <3>1, <3>2
  <2>5. QED
    BY <1>12, <1>14, <2>2, <2>3, <2>4
<1>16. CASE outcome \in Done
  <2>1. r.slot = EmptySlot /\ t.arb.arbitrating /\ fd = t.fd
    BY <1>2, <1>5, <1>6, <1>16
  <2>2. ~r.adapter.arb.arbitrating
    BY <1>6, <1>7, <1>10, <1>11, <1>16
  <2>3. PICK c \in {"started", "failed", "error_ebus"}, d \in Symbols :
          /\ answer = <<Data(TRUE, c, d, fd)>>
          /\ c = "started" => d = t.arb.address
    BY <1>6, <1>8, <1>9, <1>16
  <2>4. /\ Data(TRUE, c, d, fd) \in Entries
        /\ Data(TRUE, c, d, fd).enhanced
        /\ Data(TRUE, c, d, fd).fd = t.fd
        /\ Data(TRUE, c, d, fd).c = "started" =>
             Data(TRUE, c, d, fd).d = t.arb.address
    BY <1>13, <2>1, <2>3 DEF Data, Entries
  <2>5. r.pushed = <<Data(TRUE, c, d, fd), Data(FALSE, "received", symbol, hidden)>>
    BY <1>1, <2>3, AppendToShort
  <2> HIDE DEF fd, hidden
  <2>6. QED
    BY <1>12, <1>14, <2>1, <2>2, <2>4, <2>5
<1>17. QED
  BY <1>15, <1>16

---------------------------------------------------------------------------
(* The answers in the queue of a bridge whose clients are patient.         *)

(* AnswersAreAsked and AnswersAreOwed of a queue q, a slot s, the requests *)
(* ask and the connected clients C.                                        *)
Owed(q, s, ask, C) ==
  \A k \in 1..Len(q) : q[k].enhanced =>
    /\ q[k].fd \in C
    /\ q[k].fd # s.client
    /\ ask[q[k].fd] # NotAsked
    /\ q[k].c = "started" => q[k].d = ask[q[k].fd]
    /\ \A l \in 1..Len(q) : q[l].enhanced /\ q[l].fd = q[k].fd => l = k

Patient == mode = "patient" => SlotIsAsked /\ Owed(queue, slot, asked, ClientFds)

LEMMA IInvParts ==
  /\ IInv <=> TypeOK /\ ArbitrationServesSlot /\ Patient
  /\ IInv' <=> TypeOK' /\ ArbitrationServesSlot' /\ Patient'
BY DEF IInv, Patient, Owed, PatientAnswers, AnswersAreAsked, AnswersAreOwed

(* A symbol does not matter.                                               *)
LEMMA OwedSymbol ==
  ASSUME NEW q \in Seq(Entries), NEW x \in Entries, ~x.enhanced,
         NEW s, NEW ask, NEW C, Owed(q, s, ask, C)
  PROVE  Owed(Append(q, x), s, ask, C)
<1>1. /\ Len(Append(q, x)) = Len(q) + 1
      /\ \A k \in 1..Len(q) : Append(q, x)[k] = q[k]
      /\ Append(q, x)[Len(q) + 1] = x
      /\ Len(q) \in Nat
  BY AppendProperties
<1>2. \A k \in 1..Len(Append(q, x)) : Append(q, x)[k].enhanced =>
        k \in 1..Len(q) /\ Append(q, x)[k] = q[k]
  BY <1>1
<1>3. QED
  BY <1>1, <1>2 DEF Owed

(* An answer to the owner of the slot may follow when the slot is freed.   *)
LEMMA OwedAnswer ==
  ASSUME NEW q \in Seq(Entries), NEW e \in Entries, e.enhanced,
         NEW s, NEW ask, NEW C, NoFd \notin C, Owed(q, s, ask, C),
         e.fd = s.client, e.fd \in C, ask[e.fd] # NotAsked,
         e.c = "started" => e.d = ask[e.fd]
  PROVE  Owed(Append(q, e), EmptySlot, ask, C)
<1>1. /\ Len(Append(q, e)) = Len(q) + 1
      /\ \A k \in 1..Len(q) : Append(q, e)[k] = q[k]
      /\ Append(q, e)[Len(q) + 1] = e
      /\ Len(q) \in Nat
  BY AppendProperties
<1>2. EmptySlot.client = NoFd
  BY DEF EmptySlot
<1>3. ASSUME NEW k \in 1..Len(Append(q, e)), Append(q, e)[k].enhanced
      PROVE  /\ Append(q, e)[k].fd \in C
             /\ Append(q, e)[k].fd # EmptySlot.client
             /\ ask[Append(q, e)[k].fd] # NotAsked
             /\ Append(q, e)[k].c = "started" =>
                  Append(q, e)[k].d = ask[Append(q, e)[k].fd]
  <2>1. CASE k \in 1..Len(q)
    BY <1>1, <1>2, <1>3, <2>1 DEF Owed
  <2>2. CASE k = Len(q) + 1
    BY <1>1, <1>2, <2>2
  <2>3. QED
    BY <1>1, <2>1, <2>2
<1>4. ASSUME NEW k \in 1..Len(Append(q, e)), Append(q, e)[k].enhanced,
             NEW l \in 1..Len(Append(q, e)), Append(q, e)[l].enhanced,
             Append(q, e)[l].fd = Append(q, e)[k].fd
      PROVE  l = k
  <2>1. CASE k \in 1..Len(q) /\ l \in 1..Len(q)
    BY <1>1, <1>4, <2>1 DEF Owed
  <2>2. CASE k = Len(q) + 1 /\ l \in 1..Len(q)
    BY <1>1, <1>4, <2>2 DEF Owed
  <2>3. CASE k \in 1..Len(q) /\ l = Len(q) + 1
    BY <1>1, <1>4, <2>3 DEF Owed
  <2>4. QED
    BY <1>1, <2>1, <2>2, <2>3
<1>5. QED
  BY <1>3, <1>4 DEF Owed

(* The head has gone out: the others are owed if its client's request is   *)
(* forgotten.                                                              *)
LEMMA OwedTail ==
  ASSUME NEW q \in Seq(Entries), q # <<>>,
         NEW s, NEW ask, NEW ask2, NEW C, Owed(q, s, ask, C),
         \A f \in C : (q[1].enhanced /\ f = q[1].fd) \/ ask2[f] = ask[f]
  PROVE  Owed(Tail(q), s, ask2, C)
<1>1. /\ Tail(q) \in Seq(Entries)
      /\ Len(Tail(q)) = Len(q) - 1
      /\ \A k \in 1..Len(Tail(q)) : k + 1 \in 1..Len(q) /\ Tail(q)[k] = q[k + 1]
      /\ Len(q) \in Nat
      /\ Len(q) # 0
      /\ 1 \in 1..Len(q)
  BY TailFacts
<1>2. ASSUME NEW k \in 1..Len(Tail(q)), Tail(q)[k].enhanced
      PROVE  /\ Tail(q)[k].fd \in C
             /\ Tail(q)[k].fd # s.client
             /\ ask2[Tail(q)[k].fd] # NotAsked
             /\ Tail(q)[k].c = "started" =>
                  Tail(q)[k].d = ask2[Tail(q)[k].fd]
             /\ \A l \in 1..Len(Tail(q)) :
                  Tail(q)[l].enhanced /\ Tail(q)[l].fd = Tail(q)[k].fd => l = k
  <2>1. k + 1 \in 1..Len(q) /\ Tail(q)[k] = q[k + 1] /\ q[k + 1].enhanced
    BY <1>1, <1>2
  <2>2. q[k + 1].fd \in C /\ ~(q[1].enhanced /\ q[k + 1].fd = q[1].fd)
    BY <1>1, <2>1 DEF Owed
  <2>3. ask2[q[k + 1].fd] = ask[q[k + 1].fd]
    BY <2>2
  <2>4. \A l \in 1..Len(Tail(q)) :
          Tail(q)[l].enhanced /\ Tail(q)[l].fd = Tail(q)[k].fd => l + 1 = k + 1
    BY <1>1, <2>1 DEF Owed
  <2>5. QED
    BY <2>1, <2>3, <2>4 DEF Owed
<1>3. QED
  BY <1>2 DEF Owed

---------------------------------------------------------------------------
(* The invariant.                                                          *)

LEMMA FdFacts ==
  /\ NoFd \notin Fds
  /\ NoFd < 0
  /\ \A f \in Fds : ~(f < 0)
  /\ NotAsked \notin Addresses
  /\ TypeOK => ClientFds \subseteq Fds
BY BridgeAssumption DEF NoFd, NotAsked, Symbols, ClientFds, TypeOK

LEMMA InitInvariant == Init => IInv
<1> SUFFICES ASSUME Init PROVE IInv
  OBVIOUS
<1>1. BusInit \in Buses
  BY DEF BusInit, Buses, BusStates, Symbols
<1>2. ArbInit \in Arbs /\ ArbInit.arbitrating = FALSE
  BY DEF ArbInit, Arbs, Symbols
<1>3. adapter \in Adapters /\ adapter.arb = ArbInit
  BY <1>1, <1>2 DEF Init, BusTypeInit, Adapters
<1>4. queue = <<>> /\ queue \in Seq(Entries) /\ Len(queue) = 0
  BY DEF Init
<1>5. TypeOK
  BY <1>3, <1>4, BridgeAssumption DEF Init, TypeOK, Slots
<1>6. ArbitrationServesSlot
  BY <1>2, <1>3 DEF ArbitrationServesSlot
<1>7. Patient
  BY <1>4 DEF Init, Patient, SlotIsAsked, Owed, EmptySlot
<1>8. QED
  BY <1>5, <1>6, <1>7, IInvParts

(* The steps that leave the queue and the slot alone, or only fill a free  *)
(* slot, keep what the queue owes.                                         *)
LEMMA AcceptInvariant ==
  ASSUME IInv, NEW f \in Fds, Accept(f)
  PROVE  IInv'
<1>1. PICK i \in Places : i \in FreePlaces /\ clients' = [clients EXCEPT ![i] = f]
  BY DEF Accept, FreePlaces
<1>2. TypeOK
  BY DEF IInv
<1>3. /\ open' = open \cup {f}
      /\ asked' = [asked EXCEPT ![f] = NotAsked]
      /\ f \notin {clients[j] : j \in Places}
      /\ UNCHANGED <<adapter, slot, queue, popped, mode>>
  BY DEF Accept
<1>4. TypeOK'
  BY <1>1, <1>2, <1>3 DEF TypeOK
<1>5. ArbitrationServesSlot'
  BY <1>3 DEF IInv, ArbitrationServesSlot
<1>6. ClientFds \subseteq ClientFds' /\ f \notin ClientFds
  <2>1. \A j \in Places : clients[j] \in open => j # i
    BY <1>1 DEF FreePlaces, Connected
  <2>2. \A j \in Places : j # i => clients'[j] = clients[j]
    BY <1>1, <1>2 DEF TypeOK
  <2>3. QED
    BY <1>3, <2>1, <2>2 DEF ClientFds
<1>7. \A g \in ClientFds : asked'[g] = asked[g]
  BY <1>2, <1>3, <1>6, FdFacts DEF TypeOK
<1>8. Patient'
  <2>1. SUFFICES ASSUME mode' = "patient"
                 PROVE  SlotIsAsked' /\ Owed(queue, slot, asked', ClientFds')
    BY <1>3 DEF Patient
  <2>2. SlotIsAsked /\ Owed(queue, slot, asked, ClientFds)
    BY <1>3, <2>1, IInvParts DEF Patient
  <2>3. SlotIsAsked'
    BY <1>3, <1>6, <1>7, <2>2 DEF SlotIsAsked
  <2>4. Owed(queue, slot, asked', ClientFds')
    BY <1>6, <1>7, <2>2 DEF Owed
  <2>5. QED
    BY <2>3, <2>4
<1>9. QED
  BY <1>4, <1>5, <1>8, IInvParts

(* Clients that are not patient.                                           *)
LEMMA ImpatientInvariant ==
  ASSUME IInv, mode # "patient", mode' = mode, TypeOK', ArbitrationServesSlot'
  PROVE  IInv'
BY DEF IInv, PatientAnswers

LEMMA HangupInvariant ==
  ASSUME IInv, NEW f \in Fds, Hangup(f)
  PROVE  IInv'
<1>1. TypeOK'
  BY DEF IInv, TypeOK, Hangup
<1>2. ArbitrationServesSlot'
  BY DEF IInv, ArbitrationServesSlot, Hangup
<1>3. QED
  BY <1>1, <1>2, ImpatientInvariant DEF Hangup

LEMMA MalformedInvariant ==
  ASSUME IInv, NEW i \in Places, Malformed(i)
  PROVE  IInv'
<1>1. TypeOK'
  BY DEF IInv, TypeOK, Malformed
<1>2. ArbitrationServesSlot'
  BY DEF IInv, ArbitrationServesSlot, Malformed
<1>3. QED
  BY <1>1, <1>2, ImpatientInvariant DEF Malformed

LEMMA CancelInvariant ==
  ASSUME IInv, NEW i \in Places, Cancel(i)
  PROVE  IInv'
<1>1. TypeOK'
  BY DEF IInv, TypeOK, Cancel, Slots
<1>2. ArbitrationServesSlot'
  BY DEF ArbitrationServesSlot, Cancel
<1>3. QED
  BY <1>1, <1>2, ImpatientInvariant DEF Cancel

(* A START takes a free slot or leaves an owned one; an arbitration that   *)
(* runs owns it.                                                           *)
LEMMA StartInvariant ==
  ASSUME IInv, NEW i \in Places, NEW address \in Addresses, Start(i, address)
  PROVE  IInv'
<1> DEFINE f == clients[i]
<1>1. TypeOK /\ ArbitrationServesSlot /\ Patient
  BY IInvParts
<1>2. /\ f \in ClientFds
      /\ f \in Fds
      /\ mode = "patient" => asked[f] = NotAsked
      /\ slot' = SlotTake(slot, f, address)
      /\ asked' = [asked EXCEPT ![f] = IF slot'.client = f THEN address ELSE NotAsked]
      /\ UNCHANGED <<adapter, queue, popped, clients, open, mode>>
  BY <1>1, FdFacts DEF Start, Connected, ClientFds
<1>3. \/ slot.client = NoFd /\ slot' = [client |-> f, address |-> address]
      \/ slot.client \in Fds /\ slot' = slot
  <2>1. slot.client = NoFd \/ slot.client \in Fds
    BY <1>1 DEF TypeOK, Slots, EmptySlot
  <2>2. QED
    BY <1>2, <2>1, FdFacts DEF SlotTake
<1>4. TypeOK'
  <2>1. slot' \in Slots
    BY <1>1, <1>2, <1>3 DEF TypeOK, Slots
  <2>2. asked' \in [Fds -> Addresses \cup {NotAsked}]
    BY <1>1, <1>2 DEF TypeOK
  <2>3. QED
    BY <1>1, <1>2, <2>1, <2>2 DEF TypeOK
<1>5. ArbitrationServesSlot'
  <2>1. SUFFICES ASSUME mode # "cancel", adapter.arb.arbitrating
                 PROVE  slot' = [client |-> adapter.fd, address |-> adapter.arb.address]
    BY <1>2 DEF ArbitrationServesSlot
  <2>2. slot = [client |-> adapter.fd, address |-> adapter.arb.address]
    BY <1>1, <2>1 DEF ArbitrationServesSlot
  <2>3. adapter.arb.address \in Symbols
    BY <1>1 DEF TypeOK, Adapters, Arbs
  <2>4. slot # EmptySlot
    BY <2>2, <2>3 DEF EmptySlot, Symbols
  <2>5. slot.client \in Fds
    BY <1>1, <2>4 DEF TypeOK, Slots
  <2>6. QED
    BY <1>3, <2>2, <2>5, FdFacts
<1>6. Patient'
  <2>1. SUFFICES ASSUME mode = "patient"
                 PROVE  SlotIsAsked' /\ Owed(queue, slot', asked', ClientFds)
    BY <1>2 DEF Patient, ClientFds
  <2>2. SlotIsAsked /\ Owed(queue, slot, asked, ClientFds)
    BY <1>1, <2>1 DEF Patient
  <2>3. CASE slot.client = NoFd /\ slot' = [client |-> f, address |-> address]
    <3>1. asked' = [asked EXCEPT ![f] = address]
      BY <1>2, <2>3
    <3>2. asked'[f] = address /\ \A g \in ClientFds : g # f => asked'[g] = asked[g]
      BY <1>1, <1>2, <3>1, FdFacts DEF TypeOK
    <3>3. SlotIsAsked'
      BY <1>2, <2>3, <3>2 DEF SlotIsAsked, ClientFds
    <3>4. \A k \in 1..Len(queue) : queue[k].enhanced => queue[k].fd \in ClientFds \ {f}
      BY <1>2, <2>1, <2>2 DEF Owed
    <3>5. Owed(queue, slot', asked', ClientFds)
      BY <2>2, <2>3, <3>2, <3>4 DEF Owed
    <3>6. QED
      BY <3>3, <3>5
  <2>4. CASE slot.client \in Fds /\ slot' = slot
    <3>1. slot.client # f
      <4>1. asked[slot.client] = slot.address /\ slot.address \in Addresses
        BY <1>1, <2>2, <2>4, FdFacts DEF SlotIsAsked, TypeOK, Slots, EmptySlot
      <4>2. QED
        BY <1>2, <2>1, <4>1, FdFacts
    <3>2. asked' = asked
      BY <1>1, <1>2, <2>1, <2>4, <3>1 DEF TypeOK
    <3>3. SlotIsAsked'
      BY <1>2, <2>2, <2>4, <3>2 DEF SlotIsAsked, ClientFds
    <3>4. QED
      BY <2>2, <2>4, <3>2, <3>3
  <2>5. QED
    BY <1>3, <2>3, <2>4
<1>7. QED
  BY <1>4, <1>5, <1>6, IInvParts

LEMMA PopInvariant ==
  ASSUME IInv, Pop
  PROVE  IInv'
<1>1. TypeOK' /\ ArbitrationServesSlot'
  BY DEF IInv, Pop, TypeOK, ArbitrationServesSlot
<1>2. Patient'
  BY IInvParts DEF Pop, Patient, SlotIsAsked, ClientFds
<1>3. QED
  BY <1>1, <1>2, IInvParts

(* The popped entry goes out; if it is an answer, its client no longer     *)
(* waits, and it was the only one for that client.                         *)
LEMMA ForwardInvariant ==
  ASSUME IInv, Forward
  PROVE  IInv'
<1>1. TypeOK /\ ArbitrationServesSlot /\ Patient
  BY IInvParts
<1>2. /\ queue \in Seq(Entries) /\ queue # <<>>
      /\ queue' = Tail(queue)
      /\ popped' = FALSE
      /\ UNCHANGED <<adapter, slot, clients, open, mode>>
  BY <1>1 DEF Forward, TypeOK
<1>3. \A f \in Fds : asked'[f] =
        IF queue[1].enhanced /\ f \in ClientFds /\ f = queue[1].fd
        THEN NotAsked ELSE asked[f]
  BY <1>2, TailFacts DEF Forward, Receivers
<1>4. TypeOK'
  <2>1. asked' \in [Fds -> Addresses \cup {NotAsked}]
    BY <1>1 DEF Forward, TypeOK
  <2>2. queue' \in Seq(Entries)
    BY <1>2, TailFacts
  <2>3. QED
    BY <1>1, <1>2, <2>1, <2>2 DEF TypeOK
<1>5. ArbitrationServesSlot'
  BY <1>1, <1>2 DEF ArbitrationServesSlot
<1>6. Patient'
  <2>1. SUFFICES ASSUME mode = "patient"
                 PROVE  SlotIsAsked' /\ Owed(queue', slot, asked', ClientFds)
    BY <1>2 DEF Patient, ClientFds
  <2>2. SlotIsAsked /\ Owed(queue, slot, asked, ClientFds)
    BY <1>1, <2>1 DEF Patient
  <2>3. ClientFds \subseteq Fds
    BY <1>1, FdFacts
  <2>4. \A f \in ClientFds : (queue[1].enhanced /\ f = queue[1].fd) \/ asked'[f] = asked[f]
    BY <1>3, <2>3
  <2>5. Owed(queue', slot, asked', ClientFds)
    BY <1>2, <2>2, <2>4, OwedTail
  <2>6. queue[1].enhanced => queue[1].fd # slot.client
    <3>1. 1 \in 1..Len(queue)
      BY <1>2, TailFacts
    <3>2. QED
      BY <2>2, <3>1 DEF Owed
  <2>7. SlotIsAsked'
    BY <1>2, <2>2, <2>4, <2>6 DEF SlotIsAsked, ClientFds
  <2>8. QED
    BY <2>5, <2>7
<1>7. QED
  BY <1>4, <1>5, <1>6, IInvParts

(* A symbol: an answer that joins the queue is for the owner of the slot,  *)
(* which it frees.                                                         *)
LEMMA TakeInvariant ==
  ASSUME IInv, NEW symbol \in Line, NEW behind \in BOOLEAN, Take(symbol, behind)
  PROVE  IInv'
<1> DEFINE r == Receive(adapter, slot, symbol, behind)
<1> HIDE DEF r
<1>1. TypeOK /\ ArbitrationServesSlot /\ Patient
  BY IInvParts
<1>2. /\ adapter' = r.adapter
      /\ slot' = r.slot
      /\ queue' = queue \o r.pushed
      /\ popped' = TRUE
      /\ UNCHANGED <<clients, open, asked, mode>>
  BY DEF Take, r
<1>3. /\ adapter \in Adapters /\ slot \in Slots /\ queue \in Seq(Entries)
      /\ symbol \in Symbols
  BY <1>1, BridgeAssumption DEF TypeOK
<1>4. /\ r.adapter \in Adapters
      /\ \/ /\ r.slot = slot
            /\ \E x \in Entries : ~x.enhanced /\ r.pushed = <<x>>
         \/ /\ r.slot = EmptySlot
            /\ adapter.arb.arbitrating
            /\ ~r.adapter.arb.arbitrating
            /\ \E e, x \in Entries :
                 /\ e.enhanced /\ ~x.enhanced /\ r.pushed = <<e, x>>
                 /\ e.fd = adapter.fd
                 /\ e.c = "started" => e.d = adapter.arb.address
      /\ r.adapter.arb.arbitrating =>
           /\ r.slot = slot
           /\ \/ /\ adapter.arb.arbitrating
                 /\ r.adapter.fd = adapter.fd
                 /\ r.adapter.arb.address = adapter.arb.address
              \/ /\ slot \in [client : Fds, address : Addresses]
                 /\ r.adapter.fd = slot.client
                 /\ r.adapter.arb.address = slot.address
  BY <1>3, ReceiveFacts DEF r
<1>5. ArbitrationServesSlot'
  BY <1>1, <1>2, <1>4 DEF ArbitrationServesSlot
<1>6. slot' \in Slots
  BY <1>2, <1>3, <1>4 DEF Slots
<1>7. CASE /\ r.slot = slot
           /\ \E x \in Entries : ~x.enhanced /\ r.pushed = <<x>>
  <2>1. PICK x \in Entries : ~x.enhanced /\ r.pushed = <<x>>
    BY <1>7
  <2>2. queue' = Append(queue, x)
    BY <1>2, <1>3, <2>1, ConcatShort
  <2>3. queue' \in Seq(Entries) /\ queue' # <<>>
    BY <1>3, <2>2, AppendProperties
  <2>4. TypeOK'
    BY <1>1, <1>2, <1>4, <1>6, <2>3 DEF TypeOK
  <2>5. Patient'
    <3>1. SUFFICES ASSUME mode = "patient"
                   PROVE  SlotIsAsked' /\ Owed(queue', slot, asked, ClientFds)
      BY <1>2, <1>7 DEF Patient, ClientFds
    <3>2. SlotIsAsked /\ Owed(queue, slot, asked, ClientFds)
      BY <1>1, <3>1 DEF Patient
    <3>3. Owed(queue', slot, asked, ClientFds)
      BY <1>3, <2>1, <2>2, <3>2, OwedSymbol
    <3>4. QED
      BY <1>2, <1>7, <3>2, <3>3 DEF SlotIsAsked, ClientFds
  <2>6. QED
    BY <1>5, <2>4, <2>5, IInvParts
<1>8. CASE /\ r.slot = EmptySlot
           /\ adapter.arb.arbitrating
           /\ ~r.adapter.arb.arbitrating
           /\ \E e, x \in Entries :
                /\ e.enhanced /\ ~x.enhanced /\ r.pushed = <<e, x>>
                /\ e.fd = adapter.fd
                /\ e.c = "started" => e.d = adapter.arb.address
  <2>1. PICK e \in Entries, x \in Entries :
               /\ e.enhanced /\ ~x.enhanced /\ r.pushed = <<e, x>>
               /\ e.fd = adapter.fd
               /\ e.c = "started" => e.d = adapter.arb.address
    BY <1>8
  <2>2. queue' = Append(Append(queue, e), x) /\ Append(queue, e) \in Seq(Entries)
    BY <1>2, <1>3, <2>1, ConcatShort, AppendProperties
  <2>3. queue' \in Seq(Entries) /\ queue' # <<>>
    BY <2>2, AppendProperties
  <2>4. TypeOK'
    BY <1>1, <1>2, <1>4, <1>6, <2>3 DEF TypeOK
  <2>5. Patient'
    <3>1. SUFFICES ASSUME mode = "patient"
                   PROVE  SlotIsAsked' /\ Owed(queue', EmptySlot, asked, ClientFds)
      BY <1>2, <1>8 DEF Patient, ClientFds
    <3>2. SlotIsAsked /\ Owed(queue, slot, asked, ClientFds)
      BY <1>1, <3>1 DEF Patient
    <3>3. slot = [client |-> adapter.fd, address |-> adapter.arb.address]
      BY <1>1, <1>8, <3>1 DEF ArbitrationServesSlot
    <3>4. slot \in [client : Fds, address : Addresses]
      <4>1. adapter.arb.address \in Symbols
        BY <1>3 DEF Adapters, Arbs
      <4>2. slot # EmptySlot
        BY <3>3, <4>1 DEF EmptySlot, Symbols
      <4>3. QED
        BY <1>3, <4>2 DEF Slots
    <3>5. slot.client = e.fd /\ slot.address = adapter.arb.address
      BY <2>1, <3>3
    <3>6. /\ e.fd \in ClientFds
          /\ asked[e.fd] = adapter.arb.address
          /\ asked[e.fd] # NotAsked
          /\ NoFd \notin ClientFds
      BY <1>1, <3>2, <3>4, <3>5, FdFacts DEF SlotIsAsked
    <3>7. Owed(Append(queue, e), EmptySlot, asked, ClientFds)
      BY <1>3, <2>1, <3>2, <3>5, <3>6, OwedAnswer
    <3>8. Owed(queue', EmptySlot, asked, ClientFds)
      BY <2>1, <2>2, <3>7, OwedSymbol
    <3>9. SlotIsAsked'
      BY <1>2, <1>8 DEF SlotIsAsked, EmptySlot
    <3>10. QED
      BY <3>8, <3>9
  <2>6. QED
    BY <1>5, <2>4, <2>5, IInvParts
<1>9. QED
  BY <1>4, <1>7, <1>8

(* IInv is an invariant of the bridge.                                     *)
THEOREM Invariance == Spec => []IInv
<1>1. Init => IInv
  BY InitInvariant
<1>2. ASSUME IInv, [Next]_vars
      PROVE  IInv'
  <2>1. CASE \E f \in Fds : Accept(f) \/ Hangup(f)
    BY <1>2, <2>1, AcceptInvariant, HangupInvariant
  <2>2. CASE \E i \in Places : \/ \E address \in Addresses : Start(i, address)
                              \/ Cancel(i)
                              \/ Malformed(i)
    BY <1>2, <2>2, StartInvariant, CancelInvariant, MalformedInvariant
  <2>3. CASE \E symbol \in Line, behind \in BOOLEAN : Take(symbol, behind)
    BY <1>2, <2>3, TakeInvariant
  <2>4. CASE Pop
    BY <1>2, <2>4, PopInvariant
  <2>5. CASE Forward
    BY <1>2, <2>5, ForwardInvariant
  <2>6. CASE UNCHANGED vars
    BY <1>2, <2>6 DEF vars, IInv, TypeOK, ArbitrationServesSlot, PatientAnswers,
                      AnswersAreAsked, SlotIsAsked, AnswersAreOwed, ClientFds
  <2>7. QED
    BY <1>2, <2>1, <2>2, <2>3, <2>4, <2>5, <2>6 DEF Next
<1>3. QED
  BY <1>1, <1>2, PTL DEF Spec

(* The arbitration that runs serves the request in the slot, unless a      *)
(* client withdraws: the arbitrationDone that ends it erases no other      *)
(* client's request.                                                       *)
THEOREM ArbitrationOwnsSlot == Spec => []ArbitrationServesSlot
<1>1. IInv => ArbitrationServesSlot
  BY DEF IInv
<1>2. QED
  BY <1>1, Invariance, PTL

(* With patient clients every answer reaches a client that waits for it,   *)
(* names the address it asked for, and is the only one.                    *)
THEOREM AnswersMatchRequests == Spec => []PatientAnswers
<1>1. IInv => PatientAnswers
  BY DEF IInv
<1>2. QED
  BY <1>1, Invariance, PTL

---------------------------------------------------------------------------
(* What takes the slot from an arbitration.                                *)

LEMMA TypeInvariance == Spec => []TypeOK
<1>1. IInv => TypeOK
  BY DEF IInv
<1>2. QED
  BY <1>1, Invariance, PTL

(* The slot of an arbitration that runs is taken.                          *)
LEMMA ServedSlotTaken ==
  ASSUME TypeOK, Served, adapter.arb.arbitrating
  PROVE  slot.client \in Fds
<1>1. slot = [client |-> adapter.fd, address |-> adapter.arb.address]
  BY DEF Served
<1>2. adapter.arb.address \in Symbols
  BY DEF TypeOK, Adapters, Arbs
<1>3. slot # EmptySlot
  BY <1>1, <1>2 DEF EmptySlot, Symbols
<1>4. QED
  BY <1>3 DEF TypeOK, Slots

(* The parts of ReceiveFacts as they concern the bridge.                   *)
LEMMA TakeFacts ==
  ASSUME TypeOK, NEW symbol \in Line, NEW behind \in BOOLEAN, Take(symbol, behind)
  PROVE  /\ \/ /\ slot' = slot
               /\ \E x \in Entries : ~x.enhanced /\ queue' = Append(queue, x)
            \/ /\ slot' = EmptySlot
               /\ adapter.arb.arbitrating
               /\ ~adapter'.arb.arbitrating
               /\ \E e, x \in Entries :
                    /\ e.enhanced /\ ~x.enhanced
                    /\ queue' = Append(Append(queue, e), x)
                    /\ e.fd = adapter.fd
                    /\ e.c = "started" => e.d = adapter.arb.address
         /\ adapter'.arb.arbitrating =>
              /\ slot' = slot
              /\ \/ /\ adapter.arb.arbitrating
                    /\ adapter'.fd = adapter.fd
                    /\ adapter'.arb.address = adapter.arb.address
                 \/ /\ slot \in [client : Fds, address : Addresses]
                    /\ adapter'.fd = slot.client
                    /\ adapter'.arb.address = slot.address
         /\ UNCHANGED <<clients, open, asked, mode>>
<1> DEFINE r == Receive(adapter, slot, symbol, behind)
<1> HIDE DEF r
<1>1. /\ adapter' = r.adapter
      /\ slot' = r.slot
      /\ queue' = queue \o r.pushed
      /\ UNCHANGED <<clients, open, asked, mode>>
  BY DEF Take, r
<1>2. /\ adapter \in Adapters /\ slot \in Slots /\ queue \in Seq(Entries)
      /\ symbol \in Symbols
  BY BridgeAssumption DEF TypeOK
<1>3. /\ \/ /\ r.slot = slot
            /\ \E x \in Entries : ~x.enhanced /\ r.pushed = <<x>>
         \/ /\ r.slot = EmptySlot
            /\ adapter.arb.arbitrating
            /\ ~r.adapter.arb.arbitrating
            /\ \E e, x \in Entries :
                 /\ e.enhanced /\ ~x.enhanced /\ r.pushed = <<e, x>>
                 /\ e.fd = adapter.fd
                 /\ e.c = "started" => e.d = adapter.arb.address
      /\ r.adapter.arb.arbitrating =>
           /\ r.slot = slot
           /\ \/ /\ adapter.arb.arbitrating
                 /\ r.adapter.fd = adapter.fd
                 /\ r.adapter.arb.address = adapter.arb.address
              \/ /\ slot \in [client : Fds, address : Addresses]
                 /\ r.adapter.fd = slot.client
                 /\ r.adapter.arb.address = slot.address
  BY <1>2, ReceiveFacts DEF r
<1>4. \A x, y \in Entries : /\ queue \o <<x>> = Append(queue, x)
                            /\ queue \o <<x, y>> = Append(Append(queue, x), y)
  BY <1>2, ConcatShort
<1>5. CASE /\ r.slot = slot
           /\ \E x \in Entries : ~x.enhanced /\ r.pushed = <<x>>
  BY <1>1, <1>3, <1>4, <1>5
<1>6. CASE /\ r.slot = EmptySlot
           /\ adapter.arb.arbitrating
           /\ ~r.adapter.arb.arbitrating
           /\ \E e, x \in Entries :
                /\ e.enhanced /\ ~x.enhanced /\ r.pushed = <<e, x>>
                /\ e.fd = adapter.fd
                /\ e.c = "started" => e.d = adapter.arb.address
  BY <1>1, <1>3, <1>4, <1>6
<1>7. QED
  BY <1>3, <1>5, <1>6

(* What START does to the slot and to the requests.                        *)
LEMMA StartFacts ==
  ASSUME TypeOK, NEW i \in Places, NEW address \in Addresses, Start(i, address)
  PROVE  /\ clients[i] \in ClientFds
         /\ clients[i] \in Fds
         /\ \/ /\ slot.client = NoFd
               /\ slot' = [client |-> clients[i], address |-> address]
            \/ /\ slot.client \in Fds
               /\ slot' = slot
         /\ asked' = [asked EXCEPT ![clients[i]] =
                        IF slot'.client = clients[i] THEN address ELSE NotAsked]
         /\ UNCHANGED <<adapter, queue, clients, open, mode>>
<1>1. /\ clients[i] \in ClientFds
      /\ clients[i] \in Fds
      /\ slot' = SlotTake(slot, clients[i], address)
      /\ asked' = [asked EXCEPT ![clients[i]] =
                     IF slot'.client = clients[i] THEN address ELSE NotAsked]
      /\ UNCHANGED <<adapter, queue, clients, open, mode>>
  BY FdFacts DEF Start, Connected, ClientFds
<1>2. slot.client = NoFd \/ slot.client \in Fds
  BY DEF TypeOK, Slots, EmptySlot
<1>3. QED
  BY <1>1, <1>2, FdFacts DEF SlotTake

(* Only a client that withdraws takes the slot from an arbitration.        *)
LEMMA StepServed ==
  ASSUME TypeOK, [Next]_vars, Served, ~Overtaken
  PROVE  Served'
<1>1. ASSUME NEW i \in Places, NEW address \in Addresses, Start(i, address)
      PROVE  Served'
  BY <1>1, StartFacts, ServedSlotTaken, FdFacts DEF Served
<1>2. ASSUME NEW i \in Places, Cancel(i)
      PROVE  Served'
  BY <1>2 DEF Overtaken, Cancel, Served
<1>3. ASSUME NEW symbol \in Line, NEW behind \in BOOLEAN, Take(symbol, behind)
      PROVE  Served'
  BY <1>3, TakeFacts DEF Served
<1>4. CASE UNCHANGED <<adapter, slot>>
  BY <1>4 DEF Served
<1>5. QED
  BY <1>1, <1>2, <1>3, <1>4
     DEF Next, vars, Accept, Hangup, Malformed, Pop, Forward

(* Nothing but a withdrawal takes the slot from an arbitration that runs,  *)
(* however the clients come, ask, and go.                                  *)
THEOREM SlotIsKept == Spec => OnlyWithdrawalUnseats
<1>1. TypeOK /\ [Next]_vars => [Served /\ ~Overtaken => Served']_vars
  BY StepServed
<1>2. QED
  BY <1>1, TypeInvariance, PTL DEF Spec, OnlyWithdrawalUnseats

(* As long as no client withdraws in the middle of an arbitration, the one *)
(* that runs is that of the slot: the promise that Bridge_cancel refutes   *)
(* has no other exception.                                                 *)
THEOREM WithoutOvertakingOne ==
  Spec /\ [][~Overtaken]_vars => []OnlyOneClientInArbitration
<1>1. Init => Served
  BY DEF Init, BusTypeInit, ArbInit, Served
<1>2. TypeOK /\ [Next]_vars /\ [~Overtaken]_vars /\ Served => Served'
  BY StepServed DEF Served, vars
<1>3. Served => OnlyOneClientInArbitration
  BY DEF Served, OnlyOneClientInArbitration
<1>4. QED
  BY <1>1, <1>2, <1>3, TypeInvariance, PTL DEF Spec

---------------------------------------------------------------------------
(* What brings a client an answer it does not wait for.                    *)

(* The answers for f in a queue q.                                         *)
IsFor(q, f, k) == k \in 1..Len(q) /\ q[k].enhanced /\ q[k].fd = f

(* They are no more than one, and the one fits the request for n.          *)
Fits(q, f, n) ==
  \A k : IsFor(q, f, k) =>
    /\ n # NotAsked
    /\ q[k].c = "started" => q[k].d = n
    /\ \A l : IsFor(q, f, l) => l = k

None(q, f) == \A k : ~IsFor(q, f, k)

LEMMA DueParts ==
  ASSUME NEW f
  PROVE  /\ DueTo(f) <=> /\ slot.client = f => asked[f] = slot.address
                         /\ Serving(f) => asked[f] = adapter.arb.address
                         /\ None(queue, f) \/ (slot.client # f /\ ~Serving(f))
                         /\ Fits(queue, f, asked[f])
         /\ DueTo(f)' <=> /\ slot'.client = f => asked'[f] = slot'.address
                          /\ Serving(f)' => asked'[f] = adapter'.arb.address
                          /\ None(queue', f) \/ (slot'.client # f /\ ~Serving(f)')
                          /\ Fits(queue', f, asked'[f])
         /\ Answered(f) <=> ~None(queue, f)
BY DEF DueTo, Answered, Fits, None, IsFor

LEMMA NoneFits ==
  ASSUME NEW q, NEW f, NEW n, None(q, f)
  PROVE  Fits(q, f, n)
BY DEF Fits, None

(* An entry that is no answer for f changes nothing for f.                 *)
LEMMA AppendOther ==
  ASSUME NEW q \in Seq(Entries), NEW x \in Entries, NEW f, NEW n,
         ~(x.enhanced /\ x.fd = f)
  PROVE  /\ None(q, f) => None(Append(q, x), f)
         /\ Fits(q, f, n) => Fits(Append(q, x), f, n)
<1>1. /\ Len(Append(q, x)) = Len(q) + 1
      /\ \A k \in 1..Len(q) : Append(q, x)[k] = q[k]
      /\ Append(q, x)[Len(q) + 1] = x
      /\ Len(q) \in Nat
  BY AppendProperties
<1>2. ASSUME NEW k, IsFor(Append(q, x), f, k)
      PROVE  IsFor(q, f, k) /\ Append(q, x)[k] = q[k]
  BY <1>1, <1>2 DEF IsFor
<1>3. QED
  BY <1>2 DEF None, Fits

(* The first answer for f.                                                 *)
LEMMA AppendFirst ==
  ASSUME NEW q \in Seq(Entries), NEW e \in Entries, NEW f, NEW n,
         None(q, f), n # NotAsked, e.c = "started" => e.d = n
  PROVE  Fits(Append(q, e), f, n)
<1>1. /\ Len(Append(q, e)) = Len(q) + 1
      /\ \A k \in 1..Len(q) : Append(q, e)[k] = q[k]
      /\ Append(q, e)[Len(q) + 1] = e
      /\ Len(q) \in Nat
  BY AppendProperties
<1>2. ASSUME NEW k, IsFor(Append(q, e), f, k)
      PROVE  k = Len(q) + 1
  <2>1. ~IsFor(q, f, k)
    BY DEF None
  <2>2. QED
    BY <1>1, <1>2, <2>1 DEF IsFor
<1>3. QED
  BY <1>1, <1>2 DEF Fits

(* After the head has gone out.                                            *)
LEMMA TailOther ==
  ASSUME NEW q \in Seq(Entries), q # <<>>, NEW f, NEW n
  PROVE  /\ None(q, f) => None(Tail(q), f)
         /\ Fits(q, f, n) => Fits(Tail(q), f, n)
         /\ Fits(q, f, n) /\ q[1].enhanced /\ q[1].fd = f => None(Tail(q), f)
<1>1. /\ Len(Tail(q)) = Len(q) - 1
      /\ \A k \in 1..Len(Tail(q)) : k + 1 \in 1..Len(q) /\ Tail(q)[k] = q[k + 1]
      /\ Len(q) \in Nat
      /\ Len(q) # 0
      /\ 1 \in 1..Len(q)
  BY TailFacts
<1>2. ASSUME NEW k, IsFor(Tail(q), f, k)
      PROVE  /\ k \in Nat /\ k >= 1
             /\ IsFor(q, f, k + 1)
             /\ Tail(q)[k] = q[k + 1]
  BY <1>1, <1>2 DEF IsFor
<1>3. None(q, f) => None(Tail(q), f)
  BY <1>2 DEF None
<1>4. Fits(q, f, n) => Fits(Tail(q), f, n)
  <2>1. SUFFICES ASSUME Fits(q, f, n), NEW k, IsFor(Tail(q), f, k)
                 PROVE  /\ n # NotAsked
                        /\ Tail(q)[k].c = "started" => Tail(q)[k].d = n
                        /\ \A l : IsFor(Tail(q), f, l) => l = k
    BY DEF Fits
  <2>2. /\ n # NotAsked
        /\ q[k + 1].c = "started" => q[k + 1].d = n
        /\ \A l : IsFor(q, f, l) => l = k + 1
    BY <1>2, <2>1 DEF Fits
  <2>3. ASSUME NEW l, IsFor(Tail(q), f, l)
        PROVE  l = k
    <3>1. l + 1 = k + 1 /\ l \in Nat /\ k \in Nat
      BY <1>2, <2>1, <2>2, <2>3
    <3>2. QED
      BY <3>1
  <2>4. QED
    BY <1>2, <2>1, <2>2, <2>3
<1>5. Fits(q, f, n) /\ q[1].enhanced /\ q[1].fd = f => None(Tail(q), f)
  <2>1. SUFFICES ASSUME Fits(q, f, n), IsFor(q, f, 1), NEW k, IsFor(Tail(q), f, k)
                 PROVE  FALSE
    BY <1>1 DEF None, IsFor
  <2>2. k + 1 = 1 /\ k \in Nat /\ k >= 1
    BY <1>2, <2>1 DEF Fits
  <2>3. QED
    BY <2>2
<1>6. QED
  BY <1>3, <1>4, <1>5

(* Nothing happens to what concerns f.                                     *)
LEMMA DueKept ==
  ASSUME NEW f, DueTo(f), asked'[f] = asked[f], UNCHANGED <<adapter, slot, queue>>
  PROVE  DueTo(f)'
BY DEF DueTo, Answered, Serving

(* The new connection finds nothing of an old one, or the step is one of   *)
(* Estranged.                                                              *)
LEMMA AcceptDue ==
  ASSUME TypeOK, AnswersDue, ~Estranged, NEW g \in Fds, Accept(g)
  PROVE  AnswersDue'
<1>1. PICK i \in Places : i \in FreePlaces /\ clients' = [clients EXCEPT ![i] = g]
  BY DEF Accept, FreePlaces
<1>2. /\ open' = open \cup {g}
      /\ asked' = [asked EXCEPT ![g] = NotAsked]
      /\ UNCHANGED <<adapter, slot, queue>>
  BY DEF Accept
<1>3. ASSUME NEW f \in ClientFds', f # g
      PROVE  f \in ClientFds /\ f \in Fds
  <2>1. PICK j \in Places : clients'[j] = f
    BY DEF ClientFds
  <2>2. clients[j] = f /\ f \in open
    BY <1>1, <1>2, <1>3, <2>1 DEF TypeOK, ClientFds
  <2>3. QED
    BY <2>2 DEF TypeOK, ClientFds
<1>4. ASSUME NEW f \in ClientFds', f # g
      PROVE  DueTo(f)'
  <2>1. asked'[f] = asked[f]
    BY <1>2, <1>3, <1>4 DEF TypeOK
  <2>2. QED
    BY <1>2, <1>3, <1>4, <2>1, DueKept DEF AnswersDue
<1>5. DueTo(g)'
  <2>1. slot.client # g /\ ~Serving(g) /\ ~Answered(g)
    BY DEF Estranged, Inherits, UnderWay
  <2>2. None(queue, g)
    BY <2>1, DueParts
  <2>3. slot'.client # g /\ ~Serving(g)' /\ None(queue', g)
    BY <1>2, <2>1, <2>2 DEF Serving
  <2>4. QED
    BY <2>3, NoneFits, DueParts
<1>6. QED
  BY <1>4, <1>5 DEF AnswersDue

(* A client that goes away is owed nothing.                                *)
LEMMA GoneDue ==
  ASSUME TypeOK, AnswersDue, NEW g \in Fds, ClientFds' \subseteq ClientFds \ {g},
         asked' = [asked EXCEPT ![g] = NotAsked], UNCHANGED <<adapter, slot, queue>>
  PROVE  AnswersDue'
<1>1. ASSUME NEW f \in ClientFds'
      PROVE  DueTo(f)'
  <2>1. f \in ClientFds /\ f \in Fds /\ f # g
    BY FdFacts
  <2>2. asked'[f] = asked[f]
    BY <2>1 DEF TypeOK
  <2>3. QED
    BY <2>1, <2>2, DueKept DEF AnswersDue
<1>2. QED
  BY <1>1 DEF AnswersDue

(* A client that withdraws before its arbitration is on the bus has        *)
(* nothing left; the others lose no more than their place in the slot.     *)
LEMMA CancelDue ==
  ASSUME TypeOK, AnswersDue, ~Estranged, NEW i \in Places, Cancel(i)
  PROVE  AnswersDue'
<1>1. /\ clients[i] \in Fds
      /\ slot' = EmptySlot
      /\ asked' = [asked EXCEPT ![clients[i]] = NotAsked]
      /\ UNCHANGED <<adapter, queue, clients, open>>
  BY DEF Cancel, Connected, TypeOK
<1>2. ClientFds' = ClientFds /\ ClientFds \subseteq Fds
  BY <1>1, FdFacts DEF ClientFds
<1>3. \A f \in Fds : slot'.client # f
  BY <1>1, FdFacts DEF EmptySlot
<1>4. ASSUME NEW f \in ClientFds, f # clients[i]
      PROVE  DueTo(f)'
  <2>1. asked'[f] = asked[f] /\ DueTo(f)
    BY <1>1, <1>2, <1>4 DEF TypeOK, AnswersDue
  <2>2. Serving(f)' = Serving(f)
    BY <1>1 DEF Serving
  <2>3. QED
    BY <1>1, <1>2, <1>3, <2>1, <2>2, DueParts
<1>5. ASSUME NEW f \in ClientFds, f = clients[i]
      PROVE  DueTo(f)'
  <2>1. ~Serving(f) /\ ~Answered(f)
    BY <1>1, <1>5 DEF Estranged, WithdrawsLate
  <2>2. None(queue, f)
    BY <2>1, DueParts
  <2>3. ~Serving(f)' /\ None(queue', f) /\ slot'.client # f
    BY <1>1, <1>2, <1>3, <2>1, <2>2 DEF Serving
  <2>4. QED
    BY <2>3, NoneFits, DueParts
<1>6. QED
  BY <1>2, <1>4, <1>5 DEF AnswersDue

(* A client that asks has nothing under way, or it repeats the request     *)
(* that is under way, or the step is one of Estranged.                     *)
LEMMA StartDue ==
  ASSUME TypeOK, AnswersDue, ~Estranged, NEW i \in Places,
         NEW address \in Addresses, Start(i, address)
  PROVE  AnswersDue'
<1>0. PICK g : g = clients[i]
  OBVIOUS
<1>1. /\ g \in ClientFds
      /\ g \in Fds
      /\ \/ /\ slot.client = NoFd
            /\ slot' = [client |-> g, address |-> address]
         \/ /\ slot.client \in Fds
            /\ slot' = slot
      /\ asked' = [asked EXCEPT ![g] = IF slot'.client = g THEN address ELSE NotAsked]
      /\ UNCHANGED <<adapter, queue, clients, open>>
  BY <1>0, StartFacts
<1>2. ClientFds' = ClientFds /\ ClientFds \subseteq Fds
  BY <1>1, FdFacts DEF ClientFds
<1>3. ASSUME NEW f \in ClientFds, f # g
      PROVE  DueTo(f)'
  <2>1. asked'[f] = asked[f] /\ DueTo(f)
    BY <1>1, <1>2, <1>3 DEF TypeOK, AnswersDue
  <2>2. slot'.client = f => slot' = slot
    BY <1>1, <1>3
  <2>3. Serving(f)' = Serving(f)
    BY <1>1 DEF Serving
  <2>4. QED
    BY <1>1, <2>1, <2>2, <2>3, DueParts
<1>4. DueTo(g)'
  <2>1. CASE UnderWay(g)
    <3>1. asked'[g] = asked[g] /\ ~Answered(g)
      BY <1>0, <1>1, <2>1 DEF Estranged, AsksAgain
    <3>2. CASE slot' = slot
      <4>1. UNCHANGED <<adapter, slot, queue>>
        BY <1>1, <3>2
      <4>2. QED
        BY <1>1, <3>1, <4>1, DueKept DEF AnswersDue
    <3>3. CASE slot.client = NoFd
      <4>1. slot'.address = address /\ asked'[g] = address
        BY <1>1, <3>3, FdFacts DEF TypeOK
      <4>2. Serving(g) => asked[g] = adapter.arb.address
        BY <1>1, DueParts DEF AnswersDue
      <4>3. Serving(g)' = Serving(g) /\ adapter' = adapter
        BY <1>1 DEF Serving
      <4>4. None(queue', g)
        BY <1>1, <3>1, DueParts
      <4>5. QED
        BY <3>1, <4>1, <4>2, <4>3, <4>4, NoneFits, DueParts
    <3>4. QED
      BY <1>1, <3>2, <3>3
  <2>2. CASE ~UnderWay(g)
    <3>1. ~Serving(g)' /\ None(queue', g)
      BY <1>1, <2>2, DueParts DEF UnderWay, Serving
    <3>2. slot'.client = g => asked'[g] = slot'.address
      <4>1. slot.client # g
        BY <2>2 DEF UnderWay
      <4>2. slot'.client = g => slot'.address = address
        BY <1>1, <4>1
      <4>3. QED
        BY <1>1, <4>2 DEF TypeOK
    <3>3. QED
      BY <3>1, <3>2, NoneFits, DueParts
  <2>3. QED
    BY <2>1, <2>2
<1>5. QED
  BY <1>2, <1>3, <1>4 DEF AnswersDue

(* An answer that goes out is the only one of its client.                  *)
LEMMA ForwardDue ==
  ASSUME TypeOK, AnswersDue, Forward
  PROVE  AnswersDue'
<1>1. /\ queue \in Seq(Entries) /\ queue # <<>>
      /\ queue' = Tail(queue)
      /\ UNCHANGED <<adapter, slot, clients, open>>
  BY DEF Forward, TypeOK
<1>2. \A f \in Fds : asked'[f] =
        IF queue[1].enhanced /\ f \in ClientFds /\ f = queue[1].fd
        THEN NotAsked ELSE asked[f]
  BY <1>1, TailFacts DEF Forward, Receivers
<1>3. ClientFds' = ClientFds /\ ClientFds \subseteq Fds
  BY <1>1, FdFacts DEF ClientFds
<1>4. ASSUME NEW f \in ClientFds
      PROVE  DueTo(f)'
  <2>1. /\ slot.client = f => asked[f] = slot.address
        /\ Serving(f) => asked[f] = adapter.arb.address
        /\ None(queue, f) \/ (slot.client # f /\ ~Serving(f))
        /\ Fits(queue, f, asked[f])
    BY <1>4, DueParts DEF AnswersDue
  <2>2. Serving(f)' = Serving(f) /\ slot' = slot /\ adapter' = adapter
    BY <1>1 DEF Serving
  <2>3. CASE queue[1].enhanced /\ f = queue[1].fd
    <3>1. ~None(queue, f)
      BY <1>1, <2>3, TailFacts DEF None, IsFor
    <3>2. None(queue', f)
      BY <1>1, <2>1, <2>3, TailOther
    <3>3. QED
      BY <2>1, <2>2, <3>1, <3>2, NoneFits, DueParts
  <2>4. CASE ~(queue[1].enhanced /\ f = queue[1].fd)
    <3>1. asked'[f] = asked[f]
      BY <1>2, <1>3, <2>4
    <3>2. /\ None(queue, f) => None(queue', f)
          /\ Fits(queue', f, asked[f])
      BY <1>1, <2>1, TailOther
    <3>3. QED
      BY <2>1, <2>2, <3>1, <3>2, DueParts
  <2>5. QED
    BY <2>3, <2>4
<1>5. QED
  BY <1>3, <1>4 DEF AnswersDue

(* A symbol: the answer that joins the queue is for the client whose       *)
(* arbitration it ends, which has no other.                                *)
LEMMA TakeDue ==
  ASSUME TypeOK, AnswersDue, NEW symbol \in Line, NEW behind \in BOOLEAN,
         Take(symbol, behind)
  PROVE  AnswersDue'
<1>1. /\ ClientFds' = ClientFds /\ ClientFds \subseteq Fds
      /\ asked' = asked
  BY TakeFacts, FdFacts DEF ClientFds
<1>2. queue \in Seq(Entries)
  BY DEF TypeOK
<1>3. ASSUME NEW f \in ClientFds
      PROVE  DueTo(f)'
  <2>1. /\ slot.client = f => asked[f] = slot.address
        /\ Serving(f) => asked[f] = adapter.arb.address
        /\ None(queue, f) \/ (slot.client # f /\ ~Serving(f))
        /\ Fits(queue, f, asked[f])
    BY <1>3, DueParts DEF AnswersDue
  <2>2. Serving(f)' => /\ slot' = slot
                       /\ Serving(f) \/ slot.client = f
                       /\ asked[f] = adapter'.arb.address
    BY <2>1, TakeFacts DEF Serving
  <2>3. CASE /\ slot' = slot
             /\ \E x \in Entries : ~x.enhanced /\ queue' = Append(queue, x)
    <3>1. PICK x \in Entries : ~x.enhanced /\ queue' = Append(queue, x)
      BY <2>3
    <3>2. /\ None(queue, f) => None(queue', f)
          /\ Fits(queue', f, asked[f])
      BY <1>2, <2>1, <3>1, AppendOther
    <3>3. QED
      BY <1>1, <2>1, <2>2, <2>3, <3>2, DueParts
  <2>4. ASSUME slot' = EmptySlot,
               adapter.arb.arbitrating,
               ~adapter'.arb.arbitrating,
               NEW e \in Entries, NEW x \in Entries, e.enhanced, ~x.enhanced,
               queue' = Append(Append(queue, e), x),
               e.fd = adapter.fd,
               e.c = "started" => e.d = adapter.arb.address
        PROVE  DueTo(f)'
    <3>1. slot'.client # f /\ ~Serving(f)'
      BY <1>1, <2>4, FdFacts DEF EmptySlot, Serving
    <3>2. Append(queue, e) \in Seq(Entries)
      BY <1>2, AppendProperties
    <3>3. Fits(Append(queue, e), f, asked[f])
      <4>1. CASE e.fd = f
        <5>1. Serving(f)
          BY <2>4, <4>1 DEF Serving
        <5>2. None(queue, f) /\ asked[f] = adapter.arb.address
          BY <2>1, <5>1
        <5>3. adapter.arb.address \in Symbols
          BY DEF TypeOK, Adapters, Arbs
        <5>4. asked[f] # NotAsked
          BY <5>2, <5>3 DEF Symbols, NotAsked
        <5>5. QED
          BY <1>2, <2>4, <5>2, <5>4, AppendFirst
      <4>2. CASE e.fd # f
        BY <1>2, <2>1, <4>2, AppendOther
      <4>3. QED
        BY <4>1, <4>2
    <3>4. Fits(queue', f, asked[f])
      BY <2>4, <3>2, <3>3, AppendOther
    <3>5. QED
      BY <1>1, <3>1, <3>4, DueParts
  <2>5. QED
    BY <2>3, <2>4, TakeFacts
<1>4. QED
  BY <1>1, <1>3 DEF AnswersDue

LEMMA StepDue ==
  ASSUME TypeOK, [Next]_vars, AnswersDue, ~Estranged
  PROVE  AnswersDue'
<1>1. ASSUME NEW g \in Fds, Hangup(g)
      PROVE  AnswersDue'
  <2>1. ClientFds' \subseteq ClientFds \ {g}
    BY <1>1 DEF Hangup, ClientFds
  <2>2. QED
    BY <1>1, <2>1, GoneDue DEF Hangup
<1>2. ASSUME NEW i \in Places, Malformed(i)
      PROVE  AnswersDue'
  <2>1. clients[i] \in Fds
    BY <1>2 DEF Malformed, Connected, TypeOK
  <2>2. ClientFds' \subseteq ClientFds \ {clients[i]}
    <3>1. /\ open' = open \ {clients[i]}
          /\ clients' = [clients EXCEPT ![i] = NoFd]
      BY <1>2 DEF Malformed
    <3>2. \A j \in Places : clients'[j] = clients[j] \/ clients'[j] \notin open
      BY <3>1, FdFacts DEF TypeOK
    <3>3. QED
      BY <3>1, <3>2 DEF ClientFds
  <2>3. QED
    BY <1>2, <2>1, <2>2, GoneDue DEF Malformed
<1>3. CASE UNCHANGED <<adapter, slot, queue, clients, open, asked>>
  <2>1. ClientFds' = ClientFds
    BY <1>3 DEF ClientFds
  <2>2. QED
    BY <1>3, <2>1, DueKept DEF AnswersDue
<1>4. QED
  BY <1>1, <1>2, <1>3, AcceptDue, CancelDue, StartDue, ForwardDue, TakeDue
     DEF Next, vars, Pop

(* A client gets an answer it does not wait for, or a wrong one, or two,   *)
(* only after a step of Estranged.                                         *)
THEOREM AnswersStayDue == Spec => OnlyEstrangement
<1>1. TypeOK /\ [Next]_vars => [AnswersDue /\ ~Estranged => AnswersDue']_vars
  BY StepDue
<1>2. QED
  BY <1>1, TypeInvariance, PTL DEF Spec, OnlyEstrangement

(* Where a descriptor is not given out again while something of the last   *)
(* connection is under way, no client withdraws what is on the bus or      *)
(* answered, and none asks for something else before it is answered, every *)
(* answer is asked for and names the address asked for; clients may repeat *)
(* what they asked, be refused, hang up and withdraw otherwise.            *)
THEOREM WithoutEstrangementAsked ==
  Spec /\ [][~Estranged]_vars => []AnswersAreAsked
<1>1. Init => AnswersDue
  BY FdFacts DEF Init, AnswersDue, ClientFds
<1>2. TypeOK /\ [Next]_vars /\ [~Estranged]_vars /\ AnswersDue => AnswersDue'
  <2>1. CASE UNCHANGED vars
    BY <2>1, DueKept DEF vars, AnswersDue, ClientFds
  <2>2. QED
    BY <2>1, StepDue
<1>3. AnswersDue => AnswersAreAsked
  BY DEF AnswersDue, DueTo, AnswersAreAsked
<1>4. QED
  BY <1>1, <1>2, <1>3, TypeInvariance, PTL DEF Spec
=============================================================================
