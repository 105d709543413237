--------------------------- MODULE EbusLineProofs ---------------------------
(***************************************************************************)
(* Proofs about EbusLine, for any number of adapters and any addresses,    *)
(* payloads and restart limits.                                            *)
(***************************************************************************)
EXTENDS EbusLine, BusTypeProofs

---------------------------------------------------------------------------
(* One adapter's reaction to a symbol.                                     *)

LEMMA ReceiveFacts ==
  ASSUME NEW t \in Adapters, NEW s \in Slots, NEW symbol \in Symbols,
         NEW behind, NEW A \in Symbols, Sound(t, s, A),
         NEW r, r = Receive(t, s, symbol, behind)
  PROVE  /\ r.adapter \in Adapters
         /\ r.adapter.bus = BusData(t.bus, symbol)
         /\ r.slot \in Slots
         /\ r.written \in SUBSET {A}
         /\ Sound(r.adapter, r.slot, A)
         /\ r.written # {} =>
              /\ symbol = SYN
              /\ r.adapter.arb.arbitrating
              /\ r.adapter.bus.state \in AddressDue
         /\ r.adapter.arb.arbitrating /\ symbol # SYN => t.arb.arbitrating
         /\ r.outcome \in Won =>
              /\ symbol = A
              /\ symbol # SYN
              /\ t.arb.arbitrating
              /\ ~r.adapter.arb.arbitrating
              /\ t.bus.state \in AddressDue
              /\ r.adapter.bus.master = A
         /\ r.outcome \in Lost =>
              /\ symbol # SYN
              /\ t.arb.arbitrating
              /\ t.bus.state \in AddressSeen
              /\ r.adapter.bus.master = t.bus.master
<1> DEFINE bus     == BusData(t.bus, symbol)
           outcome == ArbOutcome(bus, t.arb, symbol)
           arb     == ArbAfter(bus, t.arb, symbol)
           starts  == /\ outcome \in Idle
                      /\ s.client >= 0
                      /\ StartResult(bus, arb, s.address, behind) = "started"
           second  == WritesSecond(bus, t.arb, behind)
<1> HIDE DEF bus, outcome, arb, starts, second
<1>1. /\ t.bus \in Buses
      /\ t.arb \in Arbs
      /\ t.fd \in {NoFd, Client}
  BY DEF Adapters
<1>2. bus \in Buses /\ arb \in Arbs
  BY <1>1, BusDataFacts, ArbAfterType DEF bus, arb
<1>3. /\ r.outcome = outcome
      /\ r.adapter = [bus |-> bus,
                      arb |-> IF starts THEN ArbStart(arb, s.address) ELSE arb,
                      fd |-> IF outcome \in Done THEN NoFd
                             ELSE IF outcome \in Idle THEN s.client ELSE t.fd]
      /\ r.slot = IF outcome \in Done THEN EmptySlot ELSE s
      /\ r.written = (IF starts THEN {s.address} ELSE {}) \cup
                     (IF second THEN {t.arb.address} ELSE {})
  BY ReceiveFields DEF bus, outcome, arb, starts, second
<1>4. /\ outcome \in Idle \cup Done \cup {"arbitrating"}
      /\ outcome # "none" => t.arb.arbitrating
      /\ outcome \in Won => bus.state \in AddressSeen /\ symbol = t.arb.address
      /\ outcome \in Lost => bus.state = "busy"
      /\ outcome = "arbitrating" =>
           bus.state \in AddressSeen \cup {"received_second_syn"}
  BY <1>1, <1>2, OutcomeFacts DEF outcome
<1>5. /\ arb.arbitrating = (outcome = "arbitrating")
      /\ arb.address = t.arb.address
  BY DEF arb, ArbAfter, outcome
<1>6. s.client >= 0 => s = [client |-> Client, address |-> A]
  BY DEF Sound, EmptySlot, NoFd
<1>7. starts => /\ s = [client |-> Client, address |-> A]
                /\ bus.state = "received_first_syn"
                /\ symbol = SYN
                /\ outcome \in Idle
  <2>1. starts => StartResult(bus, arb, s.address, behind) = "started"
    BY DEF starts
  <2>2. StartResult(bus, arb, s.address, behind) = "started" =>
          bus.state = "received_first_syn"
    BY DEF StartResult
  <2>3. bus.state = "received_first_syn" => symbol = SYN
    BY <1>1, BusDataFacts DEF bus, AfterSymbol
  <2>4. QED
    BY <1>6, <2>1, <2>2, <2>3 DEF starts
<1>8. second => /\ t.arb.arbitrating
                /\ bus.state = "received_second_syn"
                /\ symbol = SYN
                /\ outcome = "arbitrating"
  <2>1. second => t.arb.arbitrating /\ bus.state = "received_second_syn"
    BY DEF second, WritesSecond
  <2>2. bus.state = "received_second_syn" => symbol = SYN
    BY <1>1, BusDataFacts DEF bus, AfterSymbol
  <2>3. t.arb.arbitrating /\ bus.state = "received_second_syn" =>
          outcome = "arbitrating"
    BY DEF outcome, ArbOutcome
  <2>4. QED
    BY <2>1, <2>2, <2>3
<1>9. /\ r.adapter.bus = bus
      /\ r.adapter.fd = IF outcome \in Done THEN NoFd
                        ELSE IF outcome \in Idle THEN s.client ELSE t.fd
      /\ starts => /\ r.adapter.arb \in Arbs
                   /\ r.adapter.arb.arbitrating
                   /\ r.adapter.arb.address = A
      /\ ~starts => r.adapter.arb = arb
  <2>1. /\ r.adapter.bus = bus
        /\ r.adapter.fd = IF outcome \in Done THEN NoFd
                          ELSE IF outcome \in Idle THEN s.client ELSE t.fd
        /\ r.adapter.arb = IF starts THEN ArbStart(arb, s.address) ELSE arb
    BY <1>3
  <2>2. /\ ArbStart(arb, A) \in Arbs
        /\ ArbStart(arb, A).arbitrating
        /\ ArbStart(arb, A).address = A
    BY <1>2 DEF ArbStart, Arbs
  <2>3. starts => s.address = A
    BY <1>7
  <2>4. QED
    BY <2>1, <2>2, <2>3
<1>10. /\ outcome \in Idle => outcome \notin Done \cup {"arbitrating"}
       /\ outcome \in Done => outcome # "arbitrating"
       /\ Won \subseteq Done
       /\ Lost \subseteq Done
       /\ "arbitrating" \notin Idle \cup Done
       /\ outcome \in Won => outcome # "none" /\ outcome \notin Lost
       /\ outcome \in Lost => outcome # "none"
  BY DEF Idle, Done, Won, Lost
<1>11. r.adapter \in Adapters
  BY <1>1, <1>2, <1>3, <1>9 DEF Adapters, Slots
<1>12. r.slot \in Slots /\ (r.slot = EmptySlot \/ r.slot = [client |-> Client, address |-> A])
  BY <1>3 DEF Slots, EmptySlot, Sound
<1>13. r.written \in SUBSET {A} /\ (r.written # {} => starts \/ second)
  BY <1>3, <1>7, <1>8 DEF Sound
<1>14. ASSUME r.adapter.arb.arbitrating
       PROVE  /\ r.adapter.fd = Client
              /\ r.adapter.arb.address = A
              /\ r.adapter.bus.state \in AddressDue \cup AddressSeen
              /\ symbol # SYN => t.arb.arbitrating
  <2>1. CASE starts
    BY <1>7, <1>9, <1>10, <2>1 DEF AddressDue
  <2>2. CASE ~starts
    <3>1. outcome = "arbitrating"
      BY <1>5, <1>9, <1>14, <2>2
    <3>2. t.arb.arbitrating
      BY <1>4, <3>1
    <3>3. r.adapter.fd = Client
      BY <1>9, <1>10, <3>1, <3>2 DEF Sound
    <3>4. r.adapter.bus.state \in AddressDue \cup AddressSeen
      BY <1>4, <1>9, <3>1 DEF AddressDue
    <3>5. QED
      BY <1>5, <1>9, <2>2, <3>2, <3>3, <3>4 DEF Sound
  <2>3. QED
    BY <2>1, <2>2
<1>15. Sound(r.adapter, r.slot, A)
  BY <1>12, <1>14 DEF Sound
<1>16. ASSUME r.written # {}
       PROVE  /\ symbol = SYN
              /\ r.adapter.arb.arbitrating
              /\ r.adapter.bus.state \in AddressDue
  <2>1. CASE starts
    BY <1>7, <1>9, <2>1 DEF AddressDue
  <2>2. CASE second /\ ~starts
    BY <1>5, <1>8, <1>9, <2>2 DEF AddressDue
  <2>3. QED
    BY <1>13, <1>16, <2>1, <2>2
<1>17. ASSUME outcome \in Won
       PROVE  /\ symbol = A
              /\ symbol # SYN
              /\ t.arb.arbitrating
              /\ ~r.adapter.arb.arbitrating
              /\ t.bus.state \in AddressDue
              /\ r.adapter.bus.master = A
  <2>1. t.arb.arbitrating /\ symbol = A
    BY <1>4, <1>10, <1>17 DEF Sound
  <2>2. bus.state \in AddressSeen
    BY <1>4, <1>17
  <2>3. symbol # SYN
    BY <1>1, <2>2, BusDataFacts, StateSets DEF bus
  <2>4. t.bus.state \in AddressDue /\ bus.master = symbol
    BY <1>1, <2>2, <2>3, BusDataFacts DEF bus
  <2>5. ~starts
    BY <1>7, <1>10, <1>17
  <2>6. QED
    BY <1>5, <1>9, <1>10, <1>17, <2>1, <2>3, <2>4, <2>5
<1>18. ASSUME outcome \in Lost
       PROVE  /\ symbol # SYN
              /\ t.arb.arbitrating
              /\ t.bus.state \in AddressSeen
              /\ r.adapter.bus.master = t.bus.master
  <2>1. t.arb.arbitrating /\ t.bus.state \in AddressDue \cup AddressSeen
    BY <1>4, <1>10, <1>18 DEF Sound
  <2>2. bus.state = "busy"
    BY <1>4, <1>18
  <2>3. symbol # SYN
    BY <1>1, <2>2, BusDataFacts, StateSets DEF bus
  <2>4. t.bus.state \notin AddressDue
    BY <1>1, <2>2, <2>3, BusDataFacts, StateSets DEF bus
  <2>5. QED
    BY <1>1, <1>9, <2>1, <2>3, <2>4, BusDataFacts DEF bus
<1>19. QED
  BY <1>3, <1>9, <1>11, <1>12, <1>13, <1>14, <1>15, <1>16, <1>17, <1>18 DEF bus

LEMMA HeadOfAppend ==
  ASSUME NEW x, NEW y
  PROVE  Head(Append(<<x>>, y)) = x /\ Head(Append(<<>>, y)) = y
OBVIOUS

(* What Symbol tells the client: Head(pushed) is the answer if there is    *)
(* one.                                                                    *)
LEMMA ReceiveNews ==
  ASSUME NEW t \in Adapters, NEW s, NEW symbol \in Symbols, NEW behind,
         NEW r, r = Receive(t, s, symbol, behind),
         NEW e, e = Head(r.pushed)
  PROVE  LET told == IF e.enhanced THEN [c |-> e.c, d |-> e.d] ELSE NoNews
         IN /\ told \in News
            /\ told.c = "started" =>
                 r.outcome \in Won /\ told.d = r.adapter.bus.master
            /\ told.c = "failed" =>
                 r.outcome \in Lost /\ told.d = r.adapter.bus.master
<1> DEFINE bus     == BusData(t.bus, symbol)
           outcome == ArbOutcome(bus, t.arb, symbol)
           fd      == IF outcome \in Idle THEN s.client ELSE t.fd
           hidden  == IF outcome \in Won \cup {"arbitrating"} THEN fd ELSE NoFd
           answer  == CASE outcome \in Won  -> <<Data(TRUE, "started", bus.master, fd)>>
                        [] outcome \in Lost -> <<Data(TRUE, "failed", bus.master, fd)>>
                        [] outcome = "error" -> <<Data(TRUE, "error_ebus", 0, fd)>>
                        [] OTHER -> <<>>
           entry   == Data(FALSE, "received", symbol, hidden)
           told    == IF e.enhanced THEN [c |-> e.c, d |-> e.d] ELSE NoNews
<1>1. /\ r.outcome = outcome
      /\ r.adapter.bus = bus
      /\ r.pushed = Append(answer, entry)
  BY DEF Receive
<1>2. bus.master \in Symbols
  BY BusDataFacts DEF Adapters, Buses
<1> HIDE DEF bus, outcome, fd, hidden
<1> HIDE DEF entry
<1>3. CASE outcome \in Won
  <2>1. answer = <<Data(TRUE, "started", bus.master, fd)>>
    BY <1>3 DEF Won, Lost
  <2> HIDE DEF answer
  <2>2. e = Data(TRUE, "started", bus.master, fd)
    BY <1>1, <2>1, HeadOfAppend
  <2>3. told = [c |-> "started", d |-> bus.master]
    BY <2>2 DEF Data
  <2>4. QED
    BY <1>1, <1>2, <1>3, <2>3 DEF News
<1>4. CASE outcome \in Lost
  <2>1. answer = <<Data(TRUE, "failed", bus.master, fd)>>
    BY <1>4 DEF Won, Lost
  <2> HIDE DEF answer
  <2>2. e = Data(TRUE, "failed", bus.master, fd)
    BY <1>1, <2>1, HeadOfAppend
  <2>3. told = [c |-> "failed", d |-> bus.master]
    BY <2>2 DEF Data
  <2>4. QED
    BY <1>1, <1>2, <1>4, <2>3 DEF News
<1>5. CASE outcome = "error"
  <2>1. answer = <<Data(TRUE, "error_ebus", 0, fd)>>
    BY <1>5 DEF Won, Lost
  <2> HIDE DEF answer
  <2>2. e = Data(TRUE, "error_ebus", 0, fd)
    BY <1>1, <2>1, HeadOfAppend
  <2>3. told = [c |-> "error_ebus", d |-> 0]
    BY <2>2 DEF Data
  <2>4. QED
    BY <2>3 DEF News, Symbols
<1>6. CASE outcome \notin Won \cup Lost \cup {"error"}
  <2>1. answer = <<>>
    BY <1>6
  <2> HIDE DEF answer
  <2>2. e = entry
    BY <1>1, <2>1, HeadOfAppend
  <2>3. told = NoNews
    BY <2>2 DEF Data, entry
  <2>4. QED
    BY <2>3 DEF NoNews, News, Symbols
<1>7. QED
  BY <1>3, <1>4, <1>5, <1>6

---------------------------------------------------------------------------
(* One symbol time preserves the invariant.                                *)

LEMMA AddrType ==
  /\ MasterAddresses \subseteq Symbols
  /\ \A n \in Nodes : Addr[n] \in Symbols
  /\ \A m, n \in Nodes : Addr[m] = Addr[n] => m = n
<1>1. MasterAddresses \subseteq Symbols
  BY DEF MasterAddresses, Nibbles, Symbols
<1>2. QED
  BY <1>1, LineAssumption

LEMMA SymbolStep ==
  ASSUME IInv, NEW symbol \in Symbols, NEW behind, Symbol(symbol, behind),
         symbol # SYN => holds # {} \/ Writers # {}
  PROVE  IInv'
<1> DEFINE r(n) == Reaction(n, symbol, behind)
           told(n) == LET e == Head(r(n).pushed)
                      IN IF e.enhanced THEN [c |-> e.c, d |-> e.d] ELSE NoNews
<1> USE DEF IInv
<1>1. /\ adapter' = [n \in Nodes |-> r(n).adapter]
      /\ slot' = [n \in Nodes |-> r(n).slot]
      /\ written' = [n \in Nodes |-> r(n).written]
      /\ holds' = IF symbol = SYN THEN {}
                  ELSE holds \cup {n \in Nodes : r(n).outcome \in Won}
      /\ news' = [n \in Nodes |-> told(n)]
  BY DEF Symbol
<1>2. ASSUME NEW n \in Nodes
      PROVE  /\ adapter[n] \in Adapters
             /\ slot[n] \in Slots
             /\ adapter[n].bus \in Buses
             /\ Sound(adapter[n], slot[n], Addr[n])
             /\ r(n) = Receive(adapter[n], slot[n], symbol, n \in behind)
  BY DEF TypeOK, AllSound, Reaction, Adapters
<1>3. ASSUME NEW n \in Nodes
      PROVE  /\ r(n).adapter \in Adapters
             /\ r(n).adapter.bus = BusData(adapter[n].bus, symbol)
             /\ r(n).slot \in Slots
             /\ r(n).written \in SUBSET {Addr[n]}
             /\ Sound(r(n).adapter, r(n).slot, Addr[n])
             /\ r(n).written # {} =>
                  /\ symbol = SYN
                  /\ r(n).adapter.arb.arbitrating
                  /\ r(n).adapter.bus.state \in AddressDue
             /\ r(n).adapter.arb.arbitrating /\ symbol # SYN =>
                  adapter[n].arb.arbitrating
             /\ r(n).outcome \in Won =>
                  /\ symbol = Addr[n]
                  /\ symbol # SYN
                  /\ adapter[n].arb.arbitrating
                  /\ ~r(n).adapter.arb.arbitrating
                  /\ adapter[n].bus.state \in AddressDue
                  /\ r(n).adapter.bus.master = Addr[n]
             /\ r(n).outcome \in Lost =>
                  /\ symbol # SYN
                  /\ adapter[n].arb.arbitrating
                  /\ adapter[n].bus.state \in AddressSeen
                  /\ r(n).adapter.bus.master = adapter[n].bus.master
  BY <1>2, AddrType, ReceiveFacts
<1>4. ASSUME NEW n \in Nodes
      PROVE  /\ told(n) \in News
             /\ told(n).c = "started" =>
                  r(n).outcome \in Won /\ told(n).d = r(n).adapter.bus.master
             /\ told(n).c = "failed" =>
                  r(n).outcome \in Lost /\ told(n).d = r(n).adapter.bus.master
  BY <1>2, ReceiveNews
<1> HIDE DEF r, told
<1>6. TypeOK'
  BY <1>1, <1>3, <1>4, AddrType DEF TypeOK
<1>7. AllSound'
  BY <1>1, <1>3 DEF AllSound
<1>8. WritesAfterSyn'
  BY <1>1, <1>3 DEF WritesAfterSyn
<1>9. ASSUME symbol = SYN
      PROVE  /\ InStep'
             /\ FreeAfterSyn'
             /\ HoldersRest'
             /\ MasterIsHolder'
             /\ MutualExclusion'
             /\ LostNamesWinner'
             /\ StartedNamesSelf'
  <2>1. holds' = {}
    BY <1>1, <1>9
  <2>2. \A n \in Nodes : adapter'[n].bus.state \in AfterSyn
    BY <1>1, <1>2, <1>3, <1>9, BusDataFacts
  <2>3. \A n \in Nodes : news'[n].c \notin {"started", "failed"}
    BY <1>1, <1>3, <1>4, <1>9
  <2>4. InStep'
    BY <2>2, StateSets DEF InStep
  <2>5. QED
    BY <2>1, <2>3, <2>4 DEF FreeAfterSyn, HoldersRest, MasterIsHolder,
       MutualExclusion, LostNamesWinner, StartedNamesSelf
<1>10. ASSUME symbol # SYN
       PROVE  /\ InStep'
              /\ FreeAfterSyn'
              /\ HoldersRest'
              /\ MasterIsHolder'
              /\ MutualExclusion'
              /\ LostNamesWinner'
              /\ StartedNamesSelf'
  <2>1. holds' = holds \cup {n \in Nodes : r(n).outcome \in Won}
    BY <1>1, <1>10
  <2>2. \A n \in Nodes : adapter'[n].bus.state \notin AfterSyn
    BY <1>1, <1>2, <1>3, <1>10, BusDataFacts, StateSets
  <2>3. ASSUME NEW n \in Nodes, r(n).outcome \in Won
        PROVE  holds' = {n}
    <3>1. holds = {}
      BY <1>3, <2>3, StateSets DEF FreeAfterSyn
    <3>2. \A m \in Nodes : r(m).outcome \in Won => m = n
      BY <1>3, <2>3, AddrType
    <3>3. QED
      BY <2>1, <2>3, <3>1, <3>2
  <2>4. holds' # holds => \E n \in Nodes : r(n).outcome \in Won /\ holds' = {n}
    BY <2>1, <2>3
  <2>5. InStep' /\ FreeAfterSyn'
    BY <2>2 DEF InStep, FreeAfterSyn
  <2>6. MutualExclusion'
    BY <2>4 DEF MutualExclusion
  <2>7. HoldersRest'
    BY <1>1, <1>3, <1>10, <2>4 DEF HoldersRest, TypeOK
  <2>8. MasterIsHolder'
    <3>1. SUFFICES ASSUME NEW n \in Nodes, NEW h \in holds',
                          adapter'[n].bus.state \in AddressSeen
                   PROVE  adapter'[n].bus.master = Addr[h]
      BY DEF MasterIsHolder
    <3>2. /\ adapter[n].bus.state \in AddressDue
          /\ adapter'[n].bus.master = symbol
      BY <1>1, <1>2, <1>3, <1>10, <3>1, BusDataFacts
    <3>3. holds = {}
      BY <3>2, StateSets DEF FreeAfterSyn
    <3>4. QED
      BY <1>3, <2>4, <3>2, <3>3
  <2>9. StartedNamesSelf'
    BY <1>1, <1>3, <1>4, <2>3 DEF StartedNamesSelf
  <2>10. LostNamesWinner'
    <3>1. SUFFICES ASSUME NEW n \in Nodes, news'[n].c = "failed"
                   PROVE  \E h \in holds' : h # n /\ news'[n].d = Addr[h]
      BY DEF LostNamesWinner
    <3>2. /\ adapter[n].arb.arbitrating
          /\ adapter[n].bus.state \in AddressSeen
          /\ news'[n].d = adapter[n].bus.master
      BY <1>1, <1>3, <1>4, <3>1
    <3>3. Writers = {}
      <4>1. \A m \in Nodes : adapter[m].bus.state \notin AfterSyn
        BY <3>2, StateSets DEF InStep
      <4>2. QED
        BY <4>1, StateSets DEF Writers, WritesAfterSyn
    <3>4. PICK h \in holds : TRUE
      BY <1>10, <3>3
    <3>5. news'[n].d = Addr[h]
      BY <3>2, <3>4 DEF MasterIsHolder
    <3>6. h # n
      BY <3>2, <3>4 DEF HoldersRest
    <3>7. QED
      BY <2>1, <3>4, <3>5, <3>6
  <2>11. QED
    BY <2>5, <2>6, <2>7, <2>8, <2>9, <2>10
<1>11. QED
  BY <1>6, <1>7, <1>8, <1>9, <1>10

---------------------------------------------------------------------------
(* What can be on the wire.                                                *)

LEMMA SmallestIsLeast ==
  ASSUME NEW S \in SUBSET Nibbles, S # {}
  PROVE  Smallest(S) \in S /\ \A y \in S : Smallest(S) <= y
<1>1. \E x \in S : \A y \in S : x <= y
  <2>1. CASE 0 \in S
    BY <2>1 DEF Nibbles
  <2>2. CASE 0 \notin S /\ 1 \in S
    BY <2>2 DEF Nibbles
  <2>3. CASE S \subseteq {3, 7, 15} /\ 3 \in S
    BY <2>3
  <2>4. CASE S \subseteq {7, 15} /\ 7 \in S
    BY <2>4
  <2>5. CASE S = {15}
    BY <2>5
  <2>6. QED
    BY <2>1, <2>2, <2>3, <2>4, <2>5 DEF Nibbles
<1>2. QED
  BY <1>1 DEF Smallest

LEMMA NibblesOfMaster ==
  ASSUME NEW b \in MasterAddresses
  PROVE  b \div 16 \in Nibbles /\ b % 16 \in Nibbles
<1>1. PICK h \in Nibbles, l \in Nibbles : b = 16 * h + l
  BY DEF MasterAddresses
<1>2. h \in 0..15 /\ l \in 0..15
  BY DEF Nibbles
<1>3. b \div 16 = h /\ b % 16 = l
  BY <1>1, <1>2
<1>4. QED
  BY <1>3

LEMMA WiredAndType ==
  ASSUME WritesAfterSyn, NEW W \in SUBSET Writers, W # {}
  PROVE  WiredAnd(W) \in Symbols
<1>1. Bytes(W) \subseteq MasterAddresses /\ Bytes(W) # {}
  BY LineAssumption DEF Bytes, Writers, WritesAfterSyn
<1> DEFINE high == {b \div 16 : b \in Bytes(W)}
           low  == {b % 16 : b \in Bytes(W)}
<1>2. high \in SUBSET Nibbles /\ high # {}
  BY <1>1, NibblesOfMaster
<1>3. low \in SUBSET Nibbles /\ low # {}
  BY <1>1, NibblesOfMaster
<1>4. Smallest(high) \in Nibbles /\ Smallest(low) \in Nibbles
  BY <1>2, <1>3, SmallestIsLeast
<1>5. WiredAnd(W) = 16 * Smallest(high) + Smallest(low)
  BY DEF WiredAnd
<1> HIDE DEF high, low
<1>6. QED
  BY <1>4, <1>5 DEF Nibbles, Symbols

---------------------------------------------------------------------------
(* The invariant.                                                          *)

LEMMA InitInv == Init => IInv
<1> SUFFICES ASSUME Init
             PROVE  IInv
  OBVIOUS
<1>1. /\ BusTypeInit \in Adapters
      /\ BusTypeInit.arb.arbitrating = FALSE
      /\ BusTypeInit.bus.state = "startup"
  BY DEF BusTypeInit, Adapters, BusInit, Buses, BusStates, ArbInit, Arbs,
         Symbols
<1>2. EmptySlot \in Slots /\ NoNews \in News /\ NoNews.c = "none"
  BY DEF EmptySlot, Slots, NoNews, News, Symbols
<1>3. TypeOK
  BY <1>1, <1>2 DEF Init, TypeOK
<1>4. AllSound
  BY <1>1 DEF Init, AllSound, Sound
<1>5. QED
  BY <1>1, <1>2, <1>3, <1>4, StateSets
     DEF Init, IInv, InStep, FreeAfterSyn, WritesAfterSyn, HoldersRest,
         MasterIsHolder, MutualExclusion, LostNamesWinner, StartedNamesSelf

LEMMA RequestStep ==
  ASSUME IInv, NEW n \in Nodes, Request(n) \/ Cancel(n)
  PROVE  IInv'
<1> USE DEF IInv
<1>1. /\ slot' \in [Nodes -> Slots]
      /\ \A m \in Nodes : slot'[m] \in {slot[m], EmptySlot,
                                 [client |-> Client, address |-> Addr[m]]}
  <2>1. /\ EmptySlot \in Slots
        /\ \A m \in Nodes : [client |-> Client, address |-> Addr[m]] \in Slots
    BY AddrType DEF EmptySlot, Slots, Symbols
  <2>2. SlotTake(slot[n], Client, Addr[n]) \in
          {slot[n], [client |-> Client, address |-> Addr[n]]}
    BY DEF SlotTake
  <2>3. slot[n] \in Slots
    BY DEF TypeOK
  <2>4. \E x \in Slots : /\ x \in {slot[n], EmptySlot,
                                  [client |-> Client, address |-> Addr[n]]}
                         /\ slot' = [slot EXCEPT ![n] = x]
    BY <2>1, <2>2, <2>3 DEF Request, Cancel
  <2>5. QED
    BY <2>4 DEF TypeOK
<1>2. UNCHANGED <<adapter, written, holds, news>>
  BY DEF Request, Cancel
<1>3. TypeOK'
  BY <1>1, <1>2 DEF TypeOK
<1>4. AllSound'
  BY <1>1, <1>2 DEF AllSound, Sound
<1>5. QED
  BY <1>2, <1>3, <1>4
     DEF InStep, FreeAfterSyn, WritesAfterSyn, HoldersRest,
         MasterIsHolder, MutualExclusion, LostNamesWinner, StartedNamesSelf

LEMMA RebootStep ==
  ASSUME IInv, NEW n \in Nodes, Reboot(n)
  PROVE  IInv'
<1> USE DEF IInv
<1>1. /\ BusTypeInit \in Adapters
      /\ BusTypeInit.arb.arbitrating = FALSE
      /\ BusTypeInit.bus.state = "startup"
  BY DEF BusTypeInit, Adapters, BusInit, Buses, BusStates, ArbInit, Arbs,
         Symbols
<1>2. EmptySlot \in Slots /\ NoNews \in News /\ NoNews.c = "none"
  BY DEF EmptySlot, Slots, NoNews, News, Symbols
<1>3. /\ adapter' = [adapter EXCEPT ![n] = BusTypeInit]
      /\ slot' = [slot EXCEPT ![n] = EmptySlot]
      /\ written' = [written EXCEPT ![n] = {}]
      /\ holds' = holds \ {n}
      /\ news' = [m \in Nodes |-> NoNews]
  BY DEF Reboot
<1>4. TypeOK'
  BY <1>1, <1>2, <1>3 DEF TypeOK
<1>5. \A m \in Nodes :
        /\ adapter'[m] = IF m = n THEN BusTypeInit ELSE adapter[m]
        /\ slot'[m] = IF m = n THEN EmptySlot ELSE slot[m]
        /\ written'[m] = IF m = n THEN {} ELSE written[m]
        /\ news'[m].c = "none"
  BY <1>2, <1>3 DEF TypeOK
<1>6. AllSound'
  BY <1>1, <1>5 DEF AllSound, Sound
<1>7. InStep'
  BY <1>1, <1>5, StateSets DEF InStep
<1>8. FreeAfterSyn' /\ HoldersRest' /\ MutualExclusion'
  BY <1>1, <1>3, <1>5, StateSets
     DEF FreeAfterSyn, HoldersRest, MutualExclusion, TypeOK
<1>9. WritesAfterSyn'
  BY <1>5 DEF WritesAfterSyn
<1>10. MasterIsHolder'
  BY <1>1, <1>3, <1>5, StateSets DEF MasterIsHolder
<1>11. LostNamesWinner' /\ StartedNamesSelf'
  BY <1>5 DEF LostNamesWinner, StartedNamesSelf
<1>12. QED
  BY <1>4, <1>6, <1>7, <1>8, <1>9, <1>10, <1>11

LEMMA NextInv == IInv /\ [Next]_vars => IInv'
<1> SUFFICES ASSUME IInv, [Next]_vars
             PROVE  IInv'
  OBVIOUS
<1>1. ASSUME NEW n \in Nodes, Request(n) \/ Cancel(n)
      PROVE  IInv'
  BY <1>1, RequestStep
<1>2. ASSUME NEW n \in Nodes, Reboot(n)
      PROVE  IInv'
  BY <1>2, RebootStep
<1>3. ASSUME NEW behind \in SUBSET Nodes, Contend(behind)
      PROVE  IInv'
  <2>1. PICK lost \in SUBSET Writers :
          lost # Writers /\ Symbol(WiredAnd(Writers \ lost), behind)
    BY <1>3 DEF Contend
  <2>2. WiredAnd(Writers \ lost) \in Symbols /\ Writers # {}
    BY <2>1, WiredAndType DEF IInv
  <2>3. QED
    BY <2>1, <2>2, SymbolStep
<1>4. ASSUME NEW behind \in SUBSET Nodes, Syn(behind)
      PROVE  IInv'
  <2>1. SYN \in Symbols
    BY DEF SYN, Symbols
  <2>2. QED
    BY <1>4, <2>1, SymbolStep DEF Syn
<1>5. ASSUME NEW behind \in SUBSET Nodes, Transmit(behind)
      PROVE  IInv'
  <2>1. holds # {} /\ \E byte \in Payload : Symbol(byte, behind)
    BY <1>5 DEF Transmit
  <2>2. QED
    BY <2>1, SymbolStep, LineAssumption
<1>6. CASE UNCHANGED vars
  BY <1>6 DEF vars, IInv, TypeOK, AllSound, Sound, InStep, FreeAfterSyn,
     WritesAfterSyn, HoldersRest, MasterIsHolder, MutualExclusion,
     LostNamesWinner, StartedNamesSelf
<1>7. QED
  BY <1>1, <1>2, <1>3, <1>4, <1>5, <1>6 DEF Next

(* The inductive invariant holds in every reachable state.                 *)
THEOREM Invariance == Spec => []IInv
BY InitInv, NextInv, PTL DEF Spec

(* At most one adapter has the bus: for any number of adapters, with lost  *)
(* addresses, late adapters, withdrawn requests and reboots.               *)
THEOREM BusIsExclusive == Spec => []MutualExclusion
<1>1. IInv => MutualExclusion
  BY DEF IInv
<1>2. QED
  BY <1>1, Invariance, PTL

(* Type correctness.                                                       *)
THEOREM TypeCorrect == Spec => []TypeOK
<1>1. IInv => TypeOK
  BY DEF IInv
<1>2. QED
  BY <1>1, Invariance, PTL

(* No adapter writes its address into another one's telegram.              *)
THEOREM TelegramsAreSafe == Spec => []NoCollision
<1>1. IInv => NoCollision
  BY StateSets
     DEF IInv, NoCollision, WritesAfterSyn, FreeAfterSyn, Writers
<1>2. QED
  BY <1>1, Invariance, PTL

(* "failed m" names the master that has the bus.                           *)
THEOREM LosersKnowWinner == Spec => []LostNamesWinner
<1>1. IInv => LostNamesWinner
  BY DEF IInv
<1>2. QED
  BY <1>1, Invariance, PTL

(* "started" is told to the one owner of the bus.                          *)
THEOREM WinnerKnowsItself == Spec => []StartedNamesSelf
<1>1. IInv => StartedNamesSelf
  BY DEF IInv
<1>2. QED
  BY <1>1, Invariance, PTL

---------------------------------------------------------------------------
(* The refinement of BusLock.                                              *)

(* A competitor that waits for an address stays in the field or wins.      *)
LEMMA StaysOrWins ==
  ASSUME NEW t \in Adapters, NEW s, NEW symbol \in Symbols, NEW behind,
         symbol # SYN, t.arb.arbitrating, t.bus.state \in AddressDue,
         NEW r, r = Receive(t, s, symbol, behind)
  PROVE  r.outcome \in Won \/ r.adapter.arb.arbitrating
<1> DEFINE bus     == BusData(t.bus, symbol)
           outcome == ArbOutcome(bus, t.arb, symbol)
           arb     == ArbAfter(bus, t.arb, symbol)
           starts  == /\ outcome \in Idle
                      /\ s.client >= 0
                      /\ StartResult(bus, arb, s.address, behind) = "started"
<1>1. bus.state \in AddressSeen
  BY BusDataFacts DEF Adapters
<1>2. outcome \in Won \cup {"arbitrating"}
  BY <1>1 DEF ArbOutcome, AddressSeen, Won
<1>3. outcome = "arbitrating" => arb.arbitrating /\ outcome \notin Idle
  BY DEF ArbAfter, Idle
<1>4. starts => outcome \in Idle
  OBVIOUS
<1> HIDE DEF bus, outcome, arb, starts
<1>5. /\ r.outcome = outcome
      /\ r.adapter.arb = IF starts THEN ArbStart(arb, s.address) ELSE arb
  <2>1. /\ r.outcome = outcome
        /\ r.adapter = [bus |-> bus,
                        arb |-> IF starts THEN ArbStart(arb, s.address) ELSE arb,
                        fd |-> IF outcome \in Done THEN NoFd
                               ELSE IF outcome \in Idle THEN s.client ELSE t.fd]
    BY ReceiveFields DEF bus, outcome, arb, starts
  <2>2. QED
    BY <2>1
<1>6. QED
  BY <1>2, <1>3, <1>4, <1>5

LEMMA SameHolders ==
  ASSUME holds' = holds
  PROVE  Owner' = Owner
<1>1. (CHOOSE h \in holds' : TRUE) = (CHOOSE h \in holds : TRUE)
  BY holds' = holds
<1>2. QED
  BY <1>1, holds' = holds DEF Owner

LEMMA OwnerOf ==
  ASSUME TypeOK, MutualExclusion
  PROVE  /\ holds = {} => Owner = NoOwner
         /\ holds # {} => Owner \in holds /\ Owner # NoOwner
         /\ \A n \in Nodes : holds = {n} => Owner = n
BY LineAssumption DEF TypeOK, MutualExclusion, Owner

LEMMA SymbolRefines ==
  ASSUME IInv, IInv', NEW symbol \in Symbols, NEW behind,
         Symbol(symbol, behind),
         symbol # SYN => holds # {} \/ Writers # {}
  PROVE  Lock!Next \/ UNCHANGED Lock!vars
<1> DEFINE r(n) == Reaction(n, symbol, behind)
<1> USE DEF IInv
<1>1. /\ adapter' = [n \in Nodes |-> r(n).adapter]
      /\ holds' = IF symbol = SYN THEN {}
                  ELSE holds \cup {n \in Nodes : r(n).outcome \in Won}
  BY DEF Symbol
<1>2. ASSUME NEW n \in Nodes
      PROVE  /\ adapter[n] \in Adapters
             /\ slot[n] \in Slots
             /\ Sound(adapter[n], slot[n], Addr[n])
             /\ r(n) = Receive(adapter[n], slot[n], symbol, n \in behind)
  BY DEF TypeOK, AllSound, Reaction
<1>3. ASSUME NEW n \in Nodes
      PROVE  /\ r(n).adapter.arb.arbitrating /\ symbol # SYN =>
                  adapter[n].arb.arbitrating
             /\ r(n).outcome \in Won =>
                  /\ symbol = Addr[n]
                  /\ adapter[n].arb.arbitrating
                  /\ ~r(n).adapter.arb.arbitrating
                  /\ adapter[n].bus.state \in AddressDue
             /\ symbol # SYN /\ adapter[n].arb.arbitrating
                  /\ adapter[n].bus.state \in AddressDue =>
                r(n).outcome \in Won \/ r(n).adapter.arb.arbitrating
  BY <1>2, AddrType, ReceiveFacts, StaysOrWins
<1> HIDE DEF r
<1>4. /\ Competitors = {n \in Nodes : adapter[n].arb.arbitrating}
      /\ Competitors' = {n \in Nodes : r(n).adapter.arb.arbitrating}
  BY <1>1 DEF Competitors
<1>5. CASE symbol = SYN
  <2>1. Owner' = NoOwner
    BY <1>1, <1>5 DEF Owner
  <2>2. QED
    BY <1>4, <2>1 DEF Lock!Next, Lock!Open
<1>6. CASE symbol # SYN
  <2>1. Competitors' \subseteq Competitors
    BY <1>3, <1>4, <1>6
  <2>2. ASSUME NEW m \in Nodes, adapter[m].bus.state \in AddressDue
        PROVE  /\ \A n \in Competitors : r(n).outcome \in Won \/ n \in Competitors'
               /\ holds = {}
    <3>1. \A n \in Competitors : adapter[n].bus.state \in AddressDue
      BY <1>2, <1>4, <2>2, StateSets DEF Sound, InStep
    <3>2. QED
      BY <1>3, <1>4, <1>6, <2>2, <3>1, StateSets DEF FreeAfterSyn
  <2>3. CASE \E n \in Nodes : r(n).outcome \in Won
    <3>1. PICK n \in Nodes : r(n).outcome \in Won
      BY <2>3
    <3>2. \A m \in Nodes : r(m).outcome \in Won => m = n
      BY <1>3, <3>1, AddrType
    <3>3. holds = {} /\ Competitors \ {n} \subseteq Competitors'
      <4>1. adapter[n].bus.state \in AddressDue
        BY <1>3, <3>1
      <4>2. \A m \in Competitors : r(m).outcome \in Won \/ m \in Competitors'
        BY <2>2, <4>1
      <4>3. Competitors \subseteq Nodes
        BY DEF Competitors
      <4>4. QED
        BY <2>2, <3>2, <4>1, <4>2, <4>3
    <3>4. n \in Competitors /\ n \notin Competitors'
      BY <1>3, <1>4, <3>1
    <3>5. holds' = {n}
      BY <1>1, <1>6, <3>1, <3>2, <3>3
    <3>6. Owner = NoOwner /\ Owner' = n
      BY <3>3, <3>5 DEF Owner
    <3>7. Competitors' = Competitors \ {n}
      BY <2>1, <3>3, <3>4
    <3>8. QED
      BY <3>4, <3>6, <3>7 DEF Lock!Next, Lock!Win
  <2>4. CASE (\A n \in Nodes : r(n).outcome \notin Won) /\ holds # {}
    <3>1. Owner' = Owner /\ Owner # NoOwner
      BY <1>1, <1>6, <2>4, OwnerOf, SameHolders
    <3>2. QED
      BY <2>1, <3>1 DEF Lock!Next, Lock!GiveUp
  <2>5. CASE (\A n \in Nodes : r(n).outcome \notin Won) /\ holds = {}
    <3>1. PICK m \in Nodes : adapter[m].bus.state \in AddressDue
      BY <1>6, <2>5 DEF Writers, WritesAfterSyn
    <3>2. Competitors' = Competitors
      BY <1>4, <2>1, <2>2, <2>5, <3>1
    <3>3. Owner' = Owner
      BY <1>1, <1>6, <2>5, SameHolders
    <3>4. QED
      BY <3>2, <3>3 DEF Lock!vars
  <2>6. QED
    BY <2>3, <2>4, <2>5
<1>7. QED
  BY <1>5, <1>6

LEMMA StepRefines ==
  IInv /\ IInv' /\ [Next]_vars => [Lock!Next]_Lock!vars
<1> SUFFICES ASSUME IInv, IInv', [Next]_vars
             PROVE  Lock!Next \/ UNCHANGED Lock!vars
  OBVIOUS
<1>1. ASSUME NEW n \in Nodes, Request(n) \/ Cancel(n)
      PROVE  UNCHANGED Lock!vars
  BY <1>1, SameHolders DEF Request, Cancel, Lock!vars, Competitors
<1>2. ASSUME NEW n \in Nodes, Reboot(n)
      PROVE  Lock!Next
  <2>1. Competitors' = Competitors \ {n}
    BY <1>2 DEF Reboot, Competitors, IInv, TypeOK, BusTypeInit, ArbInit
  <2>2. holds' = holds \ {n}
    BY <1>2 DEF Reboot
  <2>3. Owner' = IF Owner = n THEN NoOwner ELSE Owner
    BY <2>2, OwnerOf DEF IInv, MutualExclusion, TypeOK, Owner
  <2>4. QED
    BY <2>1, <2>3 DEF Lock!Next, Lock!Crash
<1>3. ASSUME NEW behind \in SUBSET Nodes, Contend(behind)
      PROVE  Lock!Next \/ UNCHANGED Lock!vars
  <2>1. PICK lost \in SUBSET Writers :
          lost # Writers /\ Symbol(WiredAnd(Writers \ lost), behind)
    BY <1>3 DEF Contend
  <2>2. WiredAnd(Writers \ lost) \in Symbols /\ Writers # {}
    BY <2>1, WiredAndType DEF IInv
  <2>3. QED
    BY <2>1, <2>2, SymbolRefines
<1>4. ASSUME NEW behind \in SUBSET Nodes, Syn(behind)
      PROVE  Lock!Next \/ UNCHANGED Lock!vars
  <2>1. SYN \in Symbols
    BY DEF SYN, Symbols
  <2>2. QED
    BY <1>4, <2>1, SymbolRefines DEF Syn
<1>5. ASSUME NEW behind \in SUBSET Nodes, Transmit(behind)
      PROVE  Lock!Next \/ UNCHANGED Lock!vars
  <2>1. holds # {} /\ \E byte \in Payload : Symbol(byte, behind)
    BY <1>5 DEF Transmit
  <2>2. QED
    BY <2>1, SymbolRefines, LineAssumption
<1>6. CASE UNCHANGED vars
  BY <1>6, SameHolders DEF vars, Lock!vars, Competitors
<1>7. QED
  BY <1>1, <1>2, <1>3, <1>4, <1>5, <1>6 DEF Next

(* The adapters on a line implement the lock of module BusLock.            *)
THEOREM LineImplementsLock == Spec => ImplementsLock
<1>1. Init => Lock!Init
  BY DEF Init, Lock!Init, Owner, Competitors, BusTypeInit, ArbInit
<1>2. QED
  BY <1>1, StepRefines, Invariance, PTL DEF Spec, ImplementsLock, Lock!Spec

---------------------------------------------------------------------------
(* Priority.  What the wire carries is the bitwise AND of what is written. *)

Powers4 == {1, 2, 4, 8}
Powers8 == Powers4 \cup {16, 32, 64, 128}

Bit(byte, power) == (byte \div power) % 2

LEMMA NibbleBits ==
  ASSUME NEW x \in Nibbles, NEW y \in Nibbles, x <= y, NEW power \in Powers4,
         Bit(x, power) = 1
  PROVE  Bit(y, power) = 1
<1>1. CASE power = 1
  BY <1>1 DEF Bit, Nibbles
<1>2. CASE power = 2
  BY <1>2 DEF Bit, Nibbles
<1>3. CASE power = 4
  BY <1>3 DEF Bit, Nibbles
<1>4. CASE power = 8
  BY <1>4 DEF Bit, Nibbles
<1>5. QED
  BY <1>1, <1>2, <1>3, <1>4 DEF Powers4

LEMMA ByteBits ==
  ASSUME NEW h \in Nibbles, NEW l \in Nibbles, NEW power \in Powers4
  PROVE  /\ Bit(16 * h + l, power) = Bit(l, power)
         /\ Bit(16 * h + l, 16 * power) = Bit(h, power)
<1>1. h \in 0..15 /\ l \in 0..15
  BY DEF Nibbles
<1>2. CASE power = 1
  BY <1>1, <1>2 DEF Bit
<1>3. CASE power = 2
  BY <1>1, <1>3 DEF Bit
<1>4. CASE power = 4
  BY <1>1, <1>4 DEF Bit
<1>5. CASE power = 8
  BY <1>1, <1>5 DEF Bit
<1>6. QED
  BY <1>2, <1>3, <1>4, <1>5 DEF Powers4

(* The wired AND has the least of both nibbles.                            *)
LEMMA WiredAndParts ==
  ASSUME WritesAfterSyn, NEW W \in SUBSET Writers, W # {}
  PROVE  \E h, l \in Nibbles :
           /\ WiredAnd(W) = 16 * h + l
           /\ \E n \in W : h = Addr[n] \div 16
           /\ \E n \in W : l = Addr[n] % 16
           /\ \A n \in W : h <= Addr[n] \div 16 /\ l <= Addr[n] % 16
<1>1. \A n \in W : n \in Nodes /\ written[n] = {Addr[n]} /\ Addr[n] \in MasterAddresses
  BY LineAssumption DEF Writers, WritesAfterSyn
<1>2. Bytes(W) = {Addr[n] : n \in W}
  BY <1>1 DEF Bytes
<1> DEFINE high == {b \div 16 : b \in Bytes(W)}
           low  == {b % 16 : b \in Bytes(W)}
<1>3. high \in SUBSET Nibbles /\ high # {} /\ low \in SUBSET Nibbles /\ low # {}
  BY <1>1, <1>2, NibblesOfMaster
<1>4. /\ Smallest(high) \in high /\ \A x \in high : Smallest(high) <= x
      /\ Smallest(low) \in low /\ \A x \in low : Smallest(low) <= x
  <2> HIDE DEF high, low
  <2>1. QED
    BY <1>3, SmallestIsLeast
<1>5. WiredAnd(W) = 16 * Smallest(high) + Smallest(low)
  BY DEF WiredAnd
<1> DEFINE h == Smallest(high)
           l == Smallest(low)
<1>6. h \in high /\ l \in low /\ (\A x \in high : h <= x) /\ (\A x \in low : l <= x)
  BY <1>4
<1>7. WiredAnd(W) = 16 * h + l
  BY <1>5
<1> HIDE DEF h, l
<1>8. \A n \in W : Addr[n] \div 16 \in high /\ Addr[n] % 16 \in low
  BY <1>2
<1>9. (\E n \in W : h = Addr[n] \div 16) /\ (\E n \in W : l = Addr[n] % 16)
  BY <1>2, <1>6
<1>10. h \in Nibbles /\ l \in Nibbles
  BY <1>3, <1>6
<1> HIDE DEF high, low
<1>11. QED
  BY <1>6, <1>7, <1>8, <1>9, <1>10

(* The model's rule for two masters that write at once, the smaller of     *)
(* each nibble, is what a wired AND does: a bit is on the wire if and only *)
(* if all write it.                                                        *)
THEOREM WiredAndIsAnd ==
  ASSUME WritesAfterSyn, NEW W \in SUBSET Writers, W # {}, NEW power \in Powers8
  PROVE  Bit(WiredAnd(W), power) = 1 <=> \A n \in W : Bit(Addr[n], power) = 1
<1>1. PICK h \in Nibbles, l \in Nibbles :
        /\ WiredAnd(W) = 16 * h + l
        /\ \E n \in W : h = Addr[n] \div 16
        /\ \E n \in W : l = Addr[n] % 16
        /\ \A n \in W : h <= Addr[n] \div 16 /\ l <= Addr[n] % 16
  BY WiredAndParts
<1> DEFINE High(n) == Addr[n] \div 16
           Low(n)  == Addr[n] % 16
<1>2. ASSUME NEW n \in W
      PROVE  /\ High(n) \in Nibbles /\ Low(n) \in Nibbles
             /\ Addr[n] = 16 * High(n) + Low(n)
  <2>1. n \in Nodes /\ Addr[n] \in MasterAddresses
    BY LineAssumption DEF Writers
  <2>2. Addr[n] \in 0..255
    BY <2>1, AddrType DEF Symbols
  <2>3. Addr[n] = 16 * (Addr[n] \div 16) + (Addr[n] % 16)
    BY <2>2
  <2>4. QED
    BY <2>1, <2>3, NibblesOfMaster
<1>3. /\ \E n \in W : h = High(n)
      /\ \E n \in W : l = Low(n)
      /\ \A n \in W : h <= High(n) /\ l <= Low(n)
  BY <1>1
<1> HIDE DEF High, Low
<1>4. CASE power \in Powers4
  <2>1. Bit(WiredAnd(W), power) = Bit(l, power)
    BY <1>1, <1>4, ByteBits
  <2>2. \A n \in W : Bit(Addr[n], power) = Bit(Low(n), power)
    BY <1>2, <1>4, ByteBits
  <2>3. \A n \in W : Bit(l, power) = 1 => Bit(Low(n), power) = 1
    BY <1>2, <1>3, <1>4, NibbleBits
  <2>4. QED
    BY <1>3, <2>1, <2>2, <2>3
<1>5. CASE \E q \in Powers4 : power = 16 * q
  <2>1. PICK q \in Powers4 : power = 16 * q
    BY <1>5
  <2>2. Bit(WiredAnd(W), power) = Bit(h, q)
    BY <1>1, <2>1, ByteBits
  <2>3. \A n \in W : Bit(Addr[n], power) = Bit(High(n), q)
    BY <1>2, <2>1, ByteBits
  <2>4. \A n \in W : Bit(h, q) = 1 => Bit(High(n), q) = 1
    BY <1>2, <1>3, NibbleBits
  <2>5. QED
    BY <1>3, <2>2, <2>3, <2>4
<1>6. QED
  BY <1>4, <1>5 DEF Powers4, Powers8

LEMMA WiredAndClass ==
  ASSUME WritesAfterSyn, NEW W \in SUBSET Writers, W # {}
  PROVE  /\ \E n \in W : Class(WiredAnd(W)) = Class(Addr[n])
         /\ \A n \in W : Class(WiredAnd(W)) <= Class(Addr[n])
<1>1. PICK h \in Nibbles, l \in Nibbles :
        /\ WiredAnd(W) = 16 * h + l
        /\ \E n \in W : l = Addr[n] % 16
        /\ \A n \in W : l <= Addr[n] % 16
  BY WiredAndParts
<1>2. h \in 0..15 /\ l \in 0..15
  BY DEF Nibbles
<1>3. (16 * h + l) % 16 = l
  BY <1>2
<1>4. QED
  BY <1>1, <1>3 DEF Class

(* One adapter's part in the rounds.                                       *)
LEMMA ReceiveRounds ==
  ASSUME NEW t \in Adapters, NEW s \in Slots, NEW symbol \in Symbols,
         NEW behind, NEW A \in Symbols, Sound(t, s, A),
         NEW r, r = Receive(t, s, symbol, behind),
         NEW bus, bus = BusData(t.bus, symbol)
  PROVE  /\ r.adapter.bus = bus
         /\ r.adapter.arb.arbitrating /\ bus.state = "received_first_syn" =>
              r.written = {A} /\ ~r.adapter.arb.second
         /\ r.written # {} /\ bus.state # "received_first_syn" =>
              r.adapter.arb.second
         /\ r.adapter.arb.arbitrating /\ bus.state # "received_first_syn" =>
              /\ t.arb.arbitrating
              /\ r.adapter.arb.second = (t.arb.second \/ JoinsSecond(bus, t.arb, symbol))
         /\ r.outcome \in Won => symbol = A /\ t.arb.arbitrating
<1> DEFINE outcome == ArbOutcome(bus, t.arb, symbol)
           arb     == ArbAfter(bus, t.arb, symbol)
           starts  == /\ outcome \in Idle
                      /\ s.client >= 0
                      /\ StartResult(bus, arb, s.address, behind) = "started"
           second  == WritesSecond(bus, t.arb, behind)
<1>1. /\ bus \in Buses
      /\ t.bus \in Buses /\ t.arb \in Arbs
  BY BusDataFacts DEF Adapters
<1>2. /\ outcome = "arbitrating" => bus.state # "received_first_syn" /\ t.arb.arbitrating
      /\ outcome \in Won => symbol = t.arb.address /\ t.arb.arbitrating
  BY <1>1, OutcomeFacts DEF AddressSeen, Won
<1>3. starts => bus.state = "received_first_syn" /\ s = [client |-> Client, address |-> A]
  BY DEF StartResult, Sound, EmptySlot, NoFd
<1>4. /\ arb.arbitrating = (outcome = "arbitrating")
      /\ arb.second = (t.arb.second \/ JoinsSecond(bus, t.arb, symbol))
  BY DEF ArbAfter
<1>5. second => bus.state = "received_second_syn" /\ t.arb.second
  BY DEF WritesSecond
<1>6. /\ ArbStart(arb, A).arbitrating = TRUE
      /\ ArbStart(arb, A).second = FALSE
  <2>1. arb \in Arbs
    BY <1>1, ArbAfterType
  <2> HIDE DEF arb
  <2>2. QED
    BY <2>1 DEF ArbStart, Arbs
<1>7. /\ r.outcome = outcome
      /\ r.adapter.bus = bus
      /\ r.adapter.arb = IF starts THEN ArbStart(arb, s.address) ELSE arb
      /\ r.written = (IF starts THEN {s.address} ELSE {}) \cup
                     (IF second THEN {t.arb.address} ELSE {})
  <2> HIDE DEF outcome, arb, starts, second
  <2>1. /\ r.outcome = outcome
        /\ r.adapter = [bus |-> bus,
                        arb |-> IF starts THEN ArbStart(arb, s.address) ELSE arb,
                        fd |-> IF outcome \in Done THEN NoFd
                               ELSE IF outcome \in Idle THEN s.client ELSE t.fd]
        /\ r.written = (IF starts THEN {s.address} ELSE {}) \cup
                       (IF second THEN {t.arb.address} ELSE {})
    BY ReceiveFields DEF outcome, arb, starts, second
  <2>2. QED
    BY <2>1
<1>8. outcome # "none" => t.arb.arbitrating
  BY <1>1, OutcomeFacts
<1>9. t.arb.arbitrating => t.arb.address = A
  BY DEF Sound
<1> HIDE DEF outcome, arb, starts, second
<1>10. CASE starts
  BY <1>2, <1>3, <1>5, <1>6, <1>7, <1>9, <1>10
<1>11. CASE ~starts
  BY <1>2, <1>4, <1>5, <1>7, <1>9, <1>11
<1>12. QED
  BY <1>10, <1>11

(* Where the class of the bus leads: from the address seen in one round to *)
(* the next.                                                               *)
LEMMA BusRounds ==
  ASSUME NEW b \in Buses, NEW symbol \in Symbols, NEW bus, bus = BusData(b, symbol)
  PROVE  /\ symbol = SYN /\ bus.state # "received_first_syn" =>
              bus.state # "received_second_syn" \/ b.state = "received_address_after_first_syn"
         /\ symbol = SYN => bus.master = IF b.state \in AddressDue THEN symbol ELSE b.master
         /\ bus.state = "received_address_after_first_syn" => b.state = "received_first_syn"
         /\ bus.state = "received_address_after_second_syn" => b.state = "received_second_syn"
BY DEF BusData, OnSyn, OnSymbol, AddressDue

(* What the next symbol says to a competitor when nothing gets lost.       *)
LEMMA WireClass ==
  ASSUME ClassIInv, Writers # {}, NEW m \in Nodes,
         adapter[m].arb.arbitrating, adapter[m].bus.state \in AddressDue
  PROVE  /\ Class(WiredAnd(Writers)) <= Class(Addr[m])
         /\ adapter[m].bus.state = "received_second_syn" =>
              Class(WiredAnd(Writers)) = Class(adapter[m].bus.master)
<1> USE DEF ClassIInv, IInv
<1>1. /\ \E n \in Writers : Class(WiredAnd(Writers)) = Class(Addr[n])
      /\ \A n \in Writers : Class(WiredAnd(Writers)) <= Class(Addr[n])
  BY WiredAndClass
<1>2. CASE adapter[m].bus.state = "received_first_syn"
  <2>1. m \in Writers
    BY <1>2 DEF RoundsWrite, Writers
  <2>2. QED
    BY <1>1, <1>2, <2>1
<1>3. CASE adapter[m].bus.state = "received_second_syn"
  <2>1. ASSUME NEW n \in Writers
        PROVE  Class(Addr[n]) = Class(adapter[m].bus.master)
    <3>1. /\ n \in Nodes /\ written[n] # {}
          /\ adapter[n].bus = adapter[m].bus
      BY DEF Writers, SameBeat
    <3>2. adapter[n].arb.second /\ adapter[n].arb.arbitrating
      BY <1>3, <3>1 DEF RoundsWrite, WritesAfterSyn
    <3>3. QED
      BY <1>3, <3>1, <3>2 DEF RoundsNarrow
  <2>2. Class(adapter[m].bus.master) <= Class(Addr[m])
    BY <1>3 DEF RoundsNarrow
  <2>3. QED
    BY <1>1, <2>1, <2>2
<1>4. QED
  BY <1>2, <1>3 DEF AddressDue

LEMMA ClassStep ==
  ASSUME ClassIInv, IInv', NEW symbol \in Symbols, NEW behind, Symbol(symbol, behind),
         symbol # SYN => holds # {} \/ (Writers # {} /\ symbol = WiredAnd(Writers))
  PROVE  /\ SameBeat' /\ RoundsWrite' /\ RoundsNarrow'
         /\ \A n \in holds' \ holds : \A m \in Nodes :
              adapter[m].arb.arbitrating => Class(Addr[n]) <= Class(Addr[m])
<1> DEFINE r(n)   == Reaction(n, symbol, behind)
           bus(n) == BusData(adapter[n].bus, symbol)
<1> USE DEF ClassIInv, IInv
<1>1. /\ adapter' = [n \in Nodes |-> r(n).adapter]
      /\ written' = [n \in Nodes |-> r(n).written]
      /\ holds' = IF symbol = SYN THEN {}
                  ELSE holds \cup {n \in Nodes : r(n).outcome \in Won}
  BY DEF Symbol
<1>2. ASSUME NEW n \in Nodes
      PROVE  /\ adapter[n] \in Adapters
             /\ slot[n] \in Slots
             /\ adapter[n].bus \in Buses
             /\ Sound(adapter[n], slot[n], Addr[n])
             /\ Addr[n] \in Symbols
             /\ r(n) = Receive(adapter[n], slot[n], symbol, n \in behind)
  BY AddrType DEF TypeOK, AllSound, Reaction, Adapters
<1>3. ASSUME NEW n \in Nodes
      PROVE  /\ r(n).adapter.bus = bus(n)
             /\ r(n).adapter.arb.arbitrating /\ bus(n).state = "received_first_syn" =>
                  r(n).written = {Addr[n]} /\ ~r(n).adapter.arb.second
             /\ r(n).written # {} /\ bus(n).state # "received_first_syn" =>
                  r(n).adapter.arb.second
             /\ r(n).adapter.arb.arbitrating /\ bus(n).state # "received_first_syn" =>
                  /\ adapter[n].arb.arbitrating
                  /\ r(n).adapter.arb.second =
                       (adapter[n].arb.second \/ JoinsSecond(bus(n), adapter[n].arb, symbol))
  <2> HIDE DEF r
  <2>1. QED
    BY <1>2, ReceiveRounds
<1>4. ASSUME NEW n \in Nodes
      PROVE  r(n).outcome \in Won =>
               /\ symbol = Addr[n] /\ symbol # SYN
               /\ adapter[n].bus.state \in AddressDue
  <2> HIDE DEF r
  <2>1. QED
    BY <1>2, ReceiveFacts
<1> HIDE DEF r
<1>5. ASSUME NEW n \in Nodes, symbol # SYN, adapter[n].bus.state \in AddressDue
      PROVE  Writers # {} /\ symbol = WiredAnd(Writers)
  BY <1>5, StateSets DEF FreeAfterSyn
<1>6. \A n \in Nodes : adapter'[n].bus = bus(n)
  BY <1>1, <1>3
<1>7. SameBeat'
  BY <1>6 DEF SameBeat
<1>8. RoundsWrite'
  <2>1. "received_second_syn" # "received_first_syn"
    OBVIOUS
  <2>2. QED
    BY <1>1, <1>3, <1>6, <2>1 DEF RoundsWrite
<1>9. RoundsNarrow'
  <2>1. SUFFICES ASSUME NEW n \in Nodes, adapter'[n].arb.arbitrating,
                        bus(n).state # "received_first_syn"
                 PROVE  /\ Class(bus(n).master) <= Class(Addr[n])
                        /\ adapter'[n].arb.second => Class(bus(n).master) = Class(Addr[n])
    BY <1>6 DEF RoundsNarrow
  <2>2. /\ adapter[n].arb.arbitrating
        /\ adapter'[n].arb.second =
             (adapter[n].arb.second \/ JoinsSecond(bus(n), adapter[n].arb, symbol))
    BY <1>1, <1>3, <2>1
  <2>3. bus(n).state \in AddressDue \cup AddressSeen
    BY <1>6, <2>1 DEF AllSound, Sound
  <2>4. CASE bus(n).state = "received_second_syn"
    <3>1. symbol = SYN /\ adapter[n].bus.state = "received_address_after_first_syn"
      BY <1>2, <2>1, <2>4, BusRounds, BusDataFacts, StateSets DEF AddressDue
    <3>2. bus(n).master = adapter[n].bus.master
      BY <1>2, <3>1, BusRounds DEF AddressDue
    <3>3. ~JoinsSecond(bus(n), adapter[n].arb, symbol)
      BY <2>4 DEF JoinsSecond
    <3>4. QED
      BY <2>2, <3>1, <3>2, <3>3 DEF RoundsNarrow
  <2>5. CASE bus(n).state = "received_address_after_first_syn"
    <3>1. symbol # SYN /\ bus(n).master = symbol
      BY <1>2, <2>5, BusDataFacts, StateSets DEF AddressSeen
    <3>2. adapter[n].bus.state = "received_first_syn"
      BY <1>2, <2>5, BusRounds
    <3>3. Class(symbol) <= Class(Addr[n])
      BY <1>5, <2>2, <3>1, <3>2, WireClass DEF AddressDue
    <3>4. ~adapter[n].arb.second
      BY <2>2, <3>2 DEF RoundsWrite
    <3>5. JoinsSecond(bus(n), adapter[n].arb, symbol) => Class(symbol) = Class(Addr[n])
      BY <2>2 DEF JoinsSecond, AllSound, Sound
    <3>6. QED
      BY <2>2, <3>1, <3>3, <3>4, <3>5
  <2>6. CASE bus(n).state = "received_address_after_second_syn"
    <3>1. symbol # SYN /\ bus(n).master = symbol
      BY <1>2, <2>6, BusDataFacts, StateSets DEF AddressSeen
    <3>2. adapter[n].bus.state = "received_second_syn"
      BY <1>2, <2>6, BusRounds
    <3>3. /\ Class(symbol) <= Class(Addr[n])
          /\ Class(symbol) = Class(adapter[n].bus.master)
      BY <1>5, <2>2, <3>1, <3>2, WireClass DEF AddressDue
    <3>4. ~JoinsSecond(bus(n), adapter[n].arb, symbol)
      BY <2>6 DEF JoinsSecond
    <3>5. QED
      BY <2>2, <3>1, <3>2, <3>3, <3>4 DEF RoundsNarrow
  <2>7. QED
    BY <2>1, <2>3, <2>4, <2>5, <2>6 DEF AddressDue, AddressSeen
<1>10. ASSUME NEW n \in holds' \ holds, NEW m \in Nodes, adapter[m].arb.arbitrating
       PROVE  Class(Addr[n]) <= Class(Addr[m])
  <2>1. n \in Nodes /\ r(n).outcome \in Won
    BY <1>1, <1>10
  <2>2. /\ symbol = Addr[n] /\ symbol # SYN
        /\ adapter[n].bus.state \in AddressDue
    BY <1>4, <2>1
  <2>3. adapter[m].bus.state \in AddressDue
    BY <2>1, <2>2 DEF SameBeat
  <2>4. QED
    BY <1>5, <1>10, <2>1, <2>2, <2>3, WireClass
<1>11. QED
  BY <1>7, <1>8, <1>9, <1>10

(* What a line of adapters is of which none reboots and none is lost.      *)
LEMMA InitClass == Init => ClassIInv
<1>1. BusTypeInit.arb.arbitrating = FALSE
  BY DEF BusTypeInit, ArbInit
<1>2. QED
  BY <1>1, InitInv DEF Init, ClassIInv, SameBeat, RoundsWrite, RoundsNarrow

LEMMA NextClass ==
  ASSUME ~Lossy, ~Reboots, ClassIInv, [Next]_vars
  PROVE  /\ ClassIInv'
         /\ \A n \in holds' \ holds : \A m \in Nodes :
              adapter[m].arb.arbitrating => Class(Addr[n]) <= Class(Addr[m])
<1> DEFINE Best == \A n \in holds' \ holds : \A m \in Nodes :
                     adapter[m].arb.arbitrating => Class(Addr[n]) <= Class(Addr[m])
           Goal == SameBeat' /\ RoundsWrite' /\ RoundsNarrow' /\ Best
<1>1. IInv'
  BY NextInv DEF ClassIInv
<1>2. ASSUME UNCHANGED <<adapter, written, holds>>
      PROVE  Goal
  BY <1>2 DEF ClassIInv, SameBeat, RoundsWrite, RoundsNarrow
<1>3. ASSUME NEW n \in Nodes, Request(n) \/ Cancel(n)
      PROVE  Goal
  BY <1>2, <1>3 DEF Request, Cancel
<1>4. ASSUME NEW behind \in SUBSET Nodes, Contend(behind)
      PROVE  Goal
  <2>1. Writers # {} /\ Symbol(WiredAnd(Writers), behind)
    BY <1>4 DEF Contend
  <2>2. WiredAnd(Writers) \in Symbols
    BY <2>1, WiredAndType DEF ClassIInv, IInv
  <2>3. QED
    BY <1>1, <2>1, <2>2, ClassStep
<1>5. ASSUME NEW behind \in SUBSET Nodes, Syn(behind)
      PROVE  Goal
  <2>1. SYN \in Symbols
    BY DEF SYN, Symbols
  <2>2. QED
    BY <1>1, <1>5, <2>1, ClassStep DEF Syn
<1>6. ASSUME NEW behind \in SUBSET Nodes, Transmit(behind)
      PROVE  Goal
  <2>1. holds # {} /\ \E byte \in Payload : Symbol(byte, behind)
    BY <1>6 DEF Transmit
  <2>2. QED
    BY <1>1, <2>1, ClassStep, LineAssumption
<1>7. Goal
  <2>1. CASE UNCHANGED vars
    BY <1>2, <2>1 DEF vars
  <2>2. \A n \in Nodes : ~Reboot(n)
    BY DEF Reboot
  <2>3. QED
    BY <1>3, <1>4, <1>5, <1>6, <2>1, <2>2 DEF Next
<1>8. QED
  BY <1>1, <1>7 DEF ClassIInv

(* When no written address gets lost and no adapter boots while others are *)
(* at work, all adapters see the same bus, all competitors write in the    *)
(* first round, and only those of its best class in the second.            *)
THEOREM RoundsInvariance ==
  ASSUME ~Lossy, ~Reboots
  PROVE  Spec => []ClassIInv
<1>1. ClassIInv /\ [Next]_vars => ClassIInv'
  BY NextClass
<1>2. QED
  BY <1>1, InitClass, PTL DEF Spec

(* The arbitration respects the priority classes: whoever wins, in either  *)
(* round, has the best class of all who competed.                          *)
THEOREM BestPriorityWins ==
  ASSUME ~Lossy, ~Reboots
  PROVE  Spec => BestClassWins
<1>1. ClassIInv /\ [Next]_vars =>
        [\A n \in holds' \ holds : \A m \in Nodes :
           adapter[m].arb.arbitrating => Class(Addr[n]) <= Class(Addr[m])]_vars
  BY NextClass
<1>2. QED
  BY <1>1, RoundsInvariance, PTL DEF Spec, BestClassWins
=============================================================================
