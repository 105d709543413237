--------------------------- MODULE BusTypeProofs ---------------------------
(***************************************************************************)
(* What a symbol does to one adapter: lemmas about BusState, Arbitration   *)
(* and BusType that the proofs about EbusLine and Bridge share.            *)
(***************************************************************************)
EXTENDS BusType, TLAPS

---------------------------------------------------------------------------
(* The bus state machine.                                                  *)

LEMMA OnSynStates ==
  ASSUME NEW s \in BusStates
  PROVE  /\ OnSyn(s) \in AfterSyn
         /\ s \in AddressDue => OnSyn(s) = "received_first_syn"
         /\ s \in AddressSeen => OnSyn(s) \in AddressDue
BY DEF OnSyn, BusStates, AfterSyn, AddressDue, AddressSeen

LEMMA OnSymbolStates ==
  ASSUME NEW s \in BusStates
  PROVE  /\ OnSymbol(s) \in AfterSymbol \cup {"startup"}
         /\ OnSymbol(s) \in AddressSeen <=> s \in AddressDue
         /\ s \in AddressSeen => OnSymbol(s) = "busy"
         /\ s \in AfterSymbol => OnSymbol(s) = "busy"
BY DEF OnSymbol, BusStates, AfterSymbol, AddressDue, AddressSeen

LEMMA StateSets ==
  /\ AfterSyn \subseteq BusStates
  /\ AfterSymbol \subseteq BusStates
  /\ AddressDue \subseteq AfterSyn
  /\ AddressSeen \subseteq AfterSymbol
  /\ AfterSyn \cap AfterSymbol = {}
  /\ "busy" \in AfterSymbol
  /\ "busy" \notin AddressSeen
  /\ "startup" \in BusStates
  /\ "startup" \notin AfterSyn
  /\ "startup" \notin AfterSymbol
BY DEF AfterSyn, AfterSymbol, AddressDue, AddressSeen, BusStates

LEMMA BusDataFacts ==
  ASSUME NEW b \in Buses, NEW symbol \in Symbols
  PROVE  /\ BusData(b, symbol) \in Buses
         /\ symbol = SYN => BusData(b, symbol).state \in AfterSyn
         /\ symbol # SYN =>
              /\ BusData(b, symbol).state \in AfterSymbol \cup {"startup"}
              /\ BusData(b, symbol).state \in AddressSeen =>
                   /\ b.state \in AddressDue
                   /\ BusData(b, symbol).master = symbol
              /\ b.state \in AddressDue => BusData(b, symbol).state \in AddressSeen
              /\ b.state \in AddressSeen =>
                   /\ BusData(b, symbol).state = "busy"
                   /\ BusData(b, symbol).master = b.master
         /\ symbol = SYN /\ b.state \in AddressDue \cup AddressSeen =>
              BusData(b, symbol).state \in AddressDue
<1>1. b.state \in BusStates /\ b.master \in Symbols
  BY DEF Buses
<1>2. AddressDue \cap AddressSeen = {}
  BY StateSets
<1>3. BusData(b, symbol).state =
        IF symbol = SYN THEN OnSyn(b.state) ELSE OnSymbol(b.state)
  BY DEF BusData
<1>4. BusData(b, symbol).master =
        IF b.state \in AddressDue THEN symbol ELSE b.master
  BY DEF BusData, AddressDue
<1>5. OnSyn(b.state) \in BusStates /\ OnSymbol(b.state) \in BusStates
  BY <1>1, OnSynStates, OnSymbolStates, StateSets
<1>6. BusData(b, symbol) \in Buses
  BY <1>1, <1>5 DEF BusData, Buses
<1>7. QED
  BY <1>1, <1>2, <1>3, <1>4, <1>6, OnSynStates, OnSymbolStates
     DEF AddressDue

LEMMA ArbAfterType ==
  ASSUME NEW b \in Buses, NEW a \in Arbs, NEW symbol \in Symbols
  PROVE  ArbAfter(b, a, symbol) \in Arbs
<1>1. JoinsSecond(b, a, symbol) \in BOOLEAN
  BY DEF JoinsSecond
<1>2. QED
  BY <1>1 DEF ArbAfter, Arbs

(* What the outcomes of Arbitration::data say about the symbol and the bus *)
(* state b it led to.                                                      *)
LEMMA OutcomeFacts ==
  ASSUME NEW b \in Buses, NEW a \in Arbs, NEW symbol \in Symbols
  PROVE  /\ ArbOutcome(b, a, symbol) \in Idle \cup Done \cup {"arbitrating"}
         /\ ArbOutcome(b, a, symbol) \notin {"none"} => a.arbitrating
         /\ ArbOutcome(b, a, symbol) \in Won =>
              b.state \in AddressSeen /\ symbol = a.address
         /\ ArbOutcome(b, a, symbol) \in Lost => b.state = "busy"
         /\ ArbOutcome(b, a, symbol) = "arbitrating" =>
              b.state \in AddressSeen \cup {"received_second_syn"}
<1>1. b.state \in BusStates
  BY DEF Buses
<1>2. CASE ~a.arbitrating
  BY <1>2 DEF ArbOutcome, Idle, Done, Won, Lost
<1>3. CASE /\ a.arbitrating
           /\ b.state \in {"startup", "startup_first_syn",
                "startup_symbol_after_first_syn", "startup_second_syn",
                "received_first_syn"}
  <2>1. ArbOutcome(b, a, symbol) = RestartOutcome(b, a)
    BY <1>3 DEF ArbOutcome
  <2>2. RestartOutcome(b, a) \in {"restart1", "restart2", "error"}
    BY DEF RestartOutcome
  <2>3. QED
    BY <1>3, <2>1, <2>2 DEF Idle, Done, Won, Lost
<1>4. CASE a.arbitrating /\ b.state \in AddressSeen
  BY <1>4 DEF ArbOutcome, Idle, Done, Won, Lost, AddressSeen
<1>5. CASE a.arbitrating /\ b.state = "received_second_syn"
  BY <1>5 DEF ArbOutcome, Idle, Done, Won, Lost, AddressSeen
<1>6. CASE a.arbitrating /\ b.state = "busy"
  BY <1>6 DEF ArbOutcome, Idle, Done, Won, Lost
<1>7. QED
  BY <1>1, <1>2, <1>3, <1>4, <1>5, <1>6 DEF BusStates, AddressSeen

---------------------------------------------------------------------------
(* One adapter's reaction to a symbol.                                     *)

LEMMA ReceiveFields ==
  ASSUME NEW t, NEW s, NEW symbol, NEW behind
  PROVE  LET bus     == BusData(t.bus, symbol)
             outcome == ArbOutcome(bus, t.arb, symbol)
             arb     == ArbAfter(bus, t.arb, symbol)
             starts  == /\ outcome \in Idle
                        /\ s.client >= 0
                        /\ StartResult(bus, arb, s.address, behind) = "started"
             r       == Receive(t, s, symbol, behind)
         IN /\ r.outcome = outcome
            /\ r.adapter = [bus |-> bus,
                            arb |-> IF starts THEN ArbStart(arb, s.address) ELSE arb,
                            fd |-> IF outcome \in Done THEN NoFd
                                   ELSE IF outcome \in Idle THEN s.client ELSE t.fd]
            /\ r.slot = IF outcome \in Done THEN EmptySlot ELSE s
            /\ r.written = (IF starts THEN {s.address} ELSE {}) \cup
                           (IF WritesSecond(bus, t.arb, behind)
                            THEN {t.arb.address} ELSE {})
BY DEF Receive
=============================================================================
