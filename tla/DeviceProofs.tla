---------------------------- MODULE DeviceProofs ----------------------------
(***************************************************************************)
(* Proofs about Device, for any settings, requests, images, rules and      *)
(* bounds.  The parts share no variable, so that each has an invariant of  *)
(* its own; they meet in the restart and in QuietFlash.                    *)
(***************************************************************************)
EXTENDS Device, SequenceTheorems, TLAPS

---------------------------------------------------------------------------
(* The parts of IInv.                                                      *)

SettingsTyped ==
  /\ nvs \in [Known -> Values \cup {Empty, Absent}]
  /\ config \in [Known -> Values \cup {Empty}]
  /\ staging \in [Known -> Values \cup {Empty}]
  /\ unsaved \in Seq(Known) /\ outcome \in {"none", "good", "bad"}
  /\ given \in SUBSET Known
  /\ promised \in [Known -> Values \cup {Empty, Absent}]

SettingsOK == SettingsTyped /\ SavesInOrder

UpgradeTyped ==
  /\ place \in [Updaters -> {"idle", "stopping", "prepared", "open", "ended", "restarting"}]
  /\ hooked \in [Updaters -> BOOLEAN] /\ services \in BOOLEAN
  /\ slot \in [1..Pieces -> SUBSET Updaters]
  /\ written \in [Updaters -> 0..Pieces] /\ selected \in BOOLEAN
  /\ openers \in SUBSET Updaters

UpgradeOK == UpgradeTyped /\ StopsFirst /\ Selects

WifiOK ==
  /\ sta \in {"trying", "up", "deferred", "unset", "refused"} /\ mode \in {"apsta", "sta"}
  /\ guests \in BOOLEAN /\ led \in {"blink", "solid"} /\ address \in BOOLEAN /\ router \in BOOLEAN
  /\ WifiTells

CronOK ==
  /\ rules \in SUBSET Rules /\ last \in [Rules -> Minutes \cup {-1}]
  /\ file \in SUBSET Rules /\ clock \in Minutes
  /\ executed \in SUBSET (Rules \X Minutes)
  /\ Noted

LEMMA Parted ==
  /\ IInv => SettingsOK /\ UpgradeOK /\ WifiOK /\ CronOK /\ budget \in [Outside -> Nat]
  /\ SettingsOK /\ UpgradeOK /\ WifiOK /\ CronOK /\ budget \in [Outside -> Nat] => IInv
  /\ SettingsOK' /\ UpgradeOK' /\ WifiOK' /\ CronOK' /\ budget' \in [Outside -> Nat] => IInv'
BY DEF IInv, TypeOK, SettingsOK, SettingsTyped, UpgradeOK, UpgradeTyped, WifiOK, CronOK

(* What a part leaves alone keeps its invariant.                           *)
LEMMA Untouched ==
  /\ SettingsOK /\ UNCHANGED settingsVars => SettingsOK'
  /\ UpgradeOK /\ UNCHANGED upgradeVars => UpgradeOK'
  /\ WifiOK /\ UNCHANGED wifiVars => WifiOK'
  /\ CronOK /\ UNCHANGED cronVars => CronOK'
<1>1. SettingsOK /\ UNCHANGED settingsVars => SettingsOK'
  BY DEF settingsVars, SettingsOK, SettingsTyped, SavesInOrder
<1>2. UpgradeOK /\ UNCHANGED upgradeVars => UpgradeOK'
  BY DEF upgradeVars, UpgradeOK, UpgradeTyped, StopsFirst, Selects, Whole
<1>3. WifiOK /\ UNCHANGED wifiVars => WifiOK'
  BY DEF wifiVars, WifiOK, WifiTells
<1>4. CronOK /\ UNCHANGED cronVars => CronOK'
  BY DEF cronVars, CronOK, Noted
<1>5. QED
  BY <1>1, <1>2, <1>3, <1>4

---------------------------------------------------------------------------
(* Settings                                                                *)

LEMMA Order ==
  /\ SaveOrder \in Seq(Known) /\ Len(SaveOrder) \in Nat
  /\ \A i \in 1..Len(SaveOrder) : SaveOrder[i] \in Known
  /\ \A k \in Known : \E i \in 1..Len(SaveOrder) : SaveOrder[i] = k
<1>1. SaveOrder \in Seq(Known) /\ Len(SaveOrder) \in Nat /\ DOMAIN SaveOrder = 1..Len(SaveOrder)
  BY SettingsAssumption
<1>2. \A k \in Known : \E i \in 1..Len(SaveOrder) : SaveOrder[i] = k
  BY <1>1 DEF Known
<1>3. QED
  BY <1>1, <1>2, ElementOfSeq

LEMMA BlankFacts ==
  /\ Blank \in [Known -> Values \cup {Empty, Absent}]
  /\ \A k \in Known : Blank[k] = Absent
  /\ Flags \subseteq Known /\ Empty # Absent
BY SettingsAssumption DEF Blank

LEMMA ReadBack ==
  ASSUME NEW store \in [Known -> Values \cup {Empty, Absent}]
  PROVE  /\ Loaded(store) \in [Known -> Values \cup {Empty}]
         /\ \A k \in Known : Loaded(store)[k] = Empty => k \notin Flags /\ Default[k] = Empty
BY SettingsAssumption DEF Loaded, Read

LEMMA MergedFacts ==
  ASSUME SettingsOK, NEW body \in Bodies
  PROVE  /\ Merged(body) \in [Known -> Values \cup {Empty}]
         /\ \A k \in Known :
              LET said == k \in DOMAIN body /\ ~(k \in Secrets /\ body[k] = Empty) IN
              /\ ~said => Merged(body)[k] = config[k]
              /\ k \in Flags => Merged(body)[k] # Empty
<1>1. Off \in Values /\ Empty \notin Values /\ Secrets \cap Flags = {}
  BY SettingsAssumption
<1>2. /\ config \in [Known -> Values \cup {Empty}]
      /\ \A k \in Known : config[k] = Empty => k \notin Flags
  BY DEF SettingsOK, SettingsTyped, SavesInOrder
<1>3. DOMAIN body \subseteq Known /\ \A k \in DOMAIN body : body[k] \in Values \cup {Empty}
  BY SettingsAssumption
<1>4. ASSUME NEW k \in Known
      PROVE  /\ Merged(body)[k] \in Values \cup {Empty}
             /\ ~(k \in DOMAIN body /\ ~(k \in Secrets /\ body[k] = Empty))
                  => Merged(body)[k] = config[k]
             /\ k \in Flags => Merged(body)[k] # Empty
  <2>1. Merged(body)[k] =
          IF k \notin DOMAIN body \/ (k \in Secrets /\ body[k] = Empty) THEN config[k]
          ELSE IF k \in Flags /\ body[k] = Empty THEN Off ELSE body[k]
    BY DEF Merged
  <2>2. CASE k \notin DOMAIN body \/ (k \in Secrets /\ body[k] = Empty)
    BY <1>2, <2>1, <2>2
  <2>3. CASE k \in DOMAIN body /\ ~(k \in Secrets /\ body[k] = Empty)
    BY <1>1, <1>3, <2>1, <2>3
  <2>4. QED
    BY <2>2, <2>3
<1>5. Merged(body) \in [Known -> Values \cup {Empty}]
  BY <1>4 DEF Merged
<1>6. QED
  BY <1>4, <1>5

LEMMA SettingsKept ==
  ASSUME SettingsOK
  PROVE  /\ outcome = "none" /\ ResetConfig => SettingsOK'
         /\ \A body \in Bodies : BeginSave(body) => SettingsOK'
         /\ WriteSetting => SettingsOK'
         /\ EndSave => SettingsOK'
         /\ BootSettings => SettingsOK'
<1> USE DEF SettingsOK
<1>1. ASSUME outcome = "none", ResetConfig PROVE SettingsOK'
  <2>1. SettingsTyped'
    BY <1>1, BlankFacts DEF ResetConfig, SettingsTyped
  <2>2. SavesInOrder'
    BY <1>1, BlankFacts DEF ResetConfig, SavesInOrder
  <2>3. QED
    BY <2>1, <2>2
<1>2. ASSUME NEW body \in Bodies, BeginSave(body) PROVE SettingsOK'
  <2>1. /\ staging' = Merged(body) /\ unsaved' = SaveOrder /\ outcome' = "good"
        /\ given' = {k \in DOMAIN body : ~(k \in Secrets /\ body[k] = Empty)}
        /\ promised' = [k \in Known |-> IF k \in given' THEN Absent ELSE promised[k]]
        /\ nvs' = nvs /\ config' = config
    BY <1>2 DEF BeginSave
  <2>2. DOMAIN body \subseteq Known
    BY SettingsAssumption
  <2>3. SettingsTyped'
    BY <2>1, <2>2, MergedFacts, Order DEF SettingsTyped
  <2>4. /\ Len(unsaved)' <= Len(SaveOrder)
        /\ \A i \in 1..Len(unsaved') :
             unsaved'[i] = SaveOrder[Len(SaveOrder) - Len(unsaved') + i]
    BY <2>1, Order
  <2>5. \A k \in Known : /\ k \in Flags => staging'[k] # Empty
                         /\ k \notin given' => staging'[k] = config'[k]
    BY <2>1, MergedFacts
  <2>6. \A i \in 1..(Len(SaveOrder) - Len(unsaved')) :
          nvs'[SaveOrder[i]] = staging'[SaveOrder[i]]
    BY <2>1, Order
  <2>7. \A k \in Known : config'[k] = Empty => k \notin Flags /\ Default[k] = Empty
    BY <2>1 DEF SavesInOrder
  <2>8. \A k \in Flags : k \in Known
    BY SettingsAssumption
  <2>9. \A k \in Known : promised'[k] = IF k \in given' THEN Absent ELSE promised[k]
    BY <2>1
  <2>10. /\ \A k \in given' : promised'[k] = Absent
         /\ \A k \in Flags : promised'[k] # Empty
    BY <2>1, <2>2, <2>8, <2>9, BlankFacts DEF SavesInOrder
  <2>11. SavesInOrder'
    BY <2>1, <2>4, <2>5, <2>6, <2>7, <2>8, <2>10 DEF SavesInOrder
  <2>12. QED
    BY <2>3, <2>11
<1>3. ASSUME WriteSetting PROVE SettingsOK'
  <2>1. /\ unsaved # <<>> /\ unsaved' = Tail(unsaved)
        /\ config' = config /\ staging' = staging /\ given' = given /\ promised' = promised
        /\ outcome # "none" /\ outcome' \in {outcome, "bad"}
    BY <1>3 DEF WriteSetting, SavesInOrder
  <2>2. /\ unsaved \in Seq(Known) /\ Len(unsaved) \in Nat \ {0}
        /\ Head(unsaved) = unsaved[1] /\ Head(unsaved) \in Known
        /\ Tail(unsaved) \in Seq(Known) /\ Len(Tail(unsaved)) = Len(unsaved) - 1
        /\ \A i \in 1..Len(Tail(unsaved)) : Tail(unsaved)[i] = unsaved[i + 1]
    BY <2>1, HeadTailProperties, EmptySeq, LenProperties DEF SettingsTyped
  <2>3. /\ Len(unsaved) <= Len(SaveOrder)
        /\ \A i \in 1..Len(unsaved) :
             unsaved[i] = SaveOrder[Len(SaveOrder) - Len(unsaved) + i]
    BY DEF SavesInOrder
  <2>4. nvs' \in {nvs, [nvs EXCEPT ![Head(unsaved)] = staging[Head(unsaved)]]}
    BY <1>3 DEF WriteSetting
  <2>5. SettingsTyped'
    BY <2>1, <2>2, <2>4 DEF SettingsTyped
  <2>6. /\ Len(unsaved') <= Len(SaveOrder)
        /\ \A i \in 1..Len(unsaved') :
             unsaved'[i] = SaveOrder[Len(SaveOrder) - Len(unsaved') + i]
    <3>1. ASSUME NEW i \in 1..Len(unsaved')
          PROVE  unsaved'[i] = SaveOrder[Len(SaveOrder) - Len(unsaved') + i]
      <4>1. i + 1 \in 1..Len(unsaved) /\ unsaved'[i] = unsaved[i + 1]
        BY <2>1, <2>2
      <4>2. Len(SaveOrder) - Len(unsaved) + (i + 1) = Len(SaveOrder) - Len(unsaved') + i
        BY <2>1, <2>2, Order
      <4>3. QED
        BY <2>3, <4>1, <4>2
    <3>2. QED
      BY <2>1, <2>2, <2>3, <3>1, Order
  <2>7. ASSUME outcome' = "good", NEW i \in 1..(Len(SaveOrder) - Len(unsaved'))
        PROVE  nvs'[SaveOrder[i]] = staging'[SaveOrder[i]]
    <3>1. outcome = "good" /\ nvs' = [nvs EXCEPT ![Head(unsaved)] = staging[Head(unsaved)]]
      BY <1>3, <2>7 DEF WriteSetting, SettingsTyped
    <3>2. \A j \in 1..(Len(SaveOrder) - Len(unsaved)) : nvs[SaveOrder[j]] = staging[SaveOrder[j]]
      BY <3>1 DEF SavesInOrder
    <3>3. Head(unsaved) = SaveOrder[Len(SaveOrder) - Len(unsaved) + 1]
      BY <2>2, <2>3
    <3>4. /\ Len(unsaved') = Len(unsaved) - 1 /\ Len(unsaved) \in Nat \ {0}
          /\ Len(SaveOrder) \in Nat /\ Len(unsaved) <= Len(SaveOrder)
      BY <2>1, <2>2, <2>3, Order
    <3>5. i \in 1..(Len(SaveOrder) - Len(unsaved) + 1)
      BY <3>4
    <3>6. i \in 1..(Len(SaveOrder) - Len(unsaved)) \/ i = Len(SaveOrder) - Len(unsaved) + 1
      BY <3>4, <3>5
    <3>7. i \in 1..Len(SaveOrder)
      BY <3>4, <3>5
    <3>8. SaveOrder[i] \in Known
      BY <3>7, Order
    <3>9. QED
      BY <2>1, <3>1, <3>2, <3>3, <3>6, <3>8 DEF SettingsTyped
  <2>8. /\ \A k \in Known : IF k \in Flags THEN staging'[k] # Empty
                            ELSE k \notin given' => staging'[k] = config'[k]
        /\ \A k \in Flags : k \notin given' => staging'[k] = config'[k]
        /\ \A k \in Known : config'[k] = Empty => k \notin Flags /\ Default[k] = Empty
    BY <2>1 DEF SavesInOrder
  <2>9. /\ \A k \in given' : promised'[k] = Absent
        /\ \A k \in Flags : promised'[k] # Empty
        /\ outcome' # "none"
    BY <2>1 DEF SavesInOrder
  <2>10. SavesInOrder'
    BY <2>1, <2>6, <2>7, <2>8, <2>9 DEF SavesInOrder
  <2>11. QED
    BY <2>5, <2>10
<1>4. ASSUME EndSave PROVE SettingsOK'
  <2>1. /\ unsaved = <<>> /\ outcome # "none"
        /\ promised' = [k \in Known |-> IF outcome = "good" /\ k \in given
                                       THEN staging[k] ELSE promised[k]]
        /\ outcome' = "none" /\ given' = {}
        /\ UNCHANGED <<nvs, config, staging, unsaved>>
    BY <1>4 DEF EndSave
  <2>2. Len(unsaved) = 0 /\ unsaved' = <<>> /\ 1..Len(unsaved') = {}
    BY <2>1, EmptySeq
  <2>3. SettingsTyped'
    BY <2>1 DEF SettingsTyped
  <2>4. \A k \in Flags : promised'[k] # Empty
    BY <2>1, BlankFacts DEF SavesInOrder
  <2>5. SavesInOrder'
    BY <2>1, <2>2, <2>4, Order DEF SavesInOrder
  <2>6. QED
    BY <2>3, <2>5
<1>5. ASSUME BootSettings PROVE SettingsOK'
  <2>1. /\ nvs' \in {nvs, Blank} /\ config' \in {Loaded(nvs'), Loaded(Blank)}
        /\ staging' = config' /\ promised' = promised
        /\ unsaved' = <<>> /\ outcome' = "none" /\ given' = {}
    BY <1>5 DEF BootSettings
  <2>2. Len(unsaved') = 0 /\ 1..Len(unsaved') = {} /\ unsaved' \in Seq(Known)
    BY <2>1, EmptySeq
  <2>3. nvs' \in [Known -> Values \cup {Empty, Absent}]
    BY <2>1, BlankFacts DEF SettingsTyped
  <2>4. /\ config' \in [Known -> Values \cup {Empty}]
        /\ \A k \in Known : config'[k] = Empty => k \notin Flags /\ Default[k] = Empty
    BY <2>1, <2>3, BlankFacts, ReadBack
  <2>5. SettingsTyped'
    BY <2>1, <2>2, <2>3, <2>4 DEF SettingsTyped
  <2>6. Len(unsaved') <= Len(SaveOrder)
    BY <2>2, Order
  <2>7. \A k \in Flags : promised'[k] # Empty
    BY <2>1 DEF SavesInOrder
  <2>8. SavesInOrder'
    BY <2>1, <2>2, <2>4, <2>6, <2>7 DEF SavesInOrder
  <2>9. QED
    BY <2>5, <2>8
<1>6. QED
  BY <1>1, <1>2, <1>3, <1>4, <1>5

---------------------------------------------------------------------------
(* Upgrade                                                                 *)

LEMMA UpgradeKept ==
  ASSUME UpgradeOK
  PROVE  /\ \A u \in Updaters : Prepare(u) \/ UpgradeStep(u) => UpgradeOK'
         /\ BootUpgrade => UpgradeOK'
<1> USE DEF UpgradeOK
<1>1. ASSUME NEW u \in Updaters, Prepare(u) PROVE UpgradeOK'
  BY <1>1 DEF Prepare, Go, UpgradeTyped, StopsFirst, Selects, Whole
<1>2. ASSUME NEW u \in Updaters, u = "httpd", Refuse PROVE UpgradeOK'
  BY <1>2 DEF Refuse, Go, UpgradeTyped, StopsFirst, Selects, Whole
<1>3. ASSUME NEW u \in Updaters, Stopped(u) PROVE UpgradeOK'
  BY <1>3 DEF Stopped, Go, UpgradeTyped, StopsFirst, Selects, Whole
<1>4. ASSUME NEW u \in Updaters, Open(u) PROVE UpgradeOK'
  <2>1. /\ place[u] = "prepared" /\ place' = [place EXCEPT ![u] = "open"]
        /\ openers' = openers \cup {u} /\ selected' = selected
    BY <1>4 DEF Open, Go
  <2>2. UpgradeTyped'
    BY <1>4, UpgradeAssumption DEF Open, Go, Erased, UpgradeTyped
  <2>3. StopsFirst'
    BY <1>4 DEF Open, Go, UpgradeTyped, StopsFirst
  <2>4. ASSUME selected PROVE openers' = Updaters
    <3>1. PICK w \in Updaters : place[w] = "restarting"
      BY <2>4 DEF Selects
    <3>2. w \in openers /\ w # u
      BY <2>1, <3>1 DEF Selects
    <3>3. QED
      BY <2>1, <3>2 DEF Updaters, UpgradeTyped
  <2>5. Selects'
    BY <2>1, <2>4 DEF Selects, UpgradeTyped
  <2>6. QED
    BY <2>2, <2>3, <2>5
<1>5. ASSUME NEW u \in Updaters, WritePiece(u) PROVE UpgradeOK'
  <2>1. /\ place[u] = "open" /\ place' = [place EXCEPT ![u] = "open"]
        /\ UNCHANGED <<hooked, services, selected, openers>>
        /\ written[u] < Pieces
        /\ written' = [written EXCEPT ![u] = written[u] + 1]
        /\ slot' = [slot EXCEPT ![written[u] + 1] = slot[written[u] + 1] \cup {u}]
    BY <1>5 DEF WritePiece, Go
  <2>2. written[u] + 1 \in 1..Pieces
    BY <2>1, UpgradeAssumption DEF UpgradeTyped
  <2>3. UpgradeTyped'
    BY <2>1, <2>2 DEF UpgradeTyped
  <2>4. StopsFirst'
    BY <2>1 DEF UpgradeTyped, StopsFirst
  <2>5. ASSUME selected PROVE openers = Updaters
    <3>1. PICK w \in Updaters : place[w] = "restarting"
      BY <2>5 DEF Selects
    <3>2. w \in openers /\ u \in openers /\ w # u
      BY <2>1, <3>1 DEF Selects
    <3>3. QED
      BY <3>2 DEF Updaters, UpgradeTyped
  <2>6. Selects'
    BY <2>1, <2>5 DEF Selects, UpgradeTyped
  <2>7. QED
    BY <2>3, <2>4, <2>6
<1>6. ASSUME NEW u \in Updaters, EndImage(u) PROVE UpgradeOK'
  BY <1>6 DEF EndImage, Go, UpgradeTyped, StopsFirst, Selects, Whole
<1>7. ASSUME NEW u \in Updaters, Select(u) PROVE UpgradeOK'
  BY <1>7 DEF Select, Go, UpgradeTyped, StopsFirst, Selects, Whole
<1>8. ASSUME NEW u \in Updaters, Fail(u) PROVE UpgradeOK'
  BY <1>8 DEF Fail, UpgradeTyped, StopsFirst, Selects, Whole
<1>9. ASSUME BootUpgrade PROVE UpgradeOK'
  <2>1. Erased \in [1..Pieces -> SUBSET Updaters]
    BY DEF Erased
  <2>2. UpgradeTyped'
    <3>1. place' \in [Updaters -> {"idle", "stopping", "prepared", "open", "ended", "restarting"}]
      BY <1>9 DEF BootUpgrade
    <3>2. hooked' \in [Updaters -> BOOLEAN] /\ services' \in BOOLEAN /\ selected' \in BOOLEAN
      BY <1>9, Zenon DEF BootUpgrade
    <3>3. slot' \in [1..Pieces -> SUBSET Updaters]
      BY <1>9, <2>1 DEF BootUpgrade, UpgradeTyped
    <3>4. written' \in [Updaters -> 0..Pieces] /\ openers' \in SUBSET Updaters
      BY <1>9, UpgradeAssumption DEF BootUpgrade
    <3>5. QED
      BY <3>1, <3>2, <3>3, <3>4 DEF UpgradeTyped
  <2>3. StopsFirst'
    BY <1>9 DEF BootUpgrade, StopsFirst
  <2>4. Selects'
    BY <1>9 DEF BootUpgrade, Selects
  <2>5. QED
    BY <2>2, <2>3, <2>4
<1>10. QED
  BY <1>1, <1>2, <1>3, <1>4, <1>5, <1>6, <1>7, <1>8, <1>9 DEF UpgradeStep

---------------------------------------------------------------------------
(* WiFi and the rules                                                      *)

LEMMA WifiKept ==
  ASSUME WifiOK, GotIp \/ Disconnected \/ Guests \/ Router \/ BootWifi
  PROVE  WifiOK'
<1> USE DEF WifiOK, WifiTells
<1>1. ASSUME GotIp PROVE WifiOK'
  <2>1. mode' \in {"apsta", "sta"} /\ guests' \in BOOLEAN
    BY <1>1, Zenon DEF GotIp
  <2>2. guests' => mode' = "apsta"
    BY <1>1 DEF GotIp
  <2>3. QED
    BY <1>1, <2>1, <2>2 DEF GotIp
<1>2. ASSUME Disconnected PROVE WifiOK'
  <2>1. /\ sta' \in {"trying", "deferred", "unset", "refused"} /\ mode' \in {mode, "apsta"}
        /\ led' = "blink" /\ UNCHANGED <<guests, address, router>>
    BY <1>2 DEF Disconnected, Attempt
  <2>2. QED
    BY <2>1
<1>3. ASSUME Guests \/ Router PROVE WifiOK'
  <2>1. guests' \in BOOLEAN /\ router' \in BOOLEAN
    BY <1>3, Zenon DEF Guests, Router
  <2>2. QED
    BY <1>3, <2>1 DEF Guests, Router
<1>4. ASSUME BootWifi PROVE WifiOK'
  <2>1. /\ sta' \in Attempt /\ mode' = "apsta" /\ guests' = FALSE
        /\ led' = "blink" /\ address' = FALSE /\ router' = router
    BY <1>4, Zenon DEF BootWifi, WifiBegin
  <2>2. guests' \in BOOLEAN /\ address' \in BOOLEAN /\ router' \in BOOLEAN
    BY <2>1, Zenon
  <2>3. /\ mode' \in {"apsta", "sta"} /\ led' \in {"blink", "solid"}
        /\ sta' \in {"trying", "up", "deferred", "unset", "refused"} /\ sta' # "up"
    BY <2>1 DEF Attempt
  <2>4. (guests' => mode' = "apsta") /\ (led' = "solid" <=> sta' = "up")
        /\ (sta' = "up" => address')
    BY <2>1, <2>3
  <2>5. QED
    BY <2>2, <2>3, <2>4
<1>5. QED
  BY <1>1, <1>2, <1>3, <1>4

LEMMA CronKept ==
  ASSUME CronOK
  PROVE  /\ Tick \/ MinutePasses \/ LoadRules => CronOK'
         /\ \A minute \in Minutes : SetClock(minute) => CronOK'
         /\ \A new \in SUBSET Rules : ReplaceRules(new) => CronOK'
         /\ \A powered \in BOOLEAN : BootCron(powered) => CronOK'
<1> USE DEF CronOK, Noted
<1>1. ASSUME Tick PROVE CronOK'
  <2>1. PICK able \in SUBSET DueRules : executed' = executed \cup (able \X {clock})
    BY <1>1 DEF Tick
  <2>2. /\ last' = [r \in Rules |-> IF r \in DueRules THEN clock ELSE last[r]]
        /\ rules' = rules /\ file' = file /\ clock' = clock
    BY <1>1 DEF Tick
  <2>3. able \subseteq Rules /\ clock \in Minutes
    BY <2>1 DEF DueRules
  <2>4. last' \in [Rules -> Minutes \cup {-1}] /\ executed' \in SUBSET (Rules \X Minutes)
    BY <2>1, <2>2, <2>3
  <2>5. ASSUME NEW e \in executed' PROVE e[2] <= last'[e[1]] /\ last'[e[1]] <= clock
    <3>1. CASE e \in executed
      BY <2>2, <3>1, CronAssumption DEF Minutes
    <3>2. CASE e \in able \X {clock}
      BY <2>1, <2>2, <2>3, <3>2, CronAssumption DEF Minutes
    <3>3. QED
      BY <2>1, <3>1, <3>2
  <2>6. QED
    BY <2>2, <2>4, <2>5
<1>2. ASSUME MinutePasses PROVE CronOK'
  <2>1. clock' \in Minutes /\ clock' = clock + 1
    BY <1>2, CronAssumption DEF MinutePasses, Minutes
  <2>2. UNCHANGED <<rules, last, file, executed>>
    BY <1>2 DEF MinutePasses
  <2>3. ASSUME NEW e \in executed PROVE e[2] <= last[e[1]] /\ last[e[1]] <= clock'
    BY <2>1, CronAssumption DEF Minutes
  <2>4. QED
    BY <2>1, <2>2, <2>3
<1>3. ASSUME NEW minute \in Minutes, SetClock(minute) PROVE CronOK'
  <2>1. clock' = minute /\ UNCHANGED <<rules, last, file>>
        /\ executed' = IF minute < clock THEN {} ELSE executed
    BY <1>3 DEF SetClock
  <2>2. ASSUME NEW e \in executed' PROVE e[2] <= last[e[1]] /\ last[e[1]] <= minute
    BY <2>1, CronAssumption DEF Minutes
  <2>3. QED
    BY <2>1, <2>2
<1>4. ASSUME NEW new \in SUBSET Rules, ReplaceRules(new) PROVE CronOK'
  BY <1>4 DEF ReplaceRules, SavedRules, Never
<1>5. ASSUME LoadRules PROVE CronOK'
  BY <1>5 DEF LoadRules, Never
<1>6. ASSUME NEW powered \in BOOLEAN, BootCron(powered) PROVE CronOK'
  BY <1>6, CronAssumption DEF BootCron, Never, Minutes
<1>7. QED
  BY <1>1, <1>2, <1>3, <1>4, <1>5, <1>6

---------------------------------------------------------------------------
(* The whole device                                                        *)

LEMMA BootKept ==
  ASSUME IInv, NEW powered \in BOOLEAN, Boot(powered)
  PROVE  SettingsOK' /\ UpgradeOK' /\ WifiOK' /\ CronOK'
<1>1. SettingsOK /\ UpgradeOK /\ WifiOK /\ CronOK
  BY Parted
<1>2. BootSettings /\ BootUpgrade /\ BootCron(powered) /\ BootWifi
  BY DEF Boot
<1>3. QED
  BY <1>1, <1>2, SettingsKept, UpgradeKept, WifiKept, CronKept

LEMMA BudgetKept ==
  ASSUME budget \in [Outside -> Nat], NEW what \in Outside, Spend(what)
  PROVE  budget' \in [Outside -> Nat]
<1>1. budget[what] - 1 \in Nat
  BY DEF Spend
<1>2. QED
  BY <1>1 DEF Spend

LEMMA StepKeeps ==
  ASSUME IInv, Next
  PROVE  IInv'
<1>1. SettingsOK /\ UpgradeOK /\ WifiOK /\ CronOK /\ budget \in [Outside -> Nat]
  BY Parted
<1>2. \A what \in Outside : Spend(what) => budget' \in [Outside -> Nat]
  BY <1>1, BudgetKept
<1>3. /\ "saves" \in Outside /\ "rules" \in Outside /\ "upgrades" \in Outside
      /\ "failures" \in Outside /\ "losses" \in Outside /\ "minutes" \in Outside
      /\ "syncs" \in Outside
  BY DEF Outside
<1>4. UNCHANGED budget => budget' \in [Outside -> Nat]
  BY <1>1
<1>5. ASSUME SettingsStep PROVE IInv'
  <2>1. SettingsOK'
    BY <1>1, <1>5, SettingsKept DEF SettingsStep, HttpIdle
  <2>2. budget' \in [Outside -> Nat]
    BY <1>2, <1>3, <1>4, <1>5 DEF SettingsStep
  <2>3. UpgradeOK' /\ WifiOK' /\ CronOK'
    BY <1>1, <1>5, Untouched DEF SettingsStep
  <2>4. QED
    BY <2>1, <2>2, <2>3, Parted
<1>6. ASSUME NEW u \in Updaters, BeginUpgrade(u) \/ Upgrading(u) PROVE IInv'
  <2>1. UpgradeOK'
    BY <1>1, <1>6, UpgradeKept DEF BeginUpgrade, Upgrading
  <2>2. budget' \in [Outside -> Nat]
    BY <1>2, <1>3, <1>4, <1>6 DEF BeginUpgrade, Upgrading
  <2>3. SettingsOK' /\ WifiOK' /\ CronOK'
    BY <1>1, <1>6, Untouched DEF BeginUpgrade, Upgrading
  <2>4. QED
    BY <2>1, <2>2, <2>3, Parted
<1>7. ASSUME WifiEvent PROVE IInv'
  <2>1. WifiOK'
    BY <1>1, <1>7, WifiKept DEF WifiEvent
  <2>2. budget' \in [Outside -> Nat]
    BY <1>2, <1>3, <1>4, <1>7 DEF WifiEvent
  <2>3. SettingsOK' /\ UpgradeOK' /\ CronOK'
    BY <1>1, <1>7, Untouched DEF WifiEvent
  <2>4. QED
    BY <2>1, <2>2, <2>3, Parted
<1>8. ASSUME CronStep PROVE IInv'
  <2>1. CronOK'
    BY <1>1, <1>8, CronKept DEF CronStep
  <2>2. budget' \in [Outside -> Nat]
    BY <1>2, <1>3, <1>4, <1>8 DEF CronStep
  <2>3. SettingsOK' /\ UpgradeOK' /\ WifiOK'
    BY <1>1, <1>8, Untouched DEF CronStep
  <2>4. QED
    BY <2>1, <2>2, <2>3, Parted
<1>9. ASSUME NEW u \in Updaters, Restart(u) PROVE IInv'
  <2>1. SettingsOK' /\ UpgradeOK' /\ WifiOK' /\ CronOK'
    BY <1>9, BootKept DEF Restart
  <2>2. QED
    BY <1>4, <1>9, <2>1, Parted DEF Restart
<1>10. ASSUME NEW powered \in BOOLEAN, Fails(powered) PROVE IInv'
  <2>1. SettingsOK' /\ UpgradeOK' /\ WifiOK' /\ CronOK'
    BY <1>10, BootKept DEF Fails
  <2>2. budget' \in [Outside -> Nat]
    BY <1>2, <1>3, <1>10 DEF Fails
  <2>3. QED
    BY <2>1, <2>2, Parted
<1>11. QED
  BY <1>5, <1>6, <1>7, <1>8, <1>9, <1>10 DEF Next

LEMMA InitInv ==
  ASSUME Init
  PROVE  IInv
<1>1. SettingsOK
  <2>1. Blank \in [Known -> Values \cup {Empty, Absent}]
    BY BlankFacts
  <2>2. /\ nvs = Blank /\ config = Loaded(nvs) /\ staging = config
        /\ unsaved = <<>> /\ outcome = "none" /\ given = {} /\ promised = Blank
    BY DEF Init, SettingsInit
  <2>3. SettingsTyped
    BY <2>1, <2>2, ReadBack, EmptySeq DEF SettingsTyped
  <2>4. /\ Len(unsaved) = 0 /\ 1..Len(unsaved) = {} /\ Len(unsaved) <= Len(SaveOrder)
    BY <2>2, EmptySeq, Order
  <2>5. \A k \in Known : config[k] = Empty => k \notin Flags /\ Default[k] = Empty
    BY <2>1, <2>2, ReadBack
  <2>6. SavesInOrder
    BY <2>2, <2>4, <2>5, BlankFacts DEF SavesInOrder
  <2>7. QED
    BY <2>3, <2>6 DEF SettingsOK
<1>2. UpgradeOK
  <2>1. /\ place = [u \in Updaters |-> "idle"] /\ hooked = [u \in Updaters |-> FALSE]
        /\ services = TRUE /\ slot = Erased /\ written = [u \in Updaters |-> 0]
        /\ selected = FALSE /\ openers = {}
    BY DEF Init, UpgradeInit
  <2>2. hooked \in [Updaters -> BOOLEAN] /\ services \in BOOLEAN /\ selected \in BOOLEAN
    BY <2>1, Zenon
  <2>3. UpgradeTyped
    BY <2>1, <2>2, UpgradeAssumption DEF UpgradeTyped, Erased
  <2>4. StopsFirst /\ Selects
    BY <2>1 DEF StopsFirst, Selects
  <2>5. QED
    BY <2>3, <2>4 DEF UpgradeOK
<1>3. WifiOK
  <2>1. /\ sta \in Attempt /\ mode = "apsta" /\ guests = FALSE
        /\ led = "blink" /\ address = FALSE /\ router \in BOOLEAN
    BY Zenon DEF Init, WifiInit, WifiBegin
  <2>2. guests \in BOOLEAN /\ address \in BOOLEAN
    BY <2>1, Zenon
  <2>3. /\ mode \in {"apsta", "sta"} /\ led \in {"blink", "solid"}
        /\ sta \in {"trying", "up", "deferred", "unset", "refused"} /\ sta # "up"
    BY <2>1 DEF Attempt
  <2>4. WifiTells
    BY <2>1, <2>3 DEF WifiTells
  <2>5. QED
    BY <2>1, <2>2, <2>3, <2>4 DEF WifiOK
<1>4. CronOK
  BY CronAssumption DEF Init, CronInit, CronOK, Noted, Never, Minutes
<1>5. QED
  BY <1>1, <1>2, <1>3, <1>4, Parted, DeviceAssumption DEF Init

---------------------------------------------------------------------------
(* Theorems                                                                *)

(* IInv is an invariant, whatever fails and whenever the device restarts.  *)
THEOREM Invariance == Spec => []IInv
<1>1. IInv /\ UNCHANGED vars => IInv'
  <2>1. UNCHANGED vars => UNCHANGED <<settingsVars, upgradeVars, wifiVars, cronVars, budget>>
    BY DEF vars
  <2>2. QED
    BY <2>1, Parted, Untouched
<1>2. QED
  BY <1>1, InitInv, StepKeeps, PTL DEF Spec

(* A step starts the device, or deals with a request for settings, or has  *)
(* nothing to do with them.                                                *)
LEMMA SettingsSteps ==
  ASSUME Next
  PROVE  /\ Booted => BootSettings
         /\ \/ Booted
            \/ ResetConfig \/ (\E body \in Bodies : BeginSave(body))
            \/ WriteSetting \/ EndSave
            \/ UNCHANGED settingsVars
<1>1. Booted => BootSettings
  BY DEF Booted, Restart, Fails, Boot
<1>2. Booted \/ SettingsStep \/ UNCHANGED settingsVars
  BY DEF Next, Booted, WifiEvent, CronStep, BeginUpgrade, Upgrading
<1>3. QED
  BY <1>1, <1>2 DEF SettingsStep

(* A value that is written back where it is what the next start loads      *)
(* leaves that as it is.                                                   *)
LEMMA WritesBack ==
  ASSUME SettingsOK, WriteSetting, NEW k \in Known, k \notin given
  PROVE  \/ Loaded(nvs')[k] = Loaded(nvs)[k]
         \/ Head(unsaved) = k /\ Loaded(nvs')[k] = config[k]
<1>1. SettingsTyped /\ SavesInOrder /\ outcome # "none"
  BY DEF SettingsOK, SavesInOrder, WriteSetting
<1>2. nvs' \in {nvs, [nvs EXCEPT ![Head(unsaved)] = staging[Head(unsaved)]]}
  BY DEF WriteSetting
<1>3. CASE nvs'[k] = nvs[k]
  BY <1>3 DEF Loaded, Read
<1>4. CASE nvs'[k] # nvs[k]
  <2>1. Head(unsaved) = k /\ nvs'[k] = staging[k]
    BY <1>1, <1>2, <1>4 DEF SettingsTyped
  <2>2. staging[k] = config[k] /\ (config[k] = Empty => k \notin Flags /\ Default[k] = Empty)
    BY <1>1 DEF SavesInOrder
  <2>3. config[k] # Absent
    BY <1>1, SettingsAssumption DEF SettingsTyped
  <2>4. QED
    BY <2>1, <2>2, <2>3 DEF Loaded, Read
<1>5. QED
  BY <1>3, <1>4

(* What was told at the end of a request is what the next start loads,     *)
(* unless it is zero and the default is not.                               *)
LEMMA ToldIsLoaded ==
  ASSUME SettingsOK, EndSave, NEW k \in Known, Stands(k), ~TakenForUnset(k)
  PROVE  Stands(k)'
<1>1. SettingsTyped /\ SavesInOrder /\ Len(unsaved) = 0
  BY EmptySeq DEF SettingsOK, EndSave
<1>2. /\ promised'[k] = IF outcome = "good" /\ k \in given THEN staging[k] ELSE promised[k]
      /\ nvs' = nvs
  BY DEF EndSave
<1>3. CASE outcome = "good" /\ k \in given
  <2>1. nvs[k] = staging[k]
    <3>1. \A i \in 1..Len(SaveOrder) : nvs[SaveOrder[i]] = staging[SaveOrder[i]]
      BY <1>1, <1>3, Order DEF SavesInOrder
    <3>2. QED
      BY <3>1, Order
  <2>2. staging[k] \in Values \cup {Empty} /\ staging[k] # Absent
    BY <1>1, SettingsAssumption DEF SettingsTyped
  <2>3. staging[k] = Empty => k \notin Flags
    BY <1>1, <1>3 DEF SavesInOrder
  <2>4. staging[k] = Empty => Default[k] = Empty
    BY <1>2, <1>3 DEF TakenForUnset
  <2>5. Loaded(nvs')[k] = promised'[k]
    BY <1>2, <1>3, <2>1, <2>2, <2>3, <2>4 DEF Loaded, Read
  <2>6. QED
    BY <2>5 DEF Stands
<1>4. CASE ~(outcome = "good" /\ k \in given)
  BY <1>2, <1>4 DEF Stands
<1>5. QED
  BY <1>3, <1>4

LEMMA PromiseKept ==
  ASSUME IInv, Next, NEW k \in Known,
         Stands(k), ~FlashLost, ~Reverted(k), ~TakenForUnset(k)
  PROVE  /\ Stands(k)'
         /\ Booted /\ promised'[k] # Absent => config'[k] = promised'[k]
<1>1. SettingsOK /\ SettingsTyped /\ SavesInOrder
  BY Parted DEF SettingsOK
<1>2. CASE Booted
  <2>1. nvs' = nvs /\ config' = Loaded(nvs) /\ promised' = promised
    BY <1>2, SettingsSteps DEF FlashLost, BootSettings
  <2>2. QED
    BY <2>1 DEF Stands
<1>3. CASE ~Booted
  <2>1. CASE ResetConfig
    BY <1>3, <2>1, BlankFacts DEF ResetConfig, Stands
  <2>2. ASSUME NEW body \in Bodies, BeginSave(body) PROVE Stands(k)'
    <3>1. nvs' = nvs /\ promised'[k] \in {Absent, promised[k]}
      BY <2>2 DEF BeginSave
    <3>2. QED
      BY <3>1 DEF Stands
  <2>3. CASE WriteSetting
    <3>1. promised' = promised
      BY <2>3 DEF WriteSetting
    <3>2. k \in given => promised[k] = Absent
      BY <1>1, <2>3 DEF SavesInOrder, WriteSetting
    <3>3. k \notin given => Loaded(nvs')[k] = Loaded(nvs)[k]
      BY <1>1, <2>3, WritesBack DEF Reverted, Drift
    <3>4. QED
      BY <1>3, <3>1, <3>2, <3>3 DEF Stands
  <2>4. CASE EndSave
    BY <1>1, <1>3, <2>4, ToldIsLoaded
  <2>5. CASE UNCHANGED settingsVars
    BY <1>3, <2>5 DEF settingsVars, Stands
  <2>6. QED
    BY <1>3, <2>1, <2>2, <2>3, <2>4, <2>5, SettingsSteps
<1>4. QED
  BY <1>2, <1>3

(* A promise of what is saved is broken by nothing but the flash lost at a *)
(* start, a setting reverted, and a zero taken for not set.                *)
THEOREM SavedIsApplied == Spec => PromisesStand
<1> DEFINE Kept == \A k \in Known :
                     Stands(k) /\ ~FlashLost /\ ~Reverted(k) /\ ~TakenForUnset(k) =>
                       /\ Stands(k)'
                       /\ Booted /\ promised'[k] # Absent => config'[k] = promised'[k]
<1>1. IInv /\ [Next]_vars => [Kept]_vars
  BY PromiseKept
<1>2. QED
  BY <1>1, Invariance, PTL DEF Spec, PromisesStand

(* None of the three.                                                      *)
Faultless == ~FlashLost /\ \A k \in Known : ~Reverted(k) /\ ~TakenForUnset(k)

(* Without them, what a client was told to be saved is always what the     *)
(* next start loads, and every start runs with it.                         *)
THEOREM FaultlessApplies ==
  Spec /\ [][Faultless]_vars => [](\A k \in Known : Stands(k)) /\ SavedIsLoaded
<1> DEFINE AllStand == \A k \in Known : Stands(k)
           Runs == Booted /\ ~FlashLost =>
                     \A k \in Known : promised[k] # Absent => config'[k] = promised[k]
<1>1. Init => AllStand
  BY BlankFacts DEF Init, SettingsInit, Stands
<1>2. ASSUME IInv, [Next]_vars, [Faultless]_vars, AllStand
      PROVE  AllStand'
  <2>1. CASE UNCHANGED vars
    BY <1>2, <2>1 DEF vars, settingsVars, Stands
  <2>2. CASE ~UNCHANGED vars
    BY <1>2, <2>2, PromiseKept DEF Faultless
  <2>3. QED
    BY <2>1, <2>2
<1>3. ASSUME Next, AllStand PROVE Runs
  BY <1>3, SettingsSteps DEF FlashLost, BootSettings, Stands
<1>4. [Next]_vars /\ AllStand => [Runs]_vars
  BY <1>3
<1>5. QED
  <2> HIDE DEF AllStand, Runs
  <2>1. IInv /\ [Next]_vars /\ [Faultless]_vars /\ AllStand => AllStand'
    BY <1>2
  <2>2. Spec /\ [][Faultless]_vars => []AllStand
    BY <1>1, <2>1, Invariance, PTL DEF Spec
  <2>3. Spec /\ []AllStand => [][Runs]_vars
    BY <1>4, PTL DEF Spec
  <2>4. QED
    BY <2>2, <2>3, PTL DEF AllStand, Runs, SavedIsLoaded

(* What the next start loads of a setting that a request does not give     *)
(* changes only when everything is erased, or back to what the device runs *)
(* with.                                                                   *)
THEOREM UnsaidIsKept == Spec => UnsaidKept
<1> DEFINE Kept == \A k \in Known \ given : Loaded(nvs')[k] # Loaded(nvs)[k] =>
                     \/ nvs' = Blank
                     \/ k \in Drift /\ Loaded(nvs')[k] = config[k]
<1>1. ASSUME IInv, WriteSetting PROVE Kept
  <2>1. ASSUME NEW k \in Known \ given, Loaded(nvs')[k] # Loaded(nvs)[k]
        PROVE  k \in Drift /\ Loaded(nvs')[k] = config[k]
    <3>1. Loaded(nvs')[k] = config[k]
      BY <1>1, <2>1, Parted, WritesBack
    <3>2. QED
      BY <2>1, <3>1 DEF Drift
  <2>2. QED
    BY <2>1
<1>2. ASSUME IInv, Next PROVE Kept
  <2>1. nvs' \in {nvs, Blank} \/ WriteSetting
    BY <1>2, SettingsSteps DEF BootSettings, ResetConfig, BeginSave, EndSave, settingsVars
  <2>2. QED
    BY <1>1, <1>2, <2>1
<1>3. IInv /\ [Next]_vars => [Kept]_vars
  BY <1>2
<1>4. QED
  BY <1>3, Invariance, PTL DEF Spec, UnsaidKept

(* While firmware is written the services rest, and no rule is executed.   *)
THEOREM FlashIsQuiet == Spec => QuietFlash
<1> DEFINE Busy == \E u \in Updaters : place[u] \in {"open", "ended", "restarting"}
           Quiet == ~services' /\ executed' \subseteq executed
           Idle == \A u \in Updaters : place'[u] = "idle"
<1>1. ASSUME IInv, Next, Busy PROVE Quiet \/ Idle
  <2>1. ~services
    BY <1>1 DEF IInv, StopsFirst
  <2>2. CASE SettingsStep \/ WifiEvent
    BY <2>1, <2>2 DEF SettingsStep, WifiEvent, upgradeVars, cronVars
  <2>3. CASE CronStep
    <3>1. ~services'
      BY <2>1, <2>3 DEF CronStep, upgradeVars
    <3>2. executed' \subseteq executed
      BY <2>1, <2>3 DEF CronStep, MinutePasses, SetClock, LoadRules, ReplaceRules
    <3>3. QED
      BY <3>1, <3>2
  <2>4. ASSUME NEW u \in Updaters, BeginUpgrade(u) \/ Upgrading(u) PROVE Quiet
    <3>1. executed' = executed
      BY <2>4 DEF BeginUpgrade, Upgrading, cronVars
    <3>2. ~services'
      BY <2>1, <2>4 DEF BeginUpgrade, Prepare, Upgrading, UpgradeStep, Refuse, Stopped, Open,
                  WritePiece, EndImage, Select, Fail
    <3>3. QED
      BY <3>1, <3>2
  <2>5. ASSUME BootUpgrade PROVE Idle
    BY <2>5 DEF BootUpgrade
  <2>6. QED
    BY <1>1, <2>2, <2>3, <2>4, <2>5 DEF Next, Restart, Fails, Boot
<1>2. IInv /\ [Next]_vars => [Busy => Quiet \/ Idle]_vars
  BY <1>1
<1>3. QED
  BY <1>2, Invariance, PTL DEF Spec, QuietFlash

(* A restart after an upgrade boots the new firmware, unless both ways     *)
(* wrote the partition.                                                    *)
THEOREM SelectedIsBooted == Spec => SelectedBoots
<1>1. IInv => \A u \in Updaters : Restart(u) => Updated \/ openers = Updaters
  BY DEF IInv, Selects, Restart, Updated
<1>2. IInv /\ [Next]_vars
      => [\A u \in Updaters : Restart(u) => Updated \/ openers = Updaters]_vars
  BY <1>1
<1>3. QED
  BY <1>2, Invariance, PTL DEF Spec, SelectedBoots

(* A rule is executed at most once in a minute.                            *)
THEOREM RulesFireOnce == Spec => FiresOnce
<1>1. ASSUME IInv, Tick, NEW r \in DueRules PROVE <<r, clock>> \notin executed
  <2>1. r \in Rules /\ last[r] # clock
    BY <1>1 DEF DueRules, IInv, TypeOK
  <2>2. ASSUME <<r, clock>> \in executed PROVE FALSE
    <3>1. clock <= last[r] /\ last[r] <= clock
      BY <1>1, <2>2 DEF IInv, Noted
    <3>2. last[r] \in Int /\ clock \in Int
      BY <1>1, <2>1, CronAssumption DEF IInv, TypeOK, Minutes
    <3>3. QED
      BY <2>1, <3>1, <3>2
  <2>3. QED
    BY <2>2
<1>2. IInv /\ [Next]_vars => [Tick => \A r \in DueRules : <<r, clock>> \notin executed]_vars
  BY <1>1
<1>3. QED
  BY <1>2, Invariance, PTL DEF Spec, FiresOnce

---------------------------------------------------------------------------
(* Schedules                                                               *)

(* A part that is valid matches where it begins.                           *)
LEMMA ValidMatches ==
  ASSUME NEW f \in Fields, NEW part \in Parts, ValidPart(part, f)
  PROVE  \E value \in Lowest[f]..Highest(f) : MatchPart(part, value, f)
<1>1. part.step \in Int /\ part.step > 0 /\ 0 % part.step = 0
  <2>1. part.step \in Int /\ part.step > 0
    BY DEF ValidPart, Parts
  <2>2. \A n \in Int : n > 0 => 0 % n = 0
    OBVIOUS
  <2>3. QED
    BY <2>1, <2>2
<1>2. CASE Weekend(part, f)
  <2>1. f = "weekday"
    BY <1>2 DEF Weekend
  <2>2. Lowest[f] = 0 /\ Highest(f) = 6
    BY <2>1 DEF Lowest, Highest, Fields
  <2>3. MatchPart(part, 6, f)
    BY <1>1, <1>2 DEF MatchPart
  <2>4. QED
    BY <2>2, <2>3
<1>3. CASE Ordered(part, f)
  <2>1. /\ Lowest[f] <= From(part, f) /\ From(part, f) <= To(part, f)
        /\ To(part, f) <= Highest(f)
    BY <1>3 DEF Ordered
  <2>2. Lowest[f] \in Int /\ Highest(f) \in Int
    BY DEF Lowest, Highest, Fields
  <2>3. From(part, f) \in Int /\ To(part, f) \in Int
    BY <2>2 DEF From, To, Day, Parts
  <2>4. From(part, f) - From(part, f) = 0
    BY <2>3
  <2>5. From(part, f) \in From(part, f)..To(part, f)
    BY <2>1, <2>3
  <2>6. MatchPart(part, From(part, f), f)
    BY <1>1, <1>3, <2>4, <2>5 DEF MatchPart
  <2>7. From(part, f) \in Lowest[f]..Highest(f)
    BY <2>1, <2>2, <2>3
  <2>8. QED
    BY <2>6, <2>7
<1>4. QED
  BY <1>2, <1>3 DEF ValidPart

LEMMA AcceptedLive == Accepted \subseteq Live
<1>1. ASSUME NEW r \in Accepted, NEW f \in Fields
      PROVE  \E value \in Lowest[f]..Highest(f) : MatchField(Schedule[r][f], value, f)
  <2>1. r \in Rules /\ ValidField(Schedule[r][f], f)
    BY <1>1 DEF Accepted, Valid
  <2>2. PICK part \in Schedule[r][f] : ValidPart(part, f)
    BY <2>1 DEF ValidField
  <2>3. part \in Parts
    BY <2>1, <2>2, CronAssumption
  <2>4. QED
    BY <2>2, <2>3, ValidMatches DEF MatchField
<1>2. QED
  BY <1>1 DEF Live, Accepted

(* Every rule in use has for each field a value that it matches.           *)
THEOREM RulesAreLive == Spec => []RulesFire
<1> DEFINE Checked == rules \subseteq Accepted
<1>1. Init => Checked
  BY DEF Init, CronInit
<1>2. ASSUME Checked, Next PROVE Checked'
  <2>1. CASE CronStep
    BY <1>2, <2>1 DEF CronStep, Tick, MinutePasses, SetClock, LoadRules, ReplaceRules
  <2>2. CASE UNCHANGED cronVars
    BY <1>2, <2>2 DEF cronVars
  <2>3. CASE \E powered \in BOOLEAN : BootCron(powered)
    BY <2>3 DEF BootCron
  <2>4. QED
    BY <1>2, <2>1, <2>2, <2>3 DEF Next, SettingsStep, WifiEvent, BeginUpgrade, Upgrading,
                                  Restart, Fails, Boot
<1>3. ASSUME UNCHANGED vars, Checked PROVE Checked'
  BY <1>3 DEF vars, cronVars
<1>4. Checked => RulesFire
  BY AcceptedLive DEF RulesFire
<1>5. Init /\ [][Next]_vars => []Checked
  <2>1. Checked /\ [Next]_vars => Checked'
    BY <1>2, <1>3
  <2> HIDE DEF Checked
  <2>2. QED
    BY <1>1, <2>1, PTL
<1>6. QED
  <2> HIDE DEF Checked
  <2>1. QED
    BY <1>4, <1>5, PTL DEF Spec
=============================================================================
