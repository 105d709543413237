------------------------------- MODULE Device -------------------------------
(***************************************************************************)
(* What keeps a device in order besides the bus and the broker: its        *)
(* settings, new firmware, the network, the rules, and the restart that    *)
(* brings them together (App::begin, src/app/app.cpp).                     *)
(*                                                                         *)
(* The HTTP server has one task, so that it saves settings or rules or     *)
(* takes an upload one after the other.  Pushed firmware, the events of    *)
(* WiFi, the time server and the task of the rules go on meanwhile; a      *)
(* restart or a power failure may come at any time.                        *)
(***************************************************************************)
EXTENDS Settings, Upgrade, Wifi, Cron

CONSTANT Budgets  \* bounds: how often what comes from outside may happen

Outside == {"saves", "rules", "upgrades", "failures", "losses", "minutes", "syncs"}

ASSUME DeviceAssumption == Budgets \subseteq [Outside -> Nat]

VARIABLE budget

vars == <<settingsVars, upgradeVars, wifiVars, cronVars, budget>>

Init ==
  /\ SettingsInit /\ UpgradeInit /\ WifiInit /\ CronInit
  /\ budget \in Budgets

Spend(what) ==
  /\ budget[what] > 0
  /\ budget' = [budget EXCEPT ![what] = @ - 1]

(* The HTTP server's task has no request.                                  *)
HttpIdle == outcome = "none" /\ place["httpd"] = "idle"

---------------------------------------------------------------------------
SettingsStep ==
  /\ \/ /\ HttpIdle /\ Spend("saves")
        /\ ResetConfig \/ \E body \in Bodies : BeginSave(body)
     \/ (WriteSetting \/ EndSave) /\ UNCHANGED budget
  /\ UNCHANGED <<upgradeVars, wifiVars, cronVars>>

(* Nothing keeps an upload and a push apart.                               *)
BeginUpgrade(u) ==
  /\ u = "httpd" => HttpIdle
  /\ Spend("upgrades") /\ Prepare(u)
  /\ UNCHANGED <<settingsVars, wifiVars, cronVars>>

Upgrading(u) ==
  /\ UpgradeStep(u)
  /\ UNCHANGED <<settingsVars, wifiVars, cronVars, budget>>

WifiEvent ==
  /\ \/ (GotIp \/ (sta = "trying" /\ Disconnected)) /\ UNCHANGED budget
     \/ ((sta = "up" /\ Disconnected) \/ Guests \/ Router) /\ Spend("losses")
  /\ UNCHANGED <<settingsVars, upgradeVars, cronVars>>

CronStep ==
  /\ \/ services /\ Tick /\ UNCHANGED budget
     \/ MinutePasses /\ Spend("minutes")
     \/ /\ sta = "up" /\ config[Sntp] # Off /\ Spend("syncs")
        /\ \E minute \in Minutes : SetClock(minute)
     \/ /\ HttpIdle /\ Spend("rules")
        /\ LoadRules \/ \E new \in SUBSET Rules : ReplaceRules(new)
  /\ UNCHANGED <<settingsVars, upgradeVars, wifiVars>>

---------------------------------------------------------------------------
(* App::begin: the settings are read, WiFi is started, the rules are read, *)
(* and everything runs.                                                    *)
Boot(powered) ==
  /\ BootSettings /\ BootUpgrade /\ BootWifi /\ BootCron(powered)

(* The device restarts a second after the answer, whatever else it does.   *)
Restart(u) ==
  /\ place[u] = "restarting"
  /\ Boot(TRUE)
  /\ UNCHANGED budget

(* A power failure, or a request to restart, over HTTP or by a message     *)
(* from the broker that comes at any time.                                 *)
Fails(powered) ==
  /\ Spend("failures")
  /\ Boot(powered)

Next ==
  \/ SettingsStep \/ WifiEvent \/ CronStep
  \/ \E u \in Updaters : BeginUpgrade(u) \/ Upgrading(u) \/ Restart(u)
  \/ \E powered \in BOOLEAN : Fails(powered)

Spec == Init /\ [][Next]_vars

(* Attempts to connect may fail any number of times, but not for ever      *)
(* while the router is there.                                              *)
FairSpec ==
  /\ Spec
  /\ WF_vars(GotIp /\ UNCHANGED <<settingsVars, upgradeVars, cronVars, budget>>)

---------------------------------------------------------------------------
TypeOK ==
  /\ nvs \in [Known -> Values \cup {Empty, Absent}]
  /\ config \in [Known -> Values \cup {Empty}]
  /\ staging \in [Known -> Values \cup {Empty}]
  /\ unsaved \in Seq(Known) /\ outcome \in {"none", "good", "bad"}
  /\ given \in SUBSET Known
  /\ promised \in [Known -> Values \cup {Empty, Absent}]
  /\ place \in [Updaters -> {"idle", "stopping", "prepared", "open", "ended", "restarting"}]
  /\ hooked \in [Updaters -> BOOLEAN] /\ services \in BOOLEAN
  /\ slot \in [1..Pieces -> SUBSET Updaters]
  /\ written \in [Updaters -> 0..Pieces] /\ selected \in BOOLEAN
  /\ openers \in SUBSET Updaters
  /\ sta \in {"trying", "up", "deferred", "unset", "refused"} /\ mode \in {"apsta", "sta"}
  /\ guests \in BOOLEAN /\ led \in {"blink", "solid"} /\ address \in BOOLEAN /\ router \in BOOLEAN
  /\ rules \in SUBSET Rules /\ last \in [Rules -> Minutes \cup {-1}]
  /\ file \in SUBSET Rules /\ clock \in Minutes
  /\ executed \in SUBSET (Rules \X Minutes)
  /\ budget \in [Outside -> Nat]

(* How far the request under way has come; nothing is promised of what it  *)
(* gives a value.                                                          *)
SavesInOrder ==
  /\ Len(unsaved) <= Len(SaveOrder)
  /\ \A i \in 1..Len(unsaved) :
       unsaved[i] = SaveOrder[Len(SaveOrder) - Len(unsaved) + i]
  /\ outcome = "none" => unsaved = <<>>
  /\ outcome = "good" =>
       \A i \in 1..(Len(SaveOrder) - Len(unsaved)) : nvs[SaveOrder[i]] = staging[SaveOrder[i]]
  /\ outcome # "none" =>
       \A k \in Known : IF k \in Flags THEN staging[k] # Empty
                        ELSE k \notin given => staging[k] = config[k]
  /\ outcome # "none" =>
       \A k \in Flags : k \notin given => staging[k] = config[k]
  /\ \A k \in Known : config[k] = Empty => k \notin Flags /\ Default[k] = Empty
  /\ outcome # "none" => \A k \in given : promised[k] = Absent
  /\ \A k \in Flags : promised[k] # Empty

(* What was stopped stays so until the restart, whose image is selected    *)
(* just before.                                                            *)
StopsFirst ==
  \A u \in Updaters :
    /\ place[u] \in {"prepared", "open", "ended", "restarting"} => hooked[u]
    /\ hooked[u] => ~services

Selects ==
  /\ \A u \in Updaters :
       /\ place[u] = "restarting" => selected
       /\ place[u] \in {"open", "ended", "restarting"} => u \in openers
  /\ selected => \E u \in Updaters : place[u] = "restarting"
  /\ selected => Whole(slot) \/ openers = Updaters

(* The access point has clients only while it is open, and the light shows *)
(* that the station is connected.                                          *)
WifiTells == /\ guests => mode = "apsta"
             /\ led = "solid" <=> sta = "up"
             /\ sta = "up" => address

(* What was executed since the clock went back is not later than the       *)
(* minute noted with the rule.                                             *)
Noted ==
  \A e \in executed : e[2] <= last[e[1]] /\ last[e[1]] <= clock

(* The type invariant and its strengthening.                               *)
IInv == TypeOK /\ SavesInOrder /\ StopsFirst /\ Selects /\ WifiTells /\ Noted

(* What a client was told to be saved of a setting is what the next        *)
(* restart loads.                                                          *)
Stands(k) == promised[k] # Absent => Loaded(nvs)[k] = promised[k]

Booted == (\E u \in Updaters : Restart(u)) \/ \E powered \in BOOLEAN : Fails(powered)

(* A start finds the flash unreadable, or erases it (ensureNvsReady).      *)
FlashLost == Booted /\ (nvs' # nvs \/ config' # Loaded(nvs))

(* A request that does not name the setting writes back what the device    *)
(* runs with, which is not what is stored: the setting was changed since   *)
(* the last start, or that start could not read it (applyFlatConfigJson).  *)
Reverted(k) == WriteSetting /\ Head(unsaved) = k /\ k \in Drift \ given

(* A request is told that a zero is saved, which the next start takes for  *)
(* not set and replaces by the default (assignIntIfNonZero).               *)
TakenForUnset(k) == EndSave /\ promised'[k] = Empty /\ Default[k] # Empty

(* What a client was told to be saved stays so, until another request      *)
(* gives the setting a value or everything is erased on request, and every *)
(* start loads it: through requests for other settings, good and bad ones, *)
(* power failures in the middle of them, and restarts of any kind.  Three  *)
(* things undo it, and nothing else does: the flash is lost at a start, or *)
(* one of two flaws of the code: what was changed is written back (see     *)
(* KeepsStored), and a zero is taken for missing (see SavedIsLoaded).      *)
PromisesStand ==
  [][\A k \in Known :
       Stands(k) /\ ~FlashLost /\ ~Reverted(k) /\ ~TakenForUnset(k) =>
         /\ Stands(k)'
         /\ Booted /\ promised'[k] # Absent => config'[k] = promised'[k]]_vars

(* "The snapshot keeps boot values until the next reboot loads the saved   *)
(* state" (applyFlatConfigJson): the start after an answer that settings   *)
(* are saved runs with them, as long as the flash is not lost.  The two    *)
(* flaws break it; without them it holds (FaultlessApplies).               *)
SavedIsLoaded ==
  [][Booted /\ ~FlashLost =>
       \A k \in Known : promised[k] # Absent => config'[k] = promised[k]]_vars

(* What the next start loads of a setting changes without a request that   *)
(* gives it a value (a password left empty is none) only when everything   *)
(* is erased, or when it was not what the device runs with: then it goes   *)
(* back to that, and to nothing else.                                      *)
UnsaidKept ==
  [][\A k \in Known \ given : Loaded(nvs')[k] # Loaded(nvs)[k] =>
       \/ nvs' = Blank
       \/ k \in Drift /\ Loaded(nvs')[k] = config[k]]_vars

(* "An empty value means keep the stored one": a password that is stored   *)
(* changes only by a request that gives a new one, or by a reset.          *)
KeepsStored ==
  [][\A k \in Secrets : nvs'[k] # nvs[k] /\ k \notin given
       => Absent \in {nvs[k], nvs'[k]}]_vars

(* While firmware is written, and until the restart that follows, what was *)
(* stopped does not start again and no rule writes to the bus, whoever     *)
(* else begins, fails or ends an upgrade.                                  *)
QuietFlash ==
  [][(\E u \in Updaters : place[u] \in {"open", "ended", "restarting"}) =>
       \/ ~services' /\ executed' \subseteq executed
       \/ \A u \in Updaters : place'[u] = "idle"]_vars

(* A device that told a client that it restarts with the new firmware does *)
(* so, unless the partition was erased by an upgrade on the other way too. *)
SelectedBoots ==
  [][\A u \in Updaters : Restart(u) => Updated \/ openers = Updaters]_vars

(* A rule is executed at most once in a minute, as long as the rules are   *)
(* not replaced and the clock is not set back.                             *)
FiresOnce ==
  [][Tick => \A r \in DueRules : <<r, clock>> \notin executed]_vars

(* The rules that have for each field some value that it matches.          *)
Live ==
  {r \in Rules : \A f \in Fields : \E value \in Lowest[f]..Highest(f) :
     MatchField(Schedule[r][f], value, f)}

(* No rule in use has a field that no value matches, taken by itself: no   *)
(* schedule that was accepted when the rules were saved, or again when     *)
(* they were loaded.  Fields that exclude each other (30 February) are     *)
(* accepted all the same, and such a rule is never executed.               *)
RulesFire == rules \subseteq Live

(* However many attempts fail, with the router there or without, the       *)
(* station is connected in the end when the router is there, unless the    *)
(* attempt was put off for the clients of the access point, the mode could *)
(* not be set, or the driver refused the attempt: nobody tries again then. *)
Reconnects == []<>(sta \in {"up", "deferred", "unset", "refused"} \/ ~router)
=============================================================================
