------------------------------ MODULE Settings ------------------------------
(***************************************************************************)
(* The configuration: the copy that was read at boot and that the services *)
(* run with (AppConfig), and what is stored in flash key by key            *)
(* (src/config/).  A request changes only what is stored; "the UI contract *)
(* is restart-to-apply".                                                   *)
(*                                                                         *)
(* A value is a model value.  Empty stands for the empty string and for a  *)
(* number that is zero, which are both taken for "not set" when the        *)
(* configuration is read.                                                  *)
(***************************************************************************)
EXTENDS Naturals, Sequences

CONSTANTS
  SaveOrder,     \* the settings, in the order in which save writes them
  Secrets,       \* passwords, for which an empty value means "keep"
  Flags,         \* those that are true or false
  Required,      \* those that isValid wants to be set
  Sntp,          \* the flag that starts the time synchronisation
  Values,        \* values that are set, Off among them
  Empty,
  Absent,        \* what is stored for a key that was never written
  Off,           \* false
  Default,       \* AppConfig::reset
  Bodies         \* the requests: some settings, each with a value

Known == {SaveOrder[i] : i \in DOMAIN SaveOrder}

ASSUME SettingsAssumption ==
  /\ SaveOrder \in Seq(Known)
  /\ Secrets \subseteq Known /\ Flags \subseteq Known /\ Required \subseteq Known
  /\ Sntp \in Flags /\ Secrets \cap Flags = {}
  /\ Off \in Values /\ Empty \notin Values /\ Absent \notin Values /\ Empty # Absent
  /\ Default \in [Known -> Values \cup {Empty}]
  /\ \A body \in Bodies :
       DOMAIN body \subseteq Known /\ \A k \in DOMAIN body : body[k] \in Values \cup {Empty}

VARIABLES
  nvs,           \* what is stored
  config,        \* config_
  staging,       \* what the request under way wants to be stored
  unsaved,       \* the settings it has yet to write
  outcome,       \* of it so far: "good" or "bad"; "none": no request
  given,         \* the settings it gave a value
  promised       \* what a client was told to be saved of a setting, until a
                 \* request gives it another value; Absent: nothing

settingsVars == <<nvs, config, staging, unsaved, outcome, given, promised>>

(* readString, readInt and readBool.                                       *)
Read(store, k) == IF store[k] = Absent THEN Empty ELSE store[k]

(* AppConfigLoader::load: what is empty leaves the default, but a flag that *)
(* is not stored is off.                                                   *)
Loaded(store) ==
  [k \in Known |->
     IF Read(store, k) # Empty THEN Read(store, k)
     ELSE IF k \in Flags THEN Off ELSE Default[k]]

Blank == [k \in Known |-> Absent]

SettingsInit ==
  /\ nvs = Blank
  /\ config = Loaded(nvs)
  /\ staging = config /\ unsaved = <<>> /\ outcome = "none" /\ given = {}
  /\ promised = Blank

(* Mutant: the request is completed from the defaults.                     *)
MergedFresh(body) ==
  [k \in Known |-> IF k \in DOMAIN body THEN body[k] ELSE Default[k]]

(* mergeFlatJson into a copy of what the device runs with.                 *)
Merged(body) ==
  [k \in Known |->
     IF k \notin DOMAIN body \/ (k \in Secrets /\ body[k] = Empty) THEN config[k]
     ELSE IF k \in Flags /\ body[k] = Empty THEN Off ELSE body[k]]

IsValid(settings) == \A k \in Required : settings[k] # Empty

(* applyFlatConfigJson: a copy that is not valid is refused.               *)
BeginSave(body) ==
  /\ IsValid(Merged(body))
  /\ staging' = Merged(body) /\ unsaved' = SaveOrder /\ outcome' = "good"
  /\ given' = {k \in DOMAIN body : ~(k \in Secrets /\ body[k] = Empty)}
  /\ promised' = [k \in Known |-> IF k \in given' THEN Absent ELSE promised[k]]
  /\ UNCHANGED <<nvs, config>>

(* Mutant: only the last write tells.                                      *)
WriteSettingLast ==
  /\ unsaved # <<>>
  /\ unsaved' = Tail(unsaved)
  /\ \E written, kept \in BOOLEAN :
       /\ nvs' = IF written \/ kept
                 THEN [nvs EXCEPT ![Head(unsaved)] = staging[Head(unsaved)]] ELSE nvs
       /\ outcome' = IF written THEN "good" ELSE "bad"
  /\ UNCHANGED <<config, staging, given, promised>>

(* save writes and commits one setting after the other and goes on after a *)
(* failure; a value whose commit failed may be there or not.               *)
WriteSetting ==
  /\ unsaved # <<>>
  /\ unsaved' = Tail(unsaved)
  /\ \E written, kept \in BOOLEAN :
       /\ nvs' = IF written \/ kept
                 THEN [nvs EXCEPT ![Head(unsaved)] = staging[Head(unsaved)]] ELSE nvs
       /\ outcome' = IF written THEN outcome ELSE "bad"
  /\ UNCHANGED <<config, staging, given, promised>>

(* The answer tells whether all of it is saved.                            *)
EndSave ==
  /\ outcome # "none" /\ unsaved = <<>>
  /\ promised' = [k \in Known |-> IF outcome = "good" /\ k \in given
                                 THEN staging[k] ELSE promised[k]]
  /\ outcome' = "none" /\ given' = {}
  /\ UNCHANGED <<nvs, config, staging, unsaved>>

(* resetConfig: everything that is stored is erased at once.               *)
ResetConfig ==
  /\ nvs' \in {nvs, Blank}
  /\ promised' = Blank
  /\ UNCHANGED <<config, staging, unsaved, outcome, given>>

(* ensureNvsReady, load: a flash that is full or of a newer version is     *)
(* erased, one that cannot be read leaves everything to the defaults.      *)
BootSettings ==
  /\ nvs' \in {nvs, Blank}
  /\ config' \in {Loaded(nvs'), Loaded(Blank)}
  /\ staging' = config' /\ unsaved' = <<>> /\ outcome' = "none" /\ given' = {}
  /\ UNCHANGED promised

(* collectDrift: what the next restart would change.                       *)
Drift == {k \in Known : config[k] # Loaded(nvs)[k]}
=============================================================================
