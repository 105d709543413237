-------------------------------- MODULE Mqtt --------------------------------
(***************************************************************************)
(* The MQTT client of the internal variant (src/app/mqtt.cpp) with the     *)
(* discovery messages for Home Assistant (src/app/mqtt_ha.cpp): its        *)
(* outgoing queue, the task that empties it, the events of the client      *)
(* library, and the stop before an upgrade.                                *)
(*                                                                         *)
(* Several tasks put entries into the queue, and the mqtt task publishes   *)
(* them.  It reads the list of commands, which the HTTP server's task      *)
(* changes under the commands lock, and every publication takes the mqtt   *)
(* lock.  MQTT and the discovery are enabled.                              *)
(*                                                                         *)
(* What is published is reduced to what the properties tell apart: the     *)
(* version of a command's value, and which discovery topics the broker     *)
(* holds.  Every command with an HA profile has one field.                 *)
(***************************************************************************)
EXTENDS Naturals, FiniteSets, SequencesExt

CONSTANTS
  Keys,          \* keys of commands
  HaKeys,        \* those with an HA profile
  Numbers,       \* those shown as a number, whose discovery states limits
  NoKey,         \* the key of an entry that carries none
  Unknown,       \* a pointer into the list whose element has moved
  Device,        \* the device's own discovery topics; their loss
  Torn,          \* bytes read while they are being written
  QueueSize,     \* max_outgoing_queue_size_
  Budgets        \* bounds: how often what comes from outside may happen

Outside == {"telegrams", "links", "edits", "stops"}

ASSUME MqttAssumption ==
  /\ IsFiniteSet(Keys) /\ HaKeys \subseteq Keys /\ Numbers \subseteq HaKeys
  /\ NoKey \notin Keys /\ Unknown \notin Keys /\ Device \notin Keys
  /\ NoKey # Unknown
  /\ Torn \notin Nat
  /\ QueueSize \in Nat \ {0}
  /\ Budgets \subseteq [Outside -> Nat]

(* OutgoingAction: an update carries the key, a component the address of   *)
(* the command.  Nothing in the program queues "data", "ha_enable" or      *)
(* "ha_disable".                                                           *)
Types == {"component", "error", "update", "components", "ha_connected"}

Entries == [type : Types, key : Keys \cup {NoKey, Unknown}]

Entry(type, key) == [type |-> type, key |-> key]

(* What a task that is not in the middle of enqueueOutgoing has to send,   *)
(* and the mqtt task's hand when it is empty.                              *)
Nothing == Entry("error", Unknown)

(* The tasks that queue entries.                                           *)
Producers == {"monitor", "http", "client"}

VARIABLES
  listed,        \* commands_
  data,          \* the version of data_ of each command; 0: none
  latest,        \* the version of the last telegram for it on the bus
  commandsLock,  \* who holds the commands mutex across steps
  client,        \* client_ # nullptr
  connected,     \* connected_
  early,         \* the broker connected before there was a queue
  budget,        \* how often the outside may still act
  queue,         \* outgoing_queue_ # nullptr
  outgoing,      \* the queue
  resend,        \* what a producer that found the queue full has yet to send
  full,          \* the producers that have yet to make room for it
  reading,       \* the command that a client of the broker reads, or NoKey
  task,          \* where the mqtt task is
  hand,          \* the entry it has taken
  topics,        \* the discovery topics it has yet to publish
  shouldRun,     \* task_should_run_
  stop,          \* where App::stop is
  published,     \* the version last published of each value
  retained,      \* the discovery topics that the broker holds
  leftBehind,    \* topics that a removal under way did not withdraw
  missed         \* the values, and Device, of which something was lost

listVars == <<listed, data, latest, commandsLock>>
linkVars == <<client, connected, early>>
queueVars == <<queue, outgoing, resend, full, reading>>
taskVars == <<task, hand, topics>>
stopVars == <<shouldRun, stop>>
brokerVars == <<published, retained, leftBehind, missed>>
mqttVars ==
  <<listVars, linkVars, queueVars, taskVars, stopVars, brokerVars, budget>>

(* The start of the main loop of a boot: the client runs, the task and its *)
(* queue do not exist yet.                                                 *)
MqttInit ==
  /\ listed \in SUBSET Keys
  /\ data = [k \in Keys |-> 0]
  /\ latest = [k \in Keys |-> 0]
  /\ commandsLock = "free"
  /\ client = TRUE /\ connected = FALSE /\ early = FALSE
  /\ budget \in Budgets
  /\ queue = FALSE /\ outgoing = <<>>
  /\ resend = [p \in Producers |-> Nothing] /\ full = {} /\ reading = NoKey
  /\ task = "none" /\ hand = Nothing /\ topics = {}
  /\ shouldRun = FALSE
  /\ stop = "no"
  /\ published = [k \in Keys |-> 0]
  /\ retained = {} /\ leftBehind = {} /\ missed = {}

Spend(what) ==
  /\ budget[what] > 0
  /\ budget' = [budget EXCEPT ![what] = @ - 1]

---------------------------------------------------------------------------
(* What is lost with an entry.                                             *)
LossOf(entry) ==
  IF entry = Nothing \/ entry.type = "error" THEN {}
  ELSE IF entry.type = "update" THEN {entry.key}
  ELSE {Device}

(* The gates before the queue: nothing without a queue, and no values      *)
(* while the broker is not connected.                                      *)
Wanted(entry) ==
  /\ queue
  /\ entry.type \in {"update", "error"} => connected

(* enqueueOutgoing.  The gates turn an entry away without counting it; for *)
(* a value ("refresh cyclically") that is a loss like any other, what they *)
(* take from the discovery is not in missed.  A producer that finds the    *)
(* queue full makes room in a step of its own, and sends in another.       *)
Enqueue(producer, entry) ==
  /\ resend[producer] = Nothing
  /\ UNCHANGED <<queue, reading>>
  /\ \/ /\ ~Wanted(entry)
        /\ missed' = missed \cup (LossOf(entry) \ {Device})
        /\ UNCHANGED <<outgoing, resend, full>>
     \/ /\ Wanted(entry) /\ Len(outgoing) < QueueSize
        /\ outgoing' = Append(outgoing, entry)
        /\ UNCHANGED <<resend, full, missed>>
     \/ /\ Wanted(entry) /\ Len(outgoing) >= QueueSize
        /\ resend' = [resend EXCEPT ![producer] = entry]
        /\ full' = full \cup {producer}
        /\ UNCHANGED <<outgoing, missed>>

(* The oldest entry is taken out: the oldest of that moment.  If the queue *)
(* was emptied meanwhile, the producer's own entry is dropped instead.     *)
MakeRoom(producer) ==
  /\ producer \in full
  /\ full' = full \ {producer}
  /\ IF queue /\ outgoing # <<>>
     THEN /\ outgoing' = Tail(outgoing) /\ UNCHANGED resend
          /\ missed' = missed \cup LossOf(Head(outgoing))
     ELSE /\ resend' = [resend EXCEPT ![producer] = Nothing] /\ UNCHANGED outgoing
          /\ missed' = missed \cup LossOf(resend[producer])
  /\ UNCHANGED <<listVars, linkVars, queue, reading, taskVars, stopVars, published,
                 retained, leftBehind, budget>>

(* The entry is sent again; whoever was quicker may have taken its place.  *)
Resend(producer) ==
  LET entry == resend[producer] IN
  /\ entry # Nothing /\ producer \notin full
  /\ resend' = [resend EXCEPT ![producer] = Nothing]
  /\ IF queue /\ Len(outgoing) < QueueSize
     THEN outgoing' = Append(outgoing, entry) /\ UNCHANGED missed
     ELSE missed' = missed \cup LossOf(entry) /\ UNCHANGED outgoing
  /\ UNCHANGED <<listVars, linkVars, queue, full, reading, taskVars, stopVars, published,
                 retained, leftBehind, budget>>

---------------------------------------------------------------------------
(* internalPublish: nothing is published without a client or a connection, *)
(* and the client may refuse a message while the link is slow.             *)
Sendable(sent) == sent => client /\ connected

(* handleValueUpdate and writeValuePayload: the value as the bytes of the  *)
(* command are at that moment.                                             *)
PublishValue(key, sent) ==
  /\ Sendable(sent)
  /\ published' = IF sent THEN [published EXCEPT ![key] = data[key]] ELSE published
  /\ missed' = IF ~sent THEN missed \cup {key}
               ELSE IF data[key] = latest[key] THEN missed \ {key}
               ELSE missed
  /\ UNCHANGED <<retained, leftBehind>>

(* publishComponent for a command in the list.  Without a connection it is *)
(* skipped silently, because "discovery re-runs on every (re)connect".     *)
PublishTopic(key, sent) ==
  /\ Sendable(sent)
  /\ retained' = IF sent THEN retained \cup {key} ELSE retained
  /\ missed' = IF sent \/ ~connected THEN missed ELSE missed \cup {Device}
  /\ UNCHANGED published

(* publishComponent with remove: an empty retained message.                *)
WithdrawTopic(key, sent) ==
  /\ Sendable(sent)
  /\ retained' = IF sent THEN retained \ {key} ELSE retained
  /\ leftBehind' = IF sent THEN leftBehind \ {key} ELSE leftBehind \cup {key}
  /\ UNCHANGED <<published, missed>>

---------------------------------------------------------------------------
(* The mqtt task.  It holds mqtt_mutex_ across steps only while it waits   *)
(* for the commands lock in the middle of a publication.                   *)
Free == commandsLock = "free"

(* Mutant: publications do not exclude each other.                         *)
MqttUnlocked == FALSE

MqttLocked == task = "component"

At(place) ==
  /\ task = place
  /\ UNCHANGED <<listed, data, latest, linkVars, shouldRun, stop, budget>>

(* The address of a command is not refreshed when the list moves.          *)
Moved(entry) ==
  IF entry.type = "component" THEN [entry EXCEPT !.key = Unknown] ELSE entry

StartTask ==
  /\ task = "none"
  /\ task' = "created" /\ shouldRun' = TRUE
  /\ UNCHANGED <<listVars, linkVars, queueVars, hand, topics, stop, brokerVars, budget>>

(* The queue is created anew by the task itself.                           *)
CreateQueue ==
  /\ At("created")
  /\ queue' = TRUE /\ outgoing' = <<>>
  /\ task' = "top"
  /\ UNCHANGED <<resend, full, reading, hand, topics, commandsLock, brokerVars>>

(* The head of the loop: the task ends, or publishes its state when that   *)
(* is due, or waits for an entry.                                          *)
Loop ==
  /\ At("top") /\ shouldRun
  /\ task' \in IF connected THEN {"state", "wait"} ELSE {"wait"}
  /\ UNCHANGED <<hand, topics, commandsLock, queueVars, brokerVars>>

EndTask ==
  /\ At("top") /\ ~shouldRun
  /\ task' = "ended"
  /\ queue' = FALSE
  /\ outgoing' = IF queue THEN <<>> ELSE outgoing
  /\ UNCHANGED <<resend, full, reading, hand, topics, commandsLock, brokerVars>>

(* Publishing the state may take longer than App::stop waits; by then the  *)
(* queue may be gone, and receiving from no queue ends in an assertion.    *)
PublishState ==
  /\ At("state")
  /\ task' = IF queue THEN "wait" ELSE "fault"
  /\ UNCHANGED <<hand, topics, commandsLock, queueVars, brokerVars>>

WaitTimeout ==
  /\ At("wait") /\ outgoing = <<>>
  /\ task' = "top"
  /\ UNCHANGED <<hand, topics, commandsLock, queueVars, brokerVars>>

(* An entry that is received after the signal to stop is dropped.          *)
Receive ==
  /\ At("wait") /\ outgoing # <<>>
  /\ outgoing' = Tail(outgoing)
  /\ IF shouldRun
     THEN task' = "handle" /\ hand' = Head(outgoing) /\ UNCHANGED missed
     ELSE /\ task' = "top" /\ UNCHANGED hand
          /\ missed' = missed \cup LossOf(Head(outgoing))
  /\ UNCHANGED <<queue, resend, full, reading, topics, commandsLock,
                 published, retained, leftBehind>>

Handle(type) ==
  /\ At("handle") /\ hand.type = type
  /\ UNCHANGED queueVars

Handled == task' = "top" /\ hand' = Nothing

HandleError ==
  /\ Handle("error")
  /\ Handled
  /\ UNCHANGED <<topics, commandsLock, brokerVars>>

(* Mutant: the task does not wait for the commands lock.                   *)
FindValueTry ==
  /\ Handle("update")
  /\ IF Free /\ hand.key \in listed THEN task' = "value" /\ UNCHANGED hand ELSE Handled
  /\ UNCHANGED <<topics, commandsLock, brokerVars>>

(* An update finds its command under the commands lock and reads it after. *)
FindValue ==
  /\ Handle("update") /\ Free
  /\ IF hand.key \in listed THEN task' = "value" /\ UNCHANGED hand ELSE Handled
  /\ UNCHANGED <<topics, commandsLock, brokerVars>>

PublishFound ==
  /\ At("value")
  /\ \/ \E key \in listed, sent \in BOOLEAN :
          /\ hand.key \in {key, Unknown}
          /\ PublishValue(key, sent)
     \/ hand.key = Unknown /\ UNCHANGED brokerVars
  /\ Handled
  /\ UNCHANGED <<topics, commandsLock, queueVars>>

(* Mutant: the components are left for later.                              *)
PublishDeviceOnly ==
  /\ Handle("ha_connected")
  /\ Handled
  /\ \E sent \in BOOLEAN :
       /\ Sendable(sent)
       /\ retained' = IF sent THEN retained \cup {Device} ELSE retained
       /\ missed' = IF sent THEN missed \ {Device}
                    ELSE IF connected THEN missed \cup {Device} ELSE missed
  /\ UNCHANGED <<topics, commandsLock, published, leftBehind>>

(* onMqttConnected: publishDeviceInfo, then the components.                *)
PublishDevice ==
  /\ Handle("ha_connected")
  /\ hand' = Entry("components", NoKey) /\ UNCHANGED task
  /\ \E sent \in BOOLEAN :
       /\ Sendable(sent)
       /\ retained' = IF sent THEN retained \cup {Device} ELSE retained
       /\ missed' = IF sent THEN missed \ {Device}
                    ELSE IF connected THEN missed \cup {Device} ELSE missed
  /\ UNCHANGED <<topics, commandsLock, published, leftBehind>>

(* Mutant: the list is not locked.                                         *)
BeginComponentsUnlocked ==
  /\ Handle("components")
  /\ topics' = listed \cap HaKeys /\ task' = "all"
  /\ UNCHANGED <<hand, commandsLock, brokerVars>>

(* publishComponents: the commands lock is held for all of them.           *)
BeginComponents ==
  /\ Handle("components") /\ Free
  /\ commandsLock' = "mqtt"
  /\ topics' = listed \cap HaKeys /\ task' = "all"
  /\ UNCHANGED <<hand, brokerVars>>

PublishNext ==
  /\ At("all")
  /\ \E key \in topics, sent \in BOOLEAN :
       PublishTopic(key, sent) /\ topics' = topics \ {key}
  /\ UNCHANGED <<task, hand, commandsLock, queueVars, leftBehind>>

EndComponents ==
  /\ At("all") /\ topics = {}
  /\ commandsLock' = "free"
  /\ Handled
  /\ UNCHANGED <<topics, queueVars, brokerVars>>

(* A single component: publishStream takes the mqtt lock, and the limits   *)
(* of a number are then read under the commands lock.                      *)
BeginComponent ==
  /\ Handle("component")
  /\ task' = "component"
  /\ UNCHANGED <<hand, topics, commandsLock, brokerVars>>

PublishComponent ==
  /\ At("component")
  /\ \/ \E key \in HaKeys, sent \in BOOLEAN :
          /\ hand.key \in {key, Unknown}
          /\ key \in Numbers => Free
          /\ PublishTopic(key, sent)
          /\ leftBehind' = leftBehind \cup {key}
     \/ hand.key = Unknown /\ UNCHANGED brokerVars
  /\ Handled
  /\ UNCHANGED <<topics, commandsLock, queueVars>>

MqttStep ==
  \/ CreateQueue \/ Loop \/ EndTask \/ PublishState \/ WaitTimeout \/ Receive
  \/ HandleError \/ FindValue \/ PublishFound \/ PublishDevice
  \/ BeginComponents \/ PublishNext \/ EndComponents
  \/ BeginComponent \/ PublishComponent

---------------------------------------------------------------------------
(* The events of the client library, which its own task handles.           *)
OnConnected ==
  /\ client /\ ~connected /\ ~MqttLocked /\ Spend("links")
  /\ connected' = TRUE /\ early' = ~queue
  /\ Enqueue("client", Entry("ha_connected", NoKey))
  /\ UNCHANGED <<listVars, client, taskVars, stopVars, published, retained,
                 leftBehind>>

(* The task handles one event after the other.  What was lost of the       *)
(* discovery no longer matters: the next connect repeats all of it.        *)
OnDisconnected ==
  /\ connected /\ resend["client"] = Nothing /\ reading = NoKey
  /\ connected' = FALSE
  /\ missed' = missed \ {Device}
  /\ UNCHANGED <<listVars, client, early, queueVars, taskVars, stopVars, published,
                 retained, leftBehind, budget>>

(* handleRead: a client of the broker asks for the value of a command,     *)
(* which is found under the commands lock and read after it.               *)
Read(key) ==
  /\ client /\ connected /\ Free
  /\ resend["client"] = Nothing /\ reading = NoKey
  /\ key \in listed
  /\ reading' = key
  /\ UNCHANGED <<listVars, linkVars, queue, outgoing, resend, full, taskVars, stopVars,
                 brokerVars, budget>>

PublishRead ==
  /\ client /\ reading # NoKey /\ ~MqttLocked
  /\ \/ \E key \in listed :
          reading \in {key, Unknown} /\ PublishValue(key, TRUE)
     \/ UNCHANGED brokerVars
  /\ reading' = NoKey
  /\ UNCHANGED <<listVars, linkVars, queue, outgoing, resend, full, taskVars, stopVars, budget>>

---------------------------------------------------------------------------
(* stopTask, step by step; the rest of App::stop follows.                  *)
StopSignal ==
  /\ stop = "no" /\ Spend("stops")
  /\ IF task = "none"
     THEN stop' = "client" /\ UNCHANGED <<shouldRun, outgoing>>
     ELSE /\ stop' = "waiting" /\ shouldRun' = FALSE
          /\ outgoing' = IF queue /\ Len(outgoing) < QueueSize
                         THEN Append(outgoing, Entry("error", NoKey)) ELSE outgoing
  /\ UNCHANGED <<listVars, linkVars, queue, resend, full, reading, taskVars, brokerVars>>

(* The task has ended, or a second has passed.                             *)
StopWaited ==
  /\ stop = "waiting"
  /\ stop' = "clear"
  /\ UNCHANGED <<listVars, linkVars, queueVars, taskVars, shouldRun, brokerVars, budget>>

StopClear ==
  /\ stop = "clear" /\ ~MqttLocked
  /\ queue' = FALSE /\ shouldRun' = FALSE
  /\ stop' = "client"
  /\ UNCHANGED <<listVars, linkVars, outgoing, resend, full, reading, taskVars,
                 brokerVars, budget>>

(* Mutant: the client stays.                                               *)
StopClientKept ==
  /\ stop = "client" /\ ~MqttLocked
  /\ stop' = "services"
  /\ UNCHANGED <<listVars, linkVars, queueVars, taskVars, shouldRun, brokerVars, budget>>

StopClient ==
  /\ stop = "client" /\ ~MqttLocked
  /\ connected' = FALSE /\ client' = FALSE
  /\ stop' = "services"
  /\ UNCHANGED <<early, listVars, queueVars, taskVars, shouldRun, brokerVars, budget>>

StopStep == StopSignal \/ StopWaited \/ StopClear \/ StopClient
=============================================================================
