----------------------------- MODULE Telemetry ------------------------------
(***************************************************************************)
(* From the bus to the broker.  The bus thread queues every telegram for   *)
(* the system monitor's task (src/system/system_monitor.cpp), which        *)
(* updates the commands that match (src/app/command_manager.cpp) and       *)
(* queues an update for the mqtt task (Mqtt); meanwhile clients of the     *)
(* HTTP server change the list of commands (src/api/commands_api.cpp), and *)
(* an upgrade may stop everything (App::stop).                             *)
(***************************************************************************)
EXTENDS Mqtt

CONSTANTS
  BusQueueSize,  \* protocol_queue_size
  Heard          \* the keys that telegrams match, NoKey for those of errors

ASSUME TelemetryAssumption ==
  BusQueueSize \in Nat \ {0} /\ Heard \subseteq Keys \cup {NoKey}

VARIABLES
  telegrams,     \* the monitor's queue: the key each one matches, its version
  seen,          \* telegrams on the bus so far
  monitor,       \* where the monitor's task is
  current,       \* the telegram it has taken
  http,          \* where the HTTP server's task is
  removing,      \* the commands a request removes
  withdrawing    \* those of them whose topics are yet to be withdrawn

busVars == <<telegrams, seen>>
monitorVars == <<monitor, current>>
httpVars == <<http, removing, withdrawing>>
vars == <<mqttVars, busVars, monitorVars, httpVars>>

(* An error is a telegram that matches no command.                         *)
Telegrams == [key : Keys \cup {NoKey}, version : Nat]

NoTelegram == [key |-> NoKey, version |-> 0]

Init ==
  /\ MqttInit
  /\ telegrams = <<>> /\ seen = 0
  /\ monitor = "wait" /\ current = NoTelegram
  /\ http = "idle" /\ removing = {} /\ withdrawing = {}

---------------------------------------------------------------------------
(* enqueueProtocolInfo on the bus thread: a telegram that finds the queue  *)
(* full is dropped.                                                        *)
OnTelegram(key) ==
  /\ stop # "done" /\ Spend("telegrams")
  /\ seen' = seen + 1
  /\ latest' = IF key \in Keys THEN [latest EXCEPT ![key] = seen + 1] ELSE latest
  /\ IF Len(telegrams) < BusQueueSize
     THEN /\ telegrams' = Append(telegrams, [key |-> key, version |-> seen + 1])
          /\ UNCHANGED missed
     ELSE /\ missed' = missed \cup ({key} \cap Keys)
          /\ UNCHANGED telegrams
  /\ UNCHANGED <<listed, data, commandsLock, linkVars, queueVars, taskVars, stopVars, published, retained, leftBehind, monitorVars, httpVars>>

Monitoring(place) ==
  /\ monitor = place /\ resend["monitor"] = Nothing
  /\ UNCHANGED <<listed, latest, linkVars, taskVars, stopVars, published,
                 retained, leftBehind, seen, httpVars,
                 budget>>

(* Mutant: the most recent telegram is taken first.                        *)
TakeTelegramLast ==
  /\ Monitoring("wait") /\ telegrams # <<>>
  /\ telegrams' = Front(telegrams)
  /\ monitor' = "update" /\ current' = Last(telegrams)
  /\ UNCHANGED <<queueVars, missed, data, commandsLock>>

(* processProtocolInfo: errors go to the broker, the rest to updateData.   *)
TakeTelegram ==
  /\ Monitoring("wait") /\ telegrams # <<>>
  /\ telegrams' = Tail(telegrams)
  /\ LET telegram == Head(telegrams) IN
       IF telegram.key = NoKey
       THEN Enqueue("monitor", Entry("error", NoKey)) /\ UNCHANGED monitorVars
       ELSE /\ monitor' = "update" /\ current' = telegram
            /\ UNCHANGED <<queueVars, missed>>
  /\ UNCHANGED <<data, commandsLock>>

(* updateData, under the commands lock: the bytes are copied ...           *)
BeginUpdate ==
  /\ Monitoring("update") /\ Free
  /\ IF current.key \in listed
     THEN /\ data' = [data EXCEPT ![current.key] = Torn]
          /\ commandsLock' = "monitor" /\ monitor' = "copy"
          /\ UNCHANGED current
     ELSE /\ monitor' = "wait" /\ current' = NoTelegram
          /\ UNCHANGED <<data, commandsLock>>
  /\ UNCHANGED <<queueVars, missed, telegrams>>

(* ... and the callback queues an update.                                  *)
EndUpdate ==
  /\ Monitoring("copy")
  /\ data' = [data EXCEPT ![current.key] = current.version]
  /\ Enqueue("monitor", Entry("update", current.key))
  /\ monitor' = "unlock"
  /\ UNCHANGED <<current, commandsLock, telegrams>>

(* Mutant: the lock is kept.                                               *)
UpdatedLocked ==
  /\ Monitoring("unlock")
  /\ monitor' = "wait" /\ current' = NoTelegram
  /\ UNCHANGED <<data, commandsLock, queueVars, missed, telegrams>>

Updated ==
  /\ Monitoring("unlock")
  /\ commandsLock' = "free"
  /\ monitor' = "wait" /\ current' = NoTelegram
  /\ UNCHANGED <<data, queueVars, missed, telegrams>>

MonitorStep == TakeTelegram \/ BeginUpdate \/ EndUpdate \/ Updated

---------------------------------------------------------------------------
(* The requests that change the list, one at a time on the server's task.  *)
Serving(place) ==
  /\ http = place /\ resend["http"] = Nothing
  /\ UNCHANGED <<latest, linkVars, topics, stopVars, published, busVars, monitorVars>>

Edit ==
  /\ Serving("idle") /\ Free /\ Spend("edits")
  /\ commandsLock' = "http"

(* insertCommand and the callback for a changed command, which queues its  *)
(* component; the request then queues all components.                      *)
InsertCommand(key) ==
  /\ Edit
  /\ listed' = listed \cup {key}
  /\ data' = [data EXCEPT ![key] = 0]
  /\ missed' = missed \cup {key}
  /\ http' = "changed" /\ removing' = {key}
  /\ UNCHANGED <<queueVars, task, hand, withdrawing, retained, leftBehind>>

CommandChanged ==
  /\ Serving("changed")
  /\ \E key \in removing :
       IF key \in HaKeys THEN Enqueue("http", Entry("component", key))
       ELSE UNCHANGED <<queueVars, missed>>
  /\ http' = "inserted" /\ removing' = {}
  /\ UNCHANGED <<listed, data, commandsLock, task, hand, withdrawing,
                 retained, leftBehind>>

Inserted ==
  /\ Serving("inserted")
  /\ commandsLock' = "free"
  /\ Enqueue("http", Entry("components", NoKey))
  /\ http' = "idle"
  /\ UNCHANGED <<listed, data, task, hand, removing, withdrawing,
                 retained, leftBehind>>

(* removeCommand and removeAll ("remove"), the request to wipe ("wipe"):   *)
(* the topics are withdrawn first, under the commands lock.                *)
BeginRemoval(keys, how) ==
  /\ Edit
  /\ http' = how
  /\ removing' = keys /\ withdrawing' = keys \cap HaKeys
  /\ leftBehind' = {}
  /\ UNCHANGED <<listed, data, queueVars, task, hand, retained, missed>>

Withdraw ==
  /\ http \in {"remove", "wipe"} /\ Serving(http) /\ ~MqttLocked
  /\ \E key \in withdrawing, sent \in BOOLEAN :
       WithdrawTopic(key, sent) /\ withdrawing' = withdrawing \ {key}
  /\ UNCHANGED <<listed, data, commandsLock, queueVars, task, hand, http, removing>>

(* The elements behind an erased one move, under the pointers of others.   *)
Erase(keys) ==
  /\ listed' = listed \ keys
  /\ data' = [k \in Keys |-> IF k \in keys THEN 0 ELSE data[k]]
  /\ outgoing' = [i \in 1..Len(outgoing) |-> Moved(outgoing[i])]
  /\ resend' = [p \in Producers |-> Moved(resend[p])]
  /\ hand' = IF task = "value" THEN [hand EXCEPT !.key = Unknown] ELSE Moved(hand)
  /\ reading' = IF reading = NoKey THEN NoKey ELSE Unknown
  /\ missed' = missed \cup (IF task = "value" THEN {hand.key} \cap Keys ELSE {})

Removed ==
  /\ Serving("remove") /\ withdrawing = {}
  /\ Erase(removing)
  /\ commandsLock' = "free"
  /\ http' = "idle" /\ removing' = {}
  /\ UNCHANGED <<queue, full, task, withdrawing, retained, leftBehind>>

(* Wiping lets go of the lock before it takes it again to clear the list.  *)
Withdrawn ==
  /\ Serving("wipe") /\ withdrawing = {}
  /\ commandsLock' = "free"
  /\ http' = "wiped" /\ removing' = {}
  /\ UNCHANGED <<listed, data, queueVars, task, hand, withdrawing,
                 retained, leftBehind, missed>>

Wiped ==
  /\ Serving("wiped") /\ Free
  /\ Erase(listed)
  /\ http' = "idle"
  /\ UNCHANGED <<commandsLock, queue, full, task, removing, withdrawing, retained,
                 leftBehind>>

HttpStep ==
  /\ CommandChanged \/ Inserted \/ Withdraw \/ Removed \/ Withdrawn \/ Wiped
  /\ UNCHANGED budget

---------------------------------------------------------------------------
(* The end of App::stop: the monitor's task is deleted wherever it is.     *)
StopServices ==
  /\ stop = "services"
  /\ stop' = "done" /\ monitor' = "deleted"
  /\ UNCHANGED <<listVars, linkVars, queueVars, taskVars, shouldRun, brokerVars,
                 busVars, current, httpVars, budget>>

Requests ==
  \/ \E key \in Keys : InsertCommand(key) \/ BeginRemoval({key} \cap listed, "remove")
  \/ \E how \in {"remove", "wipe"} : BeginRemoval(listed, how)

Events ==
  \/ StartTask
  \/ OnConnected \/ OnDisconnected
  \/ (\E key \in Keys : Read(key)) \/ PublishRead
  \/ \E p \in Producers : MakeRoom(p) \/ Resend(p)

Next ==
  \/ \E key \in Heard : OnTelegram(key)
  \/ MonitorStep \/ HttpStep \/ Requests \/ StopServices
  \/ (MqttStep \/ Events \/ StopStep) /\ UNCHANGED <<busVars, monitorVars, httpVars>>

Spec == Init /\ [][Next]_vars

(* Each task that has something to do is run in the end; whether anything  *)
(* comes over the bus, the air or HTTP is up to others.                    *)
Fairness ==
  /\ WF_vars(MonitorStep)
  /\ WF_vars(HttpStep)
  /\ WF_vars((StartTask \/ MqttStep) /\ UNCHANGED <<busVars, monitorVars, httpVars>>)
  /\ \A p \in Producers :
       WF_vars((MakeRoom(p) \/ Resend(p)) /\ UNCHANGED <<busVars, monitorVars, httpVars>>)

FairSpec == Spec /\ Fairness

---------------------------------------------------------------------------
(* The types of the variables, for either part.                            *)
MqttTypeOK ==
  /\ listed \in SUBSET Keys
  /\ data \in [Keys -> Nat \cup {Torn}]
  /\ latest \in [Keys -> Nat]
  /\ commandsLock \in {"free", "monitor", "mqtt", "http"}
  /\ client \in BOOLEAN /\ connected \in BOOLEAN /\ early \in BOOLEAN
  /\ budget \in [Outside -> Nat]
  /\ queue \in BOOLEAN /\ outgoing \in Seq(Entries)
  /\ resend \in [Producers -> Entries] /\ full \in SUBSET Producers
  /\ reading \in Keys \cup {NoKey, Unknown}
  /\ task \in {"none", "created", "top", "state", "wait", "handle", "value", "all",
              "component", "ended", "fault"}
  /\ hand \in Entries /\ topics \in SUBSET HaKeys
  /\ shouldRun \in BOOLEAN
  /\ stop \in {"no", "waiting", "clear", "client", "services", "done"}
  /\ published \in [Keys -> Nat \cup {Torn}]
  /\ retained \in SUBSET (HaKeys \cup {Device})
  /\ leftBehind \in SUBSET HaKeys
  /\ missed \in SUBSET (Keys \cup {Device, NoKey, Unknown})

TypeOK ==
  /\ MqttTypeOK
  /\ telegrams \in Seq(Telegrams) /\ seen \in Nat
  /\ monitor \in {"wait", "update", "copy", "unlock", "deleted"}
  /\ current \in Telegrams
  /\ http \in {"idle", "changed", "inserted", "remove", "wipe", "wiped"}
  /\ removing \in SUBSET Keys /\ withdrawing \in SUBSET HaKeys

(* Where each task holds the commands lock.                                *)
LockOwned ==
  /\ commandsLock = "mqtt" <=> task = "all"
  /\ commandsLock = "http" <=> http \in {"changed", "inserted", "remove", "wipe"}
  /\ monitor \in {"copy", "unlock"} => commandsLock = "monitor"
  /\ commandsLock = "monitor" => monitor \in {"copy", "unlock", "deleted"}

(* The queues keep to their sizes.                                         *)
QueuesFit == Len(outgoing) <= QueueSize /\ Len(telegrams) <= BusQueueSize

(* A removal withdraws topics of what it removes; what the broker still    *)
(* holds of it is yet to be withdrawn, or known.                           *)
RequestsInOrder ==
  /\ removing \subseteq listed /\ withdrawing \subseteq removing
  /\ http \in {"idle", "inserted", "wiped"} => removing = {}
  /\ http = "changed" => withdrawing = {}
  /\ http \in {"remove", "wipe"} => retained \cap removing \subseteq withdrawing \cup leftBehind

(* Without a client there is no connection, without the task no queue.     *)
StopsInOrder ==
  /\ stop \in {"services", "done"} => ~client
  /\ connected => client
  /\ stop = "no" /\ task \in {"none", "created"} => ~queue /\ outgoing = <<>>
  /\ stop = "no" /\ task # "none" => shouldRun

(* The monitor has a telegram that it has not copied.                      *)
Taken == monitor \in {"update", "copy"}

(* A version that is older than all that are still to be copied.           *)
Old(version) ==
  /\ version <= seen
  /\ \A i \in 1..Len(telegrams) : version < telegrams[i].version
  /\ Taken => version < current.version

(* Telegrams are copied in the order in which they were seen.              *)
VersionsInOrder ==
  /\ \A i \in 1..Len(telegrams) :
       /\ telegrams[i].version \in 1..seen
       /\ telegrams[i].key \in Keys => telegrams[i].version <= latest[telegrams[i].key]
       /\ \A j \in 1..Len(telegrams) : i < j => telegrams[i].version < telegrams[j].version
  /\ Taken =>
       /\ current.version \in 1..seen
       /\ current.key \in Keys /\ current.version <= latest[current.key]
       /\ \A i \in 1..Len(telegrams) : current.version < telegrams[i].version
  /\ \A key \in Keys :
       /\ data[key] = Torn \/ Old(data[key])
       /\ published[key] = Torn \/ Old(published[key])
       /\ data[key] \in {0, Torn} \/ published[key] = Torn \/ published[key] <= data[key]

(* The last telegram for a command has not been copied.                    *)
Coming(key) ==
  LET telegram == [key |-> key, version |-> latest[key]] IN
  \/ \E i \in 1..Len(telegrams) : telegrams[i] = telegram
  \/ Taken /\ current = telegram

Queued(key) ==
  \/ \E i \in 1..Len(outgoing) : outgoing[i] = Entry("update", key)
  \/ \E p \in Producers : resend[p] = Entry("update", key)
  \/ task \in {"handle", "value"} /\ hand = Entry("update", key)

(* What was copied is published in the end, and it is the last.            *)
UpdatesArrive ==
  stop = "no" =>
    \A key \in listed \ missed :
      /\ data[key] = latest[key] \/ Coming(key)
      /\ published[key] = latest[key] \/ Coming(key) \/ Queued(key)

(* The type invariant and its strengthening: the commands lock is held by  *)
(* exactly the task that is between its lock and its unlock (or was, when  *)
(* it was deleted there), and requests, the stop, telegrams and updates    *)
(* keep to their order.                                                    *)
IInv ==
  /\ TypeOK /\ LockOwned /\ QueuesFit
  /\ RequestsInOrder /\ StopsInOrder /\ VersionsInOrder /\ UpdatesArrive

(* A telegram, or the update it caused, is on its way to the broker.       *)
Pending(key) ==
  \/ \E i \in DOMAIN telegrams : telegrams[i].key = key
  \/ Taken /\ current.key = key
  \/ Queued(key)

(* Until everything is stopped, the broker has the last value that the bus *)
(* carried for a command, unless its update is on its way, or was lost     *)
(* with a full queue, a link that was broken or not yet there (values are  *)
(* then turned away silently, as enqueueOutgoing says), or a change of the *)
(* list: no order of the tasks loses another one, and updates that         *)
(* overtake or join each other do no harm because each publishes what is   *)
(* there then.                                                             *)
Fresh ==
  stop = "no" =>
    \A key \in listed : \/ published[key] = latest[key]
                        \/ key \in missed
                        \/ Pending(key)

(* When commands are removed over HTTP, the broker no longer holds their   *)
(* discovery topics, unless it could not be told (no connection) or an     *)
(* entry for a single component, queued before, was published in between.  *)
RemovalWithdraws ==
  [][Removed => retained' \cap removing \subseteq leftBehind]_vars

(* "Stop MQTT first ... Now safe to stop other components": nothing is     *)
(* published after the client was stopped, whatever the tasks still do.    *)
StoppedSilent ==
  [][(stop \in {"services", "done"}) => UNCHANGED <<published, retained>>]_vars

(* The values that the broker gets for a command never go back to an older *)
(* telegram, except that a command inserted again starts with none.        *)
NeverBackwards ==
  [][\A key \in Keys :
       published[key] # Torn /\ published'[key] \notin {0, Torn}
         => published'[key] >= published[key]]_vars

(* The mqtt task publishes one component under its mutex, for which a      *)
(* request waits that withdraws topics under the commands lock.            *)
Crossing ==
  task = "component" /\ http \in {"remove", "wipe"} /\ withdrawing # {}

(* Mutex against mutex: the mqtt task waits for the commands lock, too.    *)
Deadlocked == Crossing /\ hand.key \in Numbers

NoDeadlock == ~Deadlocked

(* Nothing ends it, neither a telegram, nor a lost link, nor the stop of   *)
(* an upgrade: each waits for ever.                                        *)
DeadlockStays == [][Deadlocked => Deadlocked']_vars

(* The task t waits for a mutex that u holds.  (An address that has become *)
(* stale may be one of a number.)                                          *)
Waits(t, u) ==
  \/ /\ u = commandsLock
     /\ \/ t = "monitor" /\ monitor = "update"
        \/ t = "http" /\ http = "wiped"
        \/ t = "mqtt" /\ task = "handle" /\ hand.type \in {"update", "components"}
        \/ t = "mqtt" /\ task = "component" /\ hand.key \in Numbers \cup {Unknown}
  \/ /\ u = "mqtt" /\ MqttLocked
     /\ t = "http" /\ http \in {"remove", "wipe"} /\ withdrawing # {}

(* Wherever tasks wait for each other in a circle, two or three of them,   *)
(* it is that crossing: the two mutexes meet nowhere else.                 *)
OnlyCrossing ==
  \A tasks \in SUBSET {"monitor", "mqtt", "http"} :
    tasks # {} /\ (\A t \in tasks : \E u \in tasks : Waits(t, u)) => Crossing

(* While the broker stays connected, the value of every command that stays *)
(* listed is brought up to date again and again, unless something of it    *)
(* was lost: no order of the tasks leaves an update unpublished.           *)
Delivered ==
  \A key \in Keys :
    <>[](connected /\ stop = "no" /\ key \in listed /\ ~Deadlocked)
      => []<>(published[key] = latest[key] \/ key \in missed)

(* The broker has the discovery topics of the device and of all commands   *)
(* in the list; or it need not: the link breaks again, the task is stopped *)
(* or in the deadlock, or an entry or a publication of the discovery was   *)
(* dropped during this connection, which the program counts and logs.      *)
Announced ==
  \/ Device \in retained /\ listed \cap HaKeys \subseteq retained
  \/ ~connected \/ Device \in missed
  \/ stop # "no" \/ Deadlocked

(* "discovery re-runs on every (re)connect": a connect leads to all of it, *)
(* unless the broker connected before the mqtt task had made its queue.    *)
Rediscovered == connected ~> Announced \/ early

(* The same without exception, as the comment has it: not so, because the  *)
(* entry that starts the discovery is turned away without a queue, and     *)
(* nothing tells anyone (finding 8).                                       *)
RediscoveredAlways == connected ~> Announced
=============================================================================
