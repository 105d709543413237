--------------------------- MODULE TelemetryProofs ---------------------------
(***************************************************************************)
(* Proofs about Telemetry, for any commands, queue sizes and bounds.       *)
(***************************************************************************)
EXTENDS Telemetry, SequenceTheorems, TLAPS

USE DEF Free, MqttLocked

---------------------------------------------------------------------------
(* The queue.  An update that waits in it stays there, or is known to be   *)
(* lost.                                                                   *)

InLine(line, key) == \E i \in 1..Len(line) : line[i] = Entry("update", key)

AtProducer(held, key) == \E p \in Producers : held[p] = Entry("update", key)

QueueTyped ==
  /\ queue \in BOOLEAN /\ outgoing \in Seq(Entries) /\ Len(outgoing) <= QueueSize
  /\ resend \in [Producers -> Entries]
  /\ missed \in SUBSET (Keys \cup {Device, NoKey, Unknown})

(* What a step on the queue may do to it.                                  *)
QueueStep ==
  /\ queue' = queue
  /\ outgoing' \in Seq(Entries) /\ Len(outgoing') <= QueueSize
  /\ resend' \in [Producers -> Entries]
  /\ missed' \in SUBSET (Keys \cup {Device, NoKey, Unknown}) /\ missed \subseteq missed'
  /\ ~queue /\ outgoing = <<>> => outgoing' = <<>>
  /\ \A key \in Keys \ missed' :
       InLine(outgoing, key) \/ AtProducer(resend, key)
         => InLine(outgoing', key) \/ AtProducer(resend', key)

LEMMA TailOfLine ==
  ASSUME NEW line \in Seq(Entries), line # <<>>
  PROVE  /\ Head(line) \in Entries /\ Tail(line) \in Seq(Entries)
         /\ Len(line) \in Nat \ {0} /\ Len(Tail(line)) = Len(line) - 1
         /\ \A key : InLine(line, key) => InLine(Tail(line), key) \/ Head(line) = Entry("update", key)
<1>1. /\ Head(line) \in Entries /\ Tail(line) \in Seq(Entries)
      /\ Len(line) \in Nat \ {0} /\ Len(Tail(line)) = Len(line) - 1
      /\ Head(line) = line[1]
      /\ \A i \in 1..Len(Tail(line)) : Tail(line)[i] = line[i + 1]
  BY HeadTailProperties, EmptySeq, LenProperties
<1>2. ASSUME NEW key, NEW i \in 1..Len(line), line[i] = Entry("update", key), i # 1
      PROVE  InLine(Tail(line), key)
  <2>1. i - 1 \in 1..Len(Tail(line)) /\ (i - 1) + 1 = i
    BY <1>1, <1>2
  <2>2. Tail(line)[i - 1] = Entry("update", key)
    BY <1>1, <1>2, <2>1
  <2>3. QED
    BY <2>1, <2>2 DEF InLine
<1>3. QED
  BY <1>1, <1>2 DEF InLine

LEMMA AppendToLine ==
  ASSUME NEW line \in Seq(Entries), NEW entry \in Entries
  PROVE  /\ Append(line, entry) \in Seq(Entries)
         /\ Len(Append(line, entry)) = Len(line) + 1 /\ Len(line) \in Nat
         /\ \A key : InLine(line, key) \/ entry = Entry("update", key)
                     => InLine(Append(line, entry), key)
<1>1. /\ Append(line, entry) \in Seq(Entries) /\ Len(line) \in Nat
      /\ Len(Append(line, entry)) = Len(line) + 1
      /\ \A i \in 1..Len(line) : Append(line, entry)[i] = line[i]
      /\ Append(line, entry)[Len(line) + 1] = entry
  BY AppendProperties, LenProperties
<1>2. /\ \A i \in 1..Len(line) : i \in 1..Len(Append(line, entry))
      /\ Len(line) + 1 \in 1..Len(Append(line, entry))
  BY <1>1
<1>3. ASSUME NEW key, InLine(line, key) \/ entry = Entry("update", key)
      PROVE  InLine(Append(line, entry), key)
  BY <1>1, <1>2, <1>3 DEF InLine
<1>4. QED
  BY <1>1, <1>3

LEMMA Losses ==
  /\ \A entry \in Entries : LossOf(entry) \subseteq Keys \cup {Device, NoKey, Unknown}
  /\ \A key \in Keys : LossOf(Entry("update", key)) = {key}
  /\ \A key \in Keys : Entry("update", key) \in Entries /\ Entry("update", key) # Nothing
  /\ Nothing \in Entries /\ Entry("error", NoKey) \in Entries
  /\ \A key \in Keys : Entry("component", key) \in Entries
  /\ Entry("components", NoKey) \in Entries /\ Entry("ha_connected", NoKey) \in Entries
BY MqttAssumption DEF LossOf, Entry, Entries, Types, Nothing

LEMMA EnqueueFacts ==
  ASSUME QueueTyped, NEW producer \in Producers, NEW entry \in Entries, Enqueue(producer, entry)
  PROVE  /\ QueueStep
         /\ \A key \in Keys \ missed' :
              entry = Entry("update", key) => InLine(outgoing', key) \/ AtProducer(resend', key)
<1> USE DEF QueueTyped
<1>1. resend[producer] = Nothing /\ queue' = queue
  BY DEF Enqueue
<1>2. LossOf(entry) \subseteq Keys \cup {Device, NoKey, Unknown}
  BY Losses
<1>3. CASE /\ ~Wanted(entry) /\ missed' = missed \cup (LossOf(entry) \ {Device})
           /\ UNCHANGED <<outgoing, resend>>
  <2>1. Device \notin Keys
    BY MqttAssumption
  <2>2. QED
    BY <1>1, <1>2, <1>3, <2>1, Losses DEF QueueStep
<1>4. CASE /\ Wanted(entry) /\ Len(outgoing) < QueueSize
           /\ outgoing' = Append(outgoing, entry)
           /\ UNCHANGED <<resend, missed>>
  <2>1. queue
    BY <1>4 DEF Wanted
  <2>2. outgoing' \in Seq(Entries) /\ Len(outgoing') <= QueueSize
    BY <1>4, AppendToLine, MqttAssumption
  <2>3. \A key : InLine(outgoing, key) \/ entry = Entry("update", key) => InLine(outgoing', key)
    BY <1>4, AppendToLine
  <2>4. QED
    BY <1>1, <1>4, <2>1, <2>2, <2>3 DEF QueueStep
<1>5. CASE /\ resend' = [resend EXCEPT ![producer] = entry]
           /\ UNCHANGED <<outgoing, missed>>
  <2>1. ASSUME NEW key \in Keys, AtProducer(resend, key) PROVE AtProducer(resend', key)
    <3>1. PICK p \in Producers : resend[p] = Entry("update", key)
      BY <2>1 DEF AtProducer
    <3>2. p # producer
      BY <1>1, <3>1, Losses
    <3>3. QED
      BY <1>5, <3>1, <3>2 DEF AtProducer
  <2>2. resend' \in [Producers -> Entries] /\ resend'[producer] = entry
    BY <1>5
  <2>3. \A key \in Keys : entry = Entry("update", key) => AtProducer(resend', key)
    BY <2>2 DEF AtProducer
  <2>4. QED
    BY <1>1, <1>5, <2>1, <2>2, <2>3 DEF QueueStep
<1>6. QED
  BY <1>3, <1>4, <1>5 DEF Enqueue

LEMMA MakeRoomFacts ==
  ASSUME QueueTyped, NEW producer \in Producers, MakeRoom(producer)
  PROVE  QueueStep
<1> USE DEF QueueTyped
<1> DEFINE entry == resend[producer]
<1>1. entry \in Entries /\ queue' = queue
  BY DEF MakeRoom
<1>2. CASE queue /\ outgoing # <<>>
  <2>1. /\ outgoing' = Tail(outgoing) /\ resend' = resend
        /\ missed' = missed \cup LossOf(Head(outgoing))
    BY <1>2 DEF MakeRoom
  <2>2. /\ Head(outgoing) \in Entries /\ outgoing' \in Seq(Entries)
        /\ Len(outgoing) \in Nat \ {0} /\ Len(outgoing') = Len(outgoing) - 1
        /\ \A key : InLine(outgoing, key) => InLine(outgoing', key) \/ Head(outgoing) = Entry("update", key)
    BY <1>2, <2>1, TailOfLine
  <2>3. Len(outgoing') <= QueueSize
    BY <2>2, MqttAssumption
  <2>4. missed' \in SUBSET (Keys \cup {Device, NoKey, Unknown}) /\ missed \subseteq missed'
    BY <2>1, <2>2, Losses
  <2>5. ASSUME NEW key \in Keys \ missed', InLine(outgoing, key) PROVE InLine(outgoing', key)
    BY <2>1, <2>2, <2>5, Losses
  <2>6. QED
    BY <1>1, <1>2, <2>1, <2>2, <2>3, <2>4, <2>5 DEF QueueStep
<1>3. CASE ~(queue /\ outgoing # <<>>)
  <2>1. /\ resend' = [resend EXCEPT ![producer] = Nothing] /\ outgoing' = outgoing
        /\ missed' = missed \cup LossOf(entry)
    BY <1>3 DEF MakeRoom
  <2>2. resend' \in [Producers -> Entries]
    BY <2>1, Losses
  <2>3. \A key : AtProducer(resend, key) => AtProducer(resend', key) \/ entry = Entry("update", key)
    BY <2>1 DEF AtProducer
  <2>4. \A key \in Keys \ missed' : entry # Entry("update", key)
    BY <2>1, Losses
  <2>5. missed' \in SUBSET (Keys \cup {Device, NoKey, Unknown})
    BY <1>1, <2>1, Losses
  <2>6. QED
    BY <1>1, <2>1, <2>2, <2>3, <2>4, <2>5 DEF QueueStep
<1>4. QED
  BY <1>2, <1>3

LEMMA ResendFacts ==
  ASSUME QueueTyped, NEW producer \in Producers, Resend(producer)
  PROVE  QueueStep
<1> USE DEF QueueTyped
<1> DEFINE entry == resend[producer]
<1>1. /\ entry \in Entries /\ queue' = queue
      /\ resend' = [resend EXCEPT ![producer] = Nothing]
  BY DEF Resend, queueVars
<1>2. resend' \in [Producers -> Entries]
  BY <1>1, Losses
<1>3. \A key : AtProducer(resend, key) => AtProducer(resend', key) \/ entry = Entry("update", key)
  BY <1>1 DEF AtProducer
<1>4. CASE queue /\ Len(outgoing) < QueueSize
  <2>1. outgoing' = Append(outgoing, entry) /\ missed' = missed
    BY <1>4 DEF Resend
  <2>2. outgoing' \in Seq(Entries) /\ Len(outgoing') <= QueueSize
    BY <1>1, <1>4, <2>1, AppendToLine, MqttAssumption
  <2>3. \A key : InLine(outgoing, key) \/ entry = Entry("update", key) => InLine(outgoing', key)
    BY <1>1, <2>1, AppendToLine
  <2>4. QED
    BY <1>1, <1>2, <1>3, <1>4, <2>1, <2>2, <2>3 DEF QueueStep
<1>5. CASE ~(queue /\ Len(outgoing) < QueueSize)
  <2>1. missed' = missed \cup LossOf(entry) /\ outgoing' = outgoing
    BY <1>5 DEF Resend
  <2>2. \A key \in Keys \ missed' : entry # Entry("update", key)
    BY <2>1, Losses
  <2>3. missed' \in SUBSET (Keys \cup {Device, NoKey, Unknown})
    BY <1>1, <2>1, Losses
  <2>4. QED
    BY <1>1, <1>2, <1>3, <2>1, <2>2, <2>3 DEF QueueStep
<1>6. QED
  BY <1>4, <1>5

LEMMA EraseFacts ==
  ASSUME QueueTyped, hand \in Entries, NEW keys, Erase(keys), queue' = queue
  PROVE  QueueStep /\ hand' \in Entries
<1> USE DEF QueueTyped
<1>1. /\ \A entry \in Entries : Moved(entry) \in Entries
      /\ \A key \in Keys : Moved(Entry("update", key)) = Entry("update", key)
      /\ [hand EXCEPT !.key = Unknown] \in Entries
  BY DEF Moved, Entries, Entry
<1>2. /\ outgoing' = [i \in 1..Len(outgoing) |-> Moved(outgoing[i])]
      /\ resend' = [p \in Producers |-> Moved(resend[p])]
      /\ hand' = IF task = "value" THEN [hand EXCEPT !.key = Unknown] ELSE Moved(hand)
  BY DEF Erase
<1>3. Len(outgoing) \in Nat /\ \A i \in 1..Len(outgoing) : outgoing[i] \in Entries
  BY ElementOfSeq, LenProperties
<1>4. outgoing' \in [1..Len(outgoing) -> Entries]
  BY <1>1, <1>2, <1>3
<1>5. outgoing' \in Seq(Entries) /\ Len(outgoing') = Len(outgoing)
  BY <1>3, <1>4, SeqDef, LenProperties
<1>6. resend' \in [Producers -> Entries] /\ hand' \in Entries
  BY <1>1, <1>2
<1>7. missed' \in SUBSET (Keys \cup {Device, NoKey, Unknown}) /\ missed \subseteq missed'
  BY DEF Erase
<1>8. \A key \in Keys : InLine(outgoing, key) => InLine(outgoing', key)
  BY <1>1, <1>2, <1>3, <1>5 DEF InLine
<1>9. \A key \in Keys : AtProducer(resend, key) => AtProducer(resend', key)
  BY <1>1, <1>2 DEF AtProducer
<1>10. outgoing = <<>> => outgoing' = <<>>
  BY <1>5, EmptySeq
<1>11. QED
  BY <1>5, <1>6, <1>7, <1>8, <1>9, <1>10 DEF QueueStep

---------------------------------------------------------------------------
(* The variables besides the queue and the telegrams.                      *)

RestTyped ==
  /\ listed \in SUBSET Keys /\ data \in [Keys -> Nat \cup {Torn}] /\ latest \in [Keys -> Nat]
  /\ commandsLock \in {"free", "monitor", "mqtt", "http"}
  /\ client \in BOOLEAN /\ connected \in BOOLEAN
  /\ task \in {"none", "created", "top", "state", "wait", "handle", "value", "all",
              "component", "ended", "fault"}
  /\ hand \in Entries /\ topics \in SUBSET HaKeys
  /\ shouldRun \in BOOLEAN
  /\ stop \in {"no", "waiting", "clear", "client", "services", "done"}
  /\ published \in [Keys -> Nat \cup {Torn}]
  /\ retained \in SUBSET (HaKeys \cup {Device})
  /\ leftBehind \in SUBSET HaKeys
  /\ http \in {"idle", "changed", "inserted", "remove", "wipe", "wiped"}
  /\ removing \in SUBSET Keys /\ withdrawing \in SUBSET HaKeys
  /\ monitor \in {"wait", "update", "copy", "unlock", "deleted"}

Base == RestTyped /\ LockOwned /\ RequestsInOrder /\ StopsInOrder

(* What a publication does to the broker.                                  *)
LEMMA Publications ==
  ASSUME RestTyped, NEW key \in Keys, NEW sent \in BOOLEAN
  PROVE  /\ PublishValue(key, sent) =>
              /\ published' \in {published, [published EXCEPT ![key] = data[key]]}
              /\ published' \in [Keys -> Nat \cup {Torn}]
              /\ retained' = retained /\ leftBehind' = leftBehind
         /\ key \in HaKeys /\ PublishTopic(key, sent) =>
              /\ retained' \in {retained, retained \cup {key}}
              /\ retained' \in SUBSET (HaKeys \cup {Device}) /\ published' = published
         /\ key \in HaKeys /\ WithdrawTopic(key, sent) =>
              /\ retained' \subseteq retained /\ leftBehind' \in SUBSET HaKeys
              /\ key \notin retained' \/ key \in leftBehind'
              /\ leftBehind \ {key} \subseteq leftBehind'
              /\ published' = published
BY DEF RestTyped, PublishValue, PublishTopic, WithdrawTopic

LEMMA BaseTask ==
  ASSUME Base, QueueTyped, UNCHANGED <<monitorVars, httpVars>>, MqttStep
  PROVE  Base'
<1>0. Nothing \in Entries /\ Entry("components", NoKey) \in Entries /\ HaKeys \subseteq Keys
  BY Losses, MqttAssumption
<1> USE <1>0 DEF Base, RestTyped, LockOwned, RequestsInOrder, StopsInOrder, At, Handle, Handled,
       monitorVars, httpVars, linkVars, queueVars, brokerVars, Sendable
<1>1. ASSUME CreateQueue PROVE Base'
  BY <1>1 DEF CreateQueue
<1>2. ASSUME Loop PROVE Base'
  BY <1>2 DEF Loop
<1>3. ASSUME EndTask PROVE Base'
  BY <1>3 DEF EndTask
<1>4. ASSUME PublishState PROVE Base'
  BY <1>4 DEF PublishState
<1>5. ASSUME WaitTimeout PROVE Base'
  BY <1>5 DEF WaitTimeout
<1>6. ASSUME Receive PROVE Base'
  <2>1. /\ task' \in {"handle", "top"} /\ hand' \in Entries
        /\ UNCHANGED <<topics, commandsLock, published, retained, leftBehind>>
    BY <1>6, TailOfLine DEF Receive, QueueTyped
  <2>2. task = "wait" /\ UNCHANGED <<listed, data, latest, linkVars, shouldRun, stop>>
    BY <1>6 DEF Receive
  <2>3. QED
    BY <2>1, <2>2
<1>7. ASSUME HandleError PROVE Base'
  BY <1>7 DEF HandleError
<1>8. ASSUME FindValue PROVE Base'
  BY <1>8 DEF FindValue
<1>9. ASSUME PublishFound PROVE Base'
  <2>1. /\ task = "value" /\ task' = "top" /\ hand' = Nothing
        /\ UNCHANGED <<listed, data, latest, linkVars, shouldRun, stop, topics, commandsLock>>
    BY <1>9 DEF PublishFound
  <2>2. /\ published' \in [Keys -> Nat \cup {Torn}]
        /\ retained' = retained /\ leftBehind' = leftBehind
    BY <1>9, Publications DEF PublishFound
  <2>3. QED
    BY <2>1, <2>2
<1>10. ASSUME PublishDevice PROVE Base'
  <2>1. /\ task' = task /\ task = "handle" /\ hand' \in Entries
        /\ UNCHANGED <<listed, data, latest, linkVars, shouldRun, stop, topics, commandsLock,
                       published, leftBehind>>
    BY <1>10 DEF PublishDevice
  <2>2. retained' \in {retained, retained \cup {Device}}
    BY <1>10 DEF PublishDevice
  <2>3. Device \notin removing
    BY MqttAssumption
  <2>4. QED
    BY <2>1, <2>2, <2>3
<1>11. ASSUME BeginComponents PROVE Base'
  BY <1>11 DEF BeginComponents
<1>12. ASSUME PublishNext PROVE Base'
  <2>1. /\ task' = task /\ task = "all" /\ hand' = hand
        /\ UNCHANGED <<listed, data, latest, linkVars, shouldRun, stop, commandsLock, leftBehind>>
    BY <1>12 DEF PublishNext
  <2>2. /\ topics' \subseteq topics /\ published' = published
        /\ retained' \in SUBSET (HaKeys \cup {Device})
    BY <1>12, Publications DEF PublishNext
  <2>3. QED
    BY <2>1, <2>2
<1>13. ASSUME EndComponents PROVE Base'
  BY <1>13 DEF EndComponents
<1>14. ASSUME BeginComponent PROVE Base'
  BY <1>14 DEF BeginComponent
<1>15. ASSUME PublishComponent PROVE Base'
  <2>1. /\ task = "component" /\ task' = "top" /\ hand' = Nothing
        /\ UNCHANGED <<listed, data, latest, linkVars, shouldRun, stop, topics, commandsLock>>
    BY <1>15 DEF PublishComponent
  <2>2. /\ published' = published /\ leftBehind' \in SUBSET HaKeys /\ leftBehind \subseteq leftBehind'
        /\ retained' \in SUBSET (HaKeys \cup {Device}) /\ retained' \subseteq retained \cup leftBehind'
    BY <1>15, Publications DEF PublishComponent
  <2>3. QED
    BY <2>1, <2>2
<1>16. QED
  BY <1>1, <1>2, <1>3, <1>4, <1>5, <1>6, <1>7, <1>8, <1>9, <1>10, <1>11, <1>12, <1>13, <1>14, <1>15 DEF MqttStep

LEMMA BaseEvents ==
  ASSUME Base, QueueTyped, UNCHANGED <<monitorVars, httpVars>>, Events \/ StopStep
  PROVE  Base'
<1>0. Nothing \in Entries /\ HaKeys \subseteq Keys
  BY Losses, MqttAssumption
<1> USE <1>0 DEF Base, RestTyped, LockOwned, RequestsInOrder, StopsInOrder, Spend, Outside,
           linkVars, listVars, queueVars, taskVars, stopVars, brokerVars, busVars, monitorVars,
           httpVars
<1>1. ASSUME StartTask PROVE Base'
  BY <1>1 DEF StartTask
<1>2. ASSUME OnConnected PROVE Base'
  BY <1>2 DEF OnConnected, Enqueue, Wanted
<1>3. ASSUME OnDisconnected PROVE Base'
  <2>1. /\ connected' = FALSE /\ client' = client
        /\ UNCHANGED <<listVars, queueVars, taskVars, stopVars, published, retained, leftBehind>>
    BY <1>3 DEF OnDisconnected
  <2>2. connected' \in BOOLEAN
    BY <2>1, Zenon
  <2>3. QED
    BY <2>1, <2>2
<1>4. ASSUME PublishRead PROVE Base'
  <2>1. UNCHANGED <<listVars, linkVars, queue, outgoing, taskVars, stopVars>>
    BY <1>4 DEF PublishRead
  <2>2. /\ published' \in [Keys -> Nat \cup {Torn}]
        /\ retained' = retained /\ leftBehind' = leftBehind
    BY <1>4, Publications DEF PublishRead
  <2>3. QED
    BY <2>1, <2>2
<1>5. ASSUME NEW p \in Producers, MakeRoom(p) \/ Resend(p) PROVE Base'
  <2>1. UNCHANGED <<listVars, linkVars, queue, taskVars, stopVars, published, retained, leftBehind>>
    BY <1>5 DEF MakeRoom, Resend
  <2>2. ~queue /\ outgoing = <<>> => outgoing' = <<>>
    BY <1>5 DEF MakeRoom, Resend
  <2>3. QED
    BY <2>1, <2>2
<1>6. ASSUME StopSignal PROVE Base'
  <2>1. /\ stop' \in {"client", "waiting"} /\ shouldRun' \in {shouldRun, FALSE}
        /\ UNCHANGED <<listVars, linkVars, taskVars, brokerVars>>
    BY <1>6 DEF StopSignal
  <2>2. shouldRun' \in BOOLEAN
    BY <2>1, Zenon
  <2>3. QED
    BY <2>1, <2>2
<1>7. ASSUME StopWaited PROVE Base'
  BY <1>7 DEF StopWaited
<1>8. ASSUME StopClear PROVE Base'
  <2>1. /\ stop' = "client" /\ shouldRun' = FALSE
        /\ UNCHANGED <<listVars, linkVars, taskVars, brokerVars>>
    BY <1>8 DEF StopClear
  <2>2. shouldRun' \in BOOLEAN
    BY <2>1, Zenon
  <2>3. QED
    BY <2>1, <2>2
<1>9. ASSUME StopClient PROVE Base'
  <2>1. /\ stop' = "services" /\ client' = FALSE /\ connected' = FALSE
        /\ UNCHANGED <<listVars, queueVars, taskVars, shouldRun, brokerVars>>
    BY <1>9 DEF StopClient
  <2>2. client' \in BOOLEAN /\ connected' \in BOOLEAN
    BY <2>1, Zenon
  <2>3. QED
    BY <2>1, <2>2
<1>10. ASSUME NEW key \in Keys, Read(key) PROVE Base'
  BY <1>10 DEF Read
<1>11. QED
  BY <1>1, <1>2, <1>3, <1>4, <1>5, <1>6, <1>7, <1>8, <1>9, <1>10 DEF Events, StopStep

BusTyped ==
  /\ telegrams \in Seq(Telegrams) /\ Len(telegrams) <= BusQueueSize
  /\ seen \in Nat /\ current \in Telegrams

LEMMA BaseBus ==
  ASSUME Base, QueueTyped, BusTyped, current.key \in Keys \/ ~Taken,
         (\E key \in Keys \cup {NoKey} : OnTelegram(key)) \/ MonitorStep \/ StopServices
  PROVE  Base'
<1>0. Nothing \in Entries /\ HaKeys \subseteq Keys
  BY Losses, MqttAssumption
<1> USE <1>0 DEF Base, RestTyped, LockOwned, RequestsInOrder, StopsInOrder, Spend, Outside, Monitoring, Taken, BusTyped,
           linkVars, listVars, queueVars, taskVars, stopVars, brokerVars, busVars, monitorVars,
           httpVars
<1>1. ASSUME NEW key \in Keys \cup {NoKey}, OnTelegram(key) PROVE Base'
  <2>1. /\ latest' = IF key \in Keys THEN [latest EXCEPT ![key] = seen + 1] ELSE latest
        /\ UNCHANGED <<listed, data, commandsLock, linkVars, queueVars, taskVars, stopVars,
                       published, retained, leftBehind, monitorVars, httpVars>>
    BY <1>1 DEF OnTelegram
  <2>2. latest' \in [Keys -> Nat]
    BY <2>1
  <2>3. QED
    BY <2>1, <2>2
<1>2. ASSUME TakeTelegram PROVE Base'
  <2>1. /\ monitor = "wait" /\ monitor' \in {"wait", "update"}
        /\ UNCHANGED <<listed, latest, linkVars, taskVars, stopVars, published, retained,
                       leftBehind, httpVars, data, commandsLock>>
    BY <1>2 DEF TakeTelegram
  <2>2. queue' = queue /\ (~queue /\ outgoing = <<>> => outgoing' = <<>>)
    BY <1>2, EnqueueFacts, Losses DEF TakeTelegram, QueueStep, Producers
  <2>3. QED
    BY <2>1, <2>2
<1>3. ASSUME BeginUpdate PROVE Base'
  BY <1>3 DEF BeginUpdate
<1>4. ASSUME EndUpdate PROVE Base'
  <2>1. /\ data' = [data EXCEPT ![current.key] = current.version]
        /\ monitor = "copy" /\ monitor' = "unlock"
        /\ UNCHANGED <<listed, latest, linkVars, taskVars, stopVars, published, retained,
                       leftBehind, httpVars, commandsLock>>
    BY <1>4 DEF EndUpdate
  <2>2. current.key \in Keys /\ data' \in [Keys -> Nat \cup {Torn}]
    BY <2>1 DEF BusTyped, Telegrams
  <2>3. queue' = queue /\ (~queue /\ outgoing = <<>> => outgoing' = <<>>)
    BY <1>4, <2>2, EnqueueFacts, Losses DEF EndUpdate, QueueStep, Producers
  <2>4. QED
    BY <2>1, <2>2, <2>3
<1>5. ASSUME Updated PROVE Base'
  BY <1>5 DEF Updated
<1>6. ASSUME StopServices PROVE Base'
  BY <1>6 DEF StopServices
<1>7. QED
  BY <1>1, <1>2, <1>3, <1>4, <1>5, <1>6 DEF MonitorStep

LEMMA BaseHttp ==
  ASSUME Base, QueueTyped, HttpStep \/ Requests
  PROVE  Base'
<1>0. Nothing \in Entries /\ HaKeys \subseteq Keys
  BY Losses, MqttAssumption
<1> USE <1>0 DEF Base, RestTyped, LockOwned, RequestsInOrder, StopsInOrder, Spend, Outside, Serving, Edit,
           linkVars, listVars, queueVars, taskVars, stopVars, brokerVars, busVars, monitorVars,
           httpVars
<1>1. ASSUME CommandChanged PROVE Base'
  <2>1. /\ http = "changed" /\ http' = "inserted" /\ removing' = {} /\ withdrawing' = withdrawing
        /\ UNCHANGED <<listed, data, latest, commandsLock, linkVars, taskVars, stopVars,
                       published, retained, leftBehind, monitorVars>>
    BY <1>1 DEF CommandChanged
  <2>2. queue' = queue /\ (~queue /\ outgoing = <<>> => outgoing' = <<>>)
    BY <1>1, EnqueueFacts, Losses DEF CommandChanged, QueueStep, Producers
  <2>3. QED
    BY <2>1, <2>2
<1>2. ASSUME Inserted PROVE Base'
  <2>1. /\ http = "inserted" /\ http' = "idle" /\ commandsLock' = "free"
        /\ UNCHANGED <<listed, data, latest, linkVars, taskVars, stopVars, removing, withdrawing,
                       published, retained, leftBehind, monitorVars>>
    BY <1>2 DEF Inserted
  <2>2. queue' = queue /\ (~queue /\ outgoing = <<>> => outgoing' = <<>>)
    BY <1>2, EnqueueFacts, Losses DEF Inserted, QueueStep, Producers
  <2>3. QED
    BY <2>1, <2>2
<1>3. ASSUME Withdraw PROVE Base'
  <2>1. /\ http \in {"remove", "wipe"} /\ http' = http /\ removing' = removing
        /\ UNCHANGED <<listVars, linkVars, queueVars, taskVars, stopVars, published, monitorVars>>
    BY <1>3 DEF Withdraw
  <2>2. PICK key \in withdrawing, sent \in BOOLEAN :
          WithdrawTopic(key, sent) /\ withdrawing' = withdrawing \ {key}
    BY <1>3 DEF Withdraw
  <2>3. /\ retained' \subseteq retained /\ leftBehind' \in SUBSET HaKeys
        /\ key \notin retained' \/ key \in leftBehind'
        /\ leftBehind \ {key} \subseteq leftBehind'
    BY <2>2, Publications
  <2>4. QED
    BY <2>1, <2>2, <2>3
<1>4. ASSUME Removed PROVE Base'
  <2>1. /\ http = "remove" /\ http' = "idle" /\ commandsLock' = "free" /\ removing' = {}
        /\ withdrawing = {} /\ withdrawing' = {}
        /\ listed' = listed \ removing /\ data' \in [Keys -> Nat \cup {Torn}]
        /\ UNCHANGED <<latest, linkVars, queue, task, topics, stopVars, published, retained,
                       leftBehind, monitorVars>>
    BY <1>4 DEF Removed, Erase
  <2>2. hand' \in Entries /\ (~queue /\ outgoing = <<>> => outgoing' = <<>>)
    BY <1>4, EraseFacts DEF Removed, QueueStep
  <2>3. QED
    BY <2>1, <2>2
<1>5. ASSUME Withdrawn PROVE Base'
  BY <1>5 DEF Withdrawn
<1>6. ASSUME Wiped PROVE Base'
  <2>1. /\ http = "wiped" /\ http' = "idle" /\ commandsLock = "free" /\ commandsLock' = "free"
        /\ removing = {} /\ removing' = {} /\ withdrawing' = withdrawing
        /\ listed' = {} /\ data' \in [Keys -> Nat \cup {Torn}]
        /\ UNCHANGED <<latest, linkVars, queue, task, topics, stopVars, published, retained,
                       leftBehind, monitorVars>>
    BY <1>6 DEF Wiped, Erase
  <2>2. hand' \in Entries /\ (~queue /\ outgoing = <<>> => outgoing' = <<>>)
    BY <1>6, EraseFacts DEF Wiped, QueueStep
  <2>3. QED
    BY <2>1, <2>2
<1>7. ASSUME NEW key \in Keys, InsertCommand(key) PROVE Base'
  BY <1>7 DEF InsertCommand
<1>8. ASSUME NEW keys \in SUBSET listed, NEW how \in {"remove", "wipe"}, BeginRemoval(keys, how) PROVE Base'
  <2>1. /\ http = "idle" /\ http' = how /\ commandsLock = "free" /\ commandsLock' = "http"
        /\ removing' = keys /\ withdrawing' = keys \cap HaKeys /\ leftBehind' = {}
        /\ UNCHANGED <<listed, data, latest, linkVars, queueVars, taskVars, stopVars, published,
                       retained, monitorVars>>
    BY <1>8 DEF BeginRemoval
  <2>2. retained \cap keys \subseteq keys \cap HaKeys
    BY MqttAssumption
  <2>3. QED
    BY <2>1, <2>2
<1>9. QED
  BY <1>1, <1>2, <1>3, <1>4, <1>5, <1>6, <1>7, <1>8 DEF HttpStep, Requests

---------------------------------------------------------------------------
(* Steps after which every update is on its way as before, or published,   *)
(* or known to be lost.                                                    *)

Harmless ==
  /\ UNCHANGED <<listed, data, latest, telegrams, seen>>
  /\ Taken' => Taken /\ current' = current
  /\ \A key \in Keys : published'[key] \in {published[key], data[key]}
  /\ stop' = "no" =>
       /\ stop = "no" /\ (Taken => Taken')
       /\ \A key \in listed \ missed' :
            \/ /\ key \notin missed /\ published'[key] = published[key]
               /\ Queued(key) => Queued(key)'
            \/ published'[key] = data[key] /\ (key \in missed => data[key] = latest[key])

LEMMA HarmlessKeeps ==
  ASSUME RestTyped, VersionsInOrder, UpdatesArrive, Harmless
  PROVE  VersionsInOrder' /\ UpdatesArrive'
<1>1. UNCHANGED <<listed, data, latest, telegrams, seen>>
  BY DEF Harmless
<1>2. Taken' => Taken /\ current' = current
  BY DEF Harmless
<1> DEFINE NextOld(version) ==
      /\ version <= seen'
      /\ \A i \in 1..Len(telegrams') : version < telegrams'[i].version
      /\ Taken' => version < current'.version
<1>3. \A version : Old(version) => NextOld(version)
  BY <1>1, <1>2 DEF Old
<1>4. VersionsInOrder'
  <2>1. \A i \in 1..Len(telegrams') :
          /\ telegrams'[i].version \in 1..seen'
          /\ telegrams'[i].key \in Keys => telegrams'[i].version <= latest'[telegrams'[i].key]
          /\ \A j \in 1..Len(telegrams') : i < j => telegrams'[i].version < telegrams'[j].version
    BY <1>1 DEF VersionsInOrder
  <2>2. Taken' =>
          /\ current'.version \in 1..seen'
          /\ current'.key \in Keys /\ current'.version <= latest'[current'.key]
          /\ \A i \in 1..Len(telegrams') : current'.version < telegrams'[i].version
    BY <1>1, <1>2 DEF VersionsInOrder
  <2>3. ASSUME NEW key \in Keys
        PROVE  /\ data'[key] = Torn \/ NextOld(data'[key])
               /\ published'[key] = Torn \/ NextOld(published'[key])
               /\ data'[key] \in {0, Torn} \/ published'[key] = Torn \/ published'[key] <= data'[key]
    <3>1. /\ data[key] = Torn \/ NextOld(data[key])
          /\ published[key] = Torn \/ NextOld(published[key])
          /\ data[key] \in {0, Torn} \/ published[key] = Torn \/ published[key] <= data[key]
      BY <1>3 DEF VersionsInOrder
    <3>2. published'[key] \in {published[key], data[key]} /\ data'[key] = data[key]
      BY <1>1 DEF Harmless
    <3>3. data[key] # Torn => data[key] <= data[key]
      BY DEF RestTyped
    <3> HIDE DEF NextOld
    <3>4. QED
      BY <3>1, <3>2, <3>3
  <2>4. QED
    BY <2>1, <2>2, <2>3 DEF VersionsInOrder, Old
<1>5. ASSUME stop' = "no", NEW key \in listed' \ missed'
      PROVE  /\ data'[key] = latest'[key] \/ Coming(key)'
             /\ published'[key] = latest'[key] \/ Coming(key)' \/ Queued(key)'
  <2>1. key \in listed /\ stop = "no" /\ (Taken <=> Taken')
    BY <1>1, <1>2, <1>5 DEF Harmless
  <2>2. Coming(key) => Coming(key)'
    BY <1>1, <1>2, <2>1 DEF Coming
  <2>3. CASE /\ key \notin missed /\ published'[key] = published[key]
             /\ Queued(key) => Queued(key)'
    BY <1>1, <2>1, <2>2, <2>3 DEF UpdatesArrive
  <2>4. CASE published'[key] = data[key] /\ (key \in missed => data[key] = latest[key])
    BY <1>1, <2>1, <2>2, <2>4 DEF UpdatesArrive
  <2>5. QED
    BY <1>5, <2>1, <2>3, <2>4 DEF Harmless
<1>6. UpdatesArrive'
  BY <1>5 DEF UpdatesArrive
<1>7. QED
  BY <1>4, <1>6

(* A step that publishes no value and loses none silently.                 *)
LEMMA QuietHarmless ==
  ASSUME RestTyped, UNCHANGED <<listed, data, latest, telegrams, seen, published>>,
         Taken <=> Taken', Taken => current' = current,
         stop' = "no" => stop = "no",
         missed \cap Keys \subseteq missed',
         stop' = "no" => \A key \in listed \ missed' : Queued(key) => Queued(key)'
  PROVE  Harmless
BY DEF Harmless, RestTyped

Carried(key) == task \in {"handle", "value"} /\ hand = Entry("update", key)

LEMMA QueuedParts ==
  /\ \A key : Queued(key) <=> InLine(outgoing, key) \/ AtProducer(resend, key) \/ Carried(key)
  /\ \A key : Queued(key)' <=> InLine(outgoing', key) \/ AtProducer(resend', key) \/ Carried(key)'
BY DEF Queued, InLine, AtProducer, Carried

LEMMA QueueStepKeeps ==
  ASSUME QueueStep, QueueTyped, NEW key \in Keys \ missed', Carried(key) => Carried(key)'
  PROVE  Queued(key) => Queued(key)'
BY QueuedParts DEF QueueStep

LEMMA QueueSame ==
  ASSUME QueueTyped, UNCHANGED <<queue, outgoing, resend>>,
         missed' \in SUBSET (Keys \cup {Device, NoKey, Unknown})
  PROVE  QueueTyped'
BY DEF QueueTyped

(* PublishValue loses the value, or brings it up to date.                  *)
LEMMA ValueHarmless ==
  ASSUME RestTyped, QueueTyped, NEW key \in listed, NEW sent \in BOOLEAN, PublishValue(key, sent),
         UNCHANGED <<listed, data, latest, telegrams, seen, monitor, current, stop, queue, outgoing,
                     resend>>,
         \A other \in Keys \ {key} : Carried(other) => Carried(other)',
         hand.key # key \/ task' = "top" \/ UNCHANGED <<task, hand>>
  PROVE  QueueTyped' /\ Harmless
<1>1. /\ published' = IF sent THEN [published EXCEPT ![key] = data[key]] ELSE published
      /\ missed' = IF ~sent THEN missed \cup {key}
                   ELSE IF data[key] = latest[key] THEN missed \ {key} ELSE missed
      /\ queue' = queue /\ outgoing' = outgoing /\ resend' = resend
  BY DEF PublishValue
<1>2. key \in Keys /\ missed' \in SUBSET (Keys \cup {Device, NoKey, Unknown})
  BY <1>1 DEF RestTyped, QueueTyped
<1>3. ASSUME NEW other \in listed \ missed'
      PROVE  \/ /\ other \notin missed /\ published'[other] = published[other]
                /\ Queued(other) => Queued(other)'
             \/ published'[other] = data[other] /\ (other \in missed => data[other] = latest[other])
  <2>1. CASE other = key
    BY <1>1, <1>2, <2>1 DEF RestTyped
  <2>2. CASE other # key
    <3>1. other \in Keys \ {key} /\ other \notin missed /\ published'[other] = published[other]
      BY <1>1, <1>2, <2>2 DEF RestTyped
    <3>2. Queued(other) => Queued(other)'
      BY <1>1, <3>1, QueuedParts
    <3>3. QED
      BY <3>1, <3>2
  <2>3. QED
    BY <2>1, <2>2
<1>4. \A other \in Keys : published'[other] \in {published[other], data[other]}
  BY <1>1, <1>2 DEF RestTyped
<1>5. (Taken <=> Taken') /\ current' = current /\ stop' = stop
  BY DEF Taken
<1>6. QED
  BY <1>1, <1>2, <1>3, <1>4, <1>5, QueueSame DEF Harmless

LEMMA TaskHarmless ==
  ASSUME Base, QueueTyped, UNCHANGED <<busVars, monitorVars, httpVars>>, MqttStep
  PROVE  QueueTyped' /\ Harmless
<1>1. /\ UNCHANGED <<listed, data, latest, telegrams, seen, stop, shouldRun, current, monitor>>
      /\ (Taken <=> Taken') /\ RestTyped
  BY DEF MqttStep, CreateQueue, Loop, EndTask, PublishState, WaitTimeout, Receive, HandleError,
         FindValue, PublishFound, PublishDevice, BeginComponents, PublishNext, EndComponents,
         BeginComponent, PublishComponent, Handle, At, busVars, monitorVars, Taken, Base
<1>2. \A key \in listed : key \in Keys /\ key \notin {Device, NoKey, Unknown}
  BY <1>1, MqttAssumption DEF RestTyped
<1> USE DEF Handle, At, Handled, Carried, brokerVars
<1>3. ASSUME CreateQueue PROVE QueueTyped' /\ Harmless
  <2>1. /\ queue' = TRUE /\ outgoing' = <<>> /\ resend' = resend /\ missed' = missed
        /\ published' = published /\ task = "created"
    BY <1>3 DEF CreateQueue
  <2>2. queue' \in BOOLEAN /\ outgoing' \in Seq(Entries) /\ Len(outgoing') = 0
    BY <2>1, EmptySeq, Zenon
  <2>3. QueueTyped'
    BY <2>1, <2>2, MqttAssumption DEF QueueTyped
  <2>4. ASSUME stop = "no", NEW key, Queued(key) PROVE Queued(key)'
    <3>1. outgoing = <<>> /\ ~Carried(key)
      BY <2>1, <2>4 DEF Base, StopsInOrder
    <3>2. ~InLine(outgoing, key)
      BY <3>1, EmptySeq DEF InLine
    <3>3. QED
      BY <2>1, <2>4, <3>1, <3>2, QueuedParts
  <2>5. QED
    BY <1>1, <2>1, <2>3, <2>4, QuietHarmless
<1>4. ASSUME EndTask PROVE QueueTyped' /\ Harmless
  <2>1. /\ queue' = FALSE /\ outgoing' = (IF queue THEN <<>> ELSE outgoing) /\ resend' = resend
        /\ missed' = missed /\ published' = published /\ task = "top" /\ ~shouldRun
    BY <1>4 DEF EndTask
  <2>2. queue' \in BOOLEAN
    BY <2>1, Zenon
  <2>3. outgoing' \in Seq(Entries) /\ Len(outgoing') <= QueueSize
    BY <2>1, EmptySeq, MqttAssumption DEF QueueTyped
  <2>4. stop # "no"
    BY <2>1 DEF Base, StopsInOrder
  <2>5. QED
    BY <1>1, <2>1, <2>2, <2>3, <2>4, QuietHarmless DEF QueueTyped
<1>5. ASSUME Receive PROVE QueueTyped' /\ Harmless
  <2>1. /\ outgoing # <<>> /\ outgoing' = Tail(outgoing) /\ task = "wait"
        /\ queue' = queue /\ resend' = resend /\ published' = published
        /\ IF shouldRun THEN task' = "handle" /\ hand' = Head(outgoing) /\ missed' = missed
           ELSE missed' = missed \cup LossOf(Head(outgoing))
    BY <1>5 DEF Receive
  <2>2. /\ Head(outgoing) \in Entries /\ outgoing' \in Seq(Entries)
        /\ Len(outgoing) \in Nat \ {0} /\ Len(outgoing') = Len(outgoing) - 1
        /\ \A key : InLine(outgoing, key)
                    => InLine(outgoing', key) \/ Head(outgoing) = Entry("update", key)
    BY <2>1, TailOfLine DEF QueueTyped
  <2>3. QueueTyped'
    BY <2>1, <2>2, Losses, MqttAssumption DEF QueueTyped
  <2>4. ASSUME NEW key \in listed \ missed', Queued(key) PROVE Queued(key)'
    <3>1. InLine(outgoing, key) \/ AtProducer(resend, key)
      BY <2>1, <2>4, QueuedParts
    <3>2. CASE AtProducer(resend, key)
      BY <2>1, <3>2, QueuedParts
    <3>3. CASE InLine(outgoing', key)
      BY <3>3, QueuedParts
    <3>4. CASE Head(outgoing) = Entry("update", key)
      <4>1. shouldRun
        BY <1>2, <2>1, <2>4, <3>4, Losses
      <4>2. QED
        BY <2>1, <3>4, <4>1, QueuedParts
    <3>5. QED
      BY <2>2, <3>1, <3>2, <3>3, <3>4
  <2>5. missed \subseteq missed'
    BY <2>1
  <2>6. QED
    BY <1>1, <2>1, <2>3, <2>4, <2>5, QuietHarmless
<1>6. ASSUME FindValue PROVE QueueTyped' /\ Harmless
  <2>1. /\ UNCHANGED <<queue, outgoing, resend, missed, published>>
        /\ task = "handle" /\ (hand.key \in listed => task' = "value" /\ hand' = hand)
    BY <1>6 DEF FindValue, queueVars
  <2>2. \A key \in listed : Carried(key) => hand.key = key
    BY DEF Entry
  <2>3. \A key \in listed : Carried(key) => Carried(key)'
    BY <2>1, <2>2
  <2>4. QED
    BY <1>1, <2>1, <2>3, QuietHarmless, QueueSame, QueuedParts DEF QueueTyped
<1>7. ASSUME PublishFound PROVE QueueTyped' /\ Harmless
  <2>1. /\ task = "value" /\ task' = "top" /\ UNCHANGED <<queue, outgoing, resend>>
    BY <1>7 DEF PublishFound, queueVars
  <2>2. \A key : Carried(key) => hand.key = key
    BY DEF Entry
  <2>3. CASE \E key \in listed, sent \in BOOLEAN :
               hand.key \in {key, Unknown} /\ PublishValue(key, sent)
    <3>1. PICK key \in listed, sent \in BOOLEAN :
            hand.key \in {key, Unknown} /\ PublishValue(key, sent)
      BY <2>3
    <3>2. \A other \in Keys \ {key} : ~Carried(other)
      BY <2>2, <3>1, MqttAssumption
    <3>3. QED
      BY <1>1, <2>1, <3>1, <3>2, ValueHarmless
  <2>4. CASE hand.key = Unknown /\ UNCHANGED brokerVars
    <3>1. UNCHANGED <<queue, outgoing, resend, missed, published>>
      BY <2>1, <2>4
    <3>2. \A key \in listed : ~Carried(key)
      BY <1>2, <2>2, <2>4
    <3>3. QED
      BY <1>1, <3>1, <3>2, QuietHarmless, QueueSame, QueuedParts DEF QueueTyped
  <2>5. QED
    BY <1>7, <2>3, <2>4 DEF PublishFound
<1>8. ASSUME Loop \/ PublishState \/ WaitTimeout PROVE QueueTyped' /\ Harmless
  <2>1. /\ UNCHANGED <<queue, outgoing, resend, published>>
        /\ missed \cap Keys \subseteq missed'
        /\ missed' \in SUBSET (Keys \cup {Device, NoKey, Unknown})
    BY <1>8, MqttAssumption DEF Loop, PublishState, WaitTimeout, queueVars, PublishTopic, QueueTyped
  <2>2. \A key : ~Carried(key)
    BY <1>8 DEF Loop, PublishState, WaitTimeout, Entry
  <2>3. QED
    BY <1>1, <2>1, <2>2, QuietHarmless, QueueSame, QueuedParts
<1>9. ASSUME HandleError \/ PublishDevice \/ BeginComponents \/ BeginComponent PROVE QueueTyped' /\ Harmless
  <2>1. /\ UNCHANGED <<queue, outgoing, resend, published>>
        /\ missed \cap Keys \subseteq missed'
        /\ missed' \in SUBSET (Keys \cup {Device, NoKey, Unknown})
    BY <1>9, MqttAssumption DEF HandleError, PublishDevice, BeginComponents, BeginComponent, queueVars, PublishTopic, QueueTyped
  <2>2. \A key : ~Carried(key)
    BY <1>9 DEF HandleError, PublishDevice, BeginComponents, BeginComponent, Entry
  <2>3. QED
    BY <1>1, <2>1, <2>2, QuietHarmless, QueueSame, QueuedParts
<1>10. ASSUME PublishNext \/ EndComponents \/ PublishComponent PROVE QueueTyped' /\ Harmless
  <2>1. /\ UNCHANGED <<queue, outgoing, resend, published>>
        /\ missed \cap Keys \subseteq missed'
        /\ missed' \in SUBSET (Keys \cup {Device, NoKey, Unknown})
    BY <1>10, MqttAssumption DEF PublishNext, EndComponents, PublishComponent, queueVars, PublishTopic, QueueTyped
  <2>2. \A key : ~Carried(key)
    BY <1>10 DEF PublishNext, EndComponents, PublishComponent, Entry
  <2>3. QED
    BY <1>1, <2>1, <2>2, QuietHarmless, QueueSame, QueuedParts
<1>11. QED
  BY <1>3, <1>4, <1>5, <1>6, <1>7, <1>8, <1>9, <1>10 DEF MqttStep

LEMMA EventHarmless ==
  ASSUME Base, QueueTyped, UNCHANGED <<busVars, monitorVars, httpVars>>, Events \/ StopStep
  PROVE  QueueTyped' /\ Harmless
<1> USE DEF busVars, monitorVars, listVars, linkVars, queueVars, taskVars, stopVars, brokerVars
<1>1. /\ UNCHANGED <<telegrams, seen, current, monitor>>
      /\ (Taken <=> Taken') /\ RestTyped
  BY DEF Taken, Base
<1>2. \A key \in listed : key \in Keys
  BY <1>1 DEF RestTyped
<1>3. ASSUME \/ StartTask \/ OnDisconnected \/ StopWaited \/ StopClient
             \/ \E key \in Keys : Read(key)
      PROVE  QueueTyped' /\ Harmless
  <2>1. /\ UNCHANGED <<listed, data, latest, queue, outgoing, resend, published>>
        /\ missed' \in {missed, missed \ {Device}}
        /\ stop' = "no" => stop = "no"
        /\ \A key : Carried(key) => Carried(key)'
    BY <1>3 DEF StartTask, OnDisconnected, StopWaited, StopClient, Read, Carried
  <2>2. missed \cap Keys \subseteq missed'
    BY <2>1, MqttAssumption
  <2>3. QED
    BY <1>1, <2>1, <2>2, QuietHarmless, QueueSame, QueuedParts DEF QueueTyped
<1>4. ASSUME OnConnected PROVE QueueTyped' /\ Harmless
  <2>1. /\ UNCHANGED <<listed, data, latest, task, hand, stop, published>>
        /\ Enqueue("client", Entry("ha_connected", NoKey))
    BY <1>4 DEF OnConnected
  <2>2. QueueStep
    BY <2>1, EnqueueFacts, Losses DEF Producers
  <2>3. QueueTyped'
    BY <2>2 DEF QueueStep, QueueTyped
  <2>4. \A key \in listed \ missed' : Queued(key) => Queued(key)'
    BY <1>2, <2>1, <2>2, QueueStepKeeps DEF Carried
  <2>5. QED
    BY <1>1, <2>1, <2>2, <2>3, <2>4, QuietHarmless DEF QueueStep
<1>5. ASSUME PublishRead PROVE QueueTyped' /\ Harmless
  <2>1. UNCHANGED <<listed, data, latest, telegrams, seen, monitor, current, stop, queue, outgoing,
                    resend, task, hand>>
    BY <1>1, <1>5 DEF PublishRead
  <2>2. \A key : Carried(key) => Carried(key)'
    BY <2>1 DEF Carried
  <2>3. CASE \E key \in listed : PublishValue(key, TRUE)
    BY <1>1, <2>1, <2>2, <2>3, ValueHarmless
  <2>4. CASE UNCHANGED brokerVars
    BY <1>1, <2>1, <2>2, <2>4, QuietHarmless, QueueSame, QueuedParts DEF QueueTyped
  <2>5. QED
    BY <1>5, <2>3, <2>4 DEF PublishRead
<1>6. ASSUME NEW p \in Producers, MakeRoom(p) \/ Resend(p) PROVE QueueTyped' /\ Harmless
  <2>1. UNCHANGED <<listed, data, latest, task, hand, stop, published>>
    BY <1>6 DEF MakeRoom, Resend
  <2>2. QueueStep
    BY <1>6, MakeRoomFacts, ResendFacts
  <2>3. QueueTyped'
    BY <2>2 DEF QueueStep, QueueTyped
  <2>4. \A key \in listed \ missed' : Queued(key) => Queued(key)'
    BY <1>2, <2>1, <2>2, QueueStepKeeps DEF Carried
  <2>5. QED
    BY <1>1, <2>1, <2>2, <2>3, <2>4, QuietHarmless DEF QueueStep
<1>7. ASSUME StopSignal \/ StopClear PROVE QueueTyped' /\ Harmless
  <2>1. /\ UNCHANGED <<listed, data, latest, resend, published, missed>>
        /\ stop' # "no" /\ queue' \in {queue, FALSE}
        /\ outgoing' \in {outgoing, Append(outgoing, Entry("error", NoKey))}
        /\ outgoing' # outgoing => Len(outgoing) < QueueSize
    BY <1>7 DEF StopSignal, StopClear
  <2>2. queue' \in BOOLEAN
    BY <2>1, Zenon DEF QueueTyped
  <2>3. outgoing' \in Seq(Entries) /\ Len(outgoing') <= QueueSize
    BY <2>1, AppendToLine, Losses, MqttAssumption DEF QueueTyped
  <2>4. QED
    BY <1>1, <2>1, <2>2, <2>3, QuietHarmless DEF QueueTyped
<1>8. QED
  BY <1>3, <1>4, <1>5, <1>6, <1>7 DEF Events, StopStep

LEMMA HttpHarmless ==
  ASSUME Base, QueueTyped,
         CommandChanged \/ Inserted \/ Withdraw \/ Withdrawn
         \/ \E keys \in SUBSET Keys, how \in {"remove", "wipe"} : BeginRemoval(keys, how)
  PROVE  QueueTyped' /\ Harmless
<1> USE DEF busVars, monitorVars, queueVars, stopVars, Serving, Edit
<1>1. UNCHANGED <<telegrams, seen, current, monitor, listed, data, latest, published, stop>>
  BY DEF CommandChanged, Inserted, Withdraw, Withdrawn, BeginRemoval
<1>2. UNCHANGED <<task, hand>>
  BY DEF CommandChanged, Inserted, Withdraw, Withdrawn, BeginRemoval, WithdrawTopic
<1>3. (Taken <=> Taken') /\ RestTyped /\ \A key \in listed : key \in Keys
  BY <1>1 DEF Taken, Base, RestTyped
<1>4. \A key : Carried(key) => Carried(key)'
  BY <1>2 DEF Carried
<1>5. ASSUME CommandChanged \/ Inserted PROVE QueueTyped' /\ Harmless
  <2>1. \/ \E entry \in Entries : Enqueue("http", entry)
        \/ UNCHANGED <<queue, outgoing, resend, missed>>
    <3>1. CASE CommandChanged
      <4>1. PICK key \in removing : IF key \in HaKeys THEN Enqueue("http", Entry("component", key))
                                    ELSE UNCHANGED <<queueVars, missed>>
        BY <3>1 DEF CommandChanged
      <4>2. Entry("component", key) \in Entries
        BY <1>3, Losses DEF RestTyped
      <4>3. QED
        BY <4>1, <4>2
    <3>2. CASE Inserted
      BY <3>2, Losses DEF Inserted
    <3>3. QED
      BY <1>5, <3>1, <3>2
  <2>2. QueueStep
    <3>1. CASE UNCHANGED <<queue, outgoing, resend, missed>>
      BY <3>1 DEF QueueStep, QueueTyped
    <3>2. QED
      BY <2>1, <3>1, EnqueueFacts DEF Producers
  <2>3. QueueTyped'
    BY <2>2 DEF QueueStep, QueueTyped
  <2>4. \A key \in listed \ missed' : Queued(key) => Queued(key)'
    BY <1>3, <1>4, <2>2, QueueStepKeeps
  <2>5. QED
    BY <1>1, <1>3, <2>2, <2>3, <2>4, QuietHarmless DEF QueueStep
<1>6. ASSUME Withdraw \/ Withdrawn \/ \E keys \in SUBSET Keys, how \in {"remove", "wipe"} : BeginRemoval(keys, how) PROVE QueueTyped' /\ Harmless
  <2>1. UNCHANGED <<queue, outgoing, resend, missed>>
    BY <1>6 DEF Withdraw, Withdrawn, BeginRemoval, WithdrawTopic
  <2>2. QED
    BY <1>1, <1>3, <1>4, <2>1, QuietHarmless, QueueSame, QueuedParts DEF QueueTyped
<1>7. QED
  BY <1>5, <1>6

---------------------------------------------------------------------------
(* The steps that move telegrams or change values.                         *)

Flow == BusTyped /\ QueueTyped /\ VersionsInOrder /\ UpdatesArrive

LEMMA Telegram ==
  ASSUME BusTyped
  PROVE  /\ telegrams \in Seq(Telegrams) /\ Len(telegrams) \in Nat /\ seen \in Nat
         /\ \A i \in 1..Len(telegrams) : /\ telegrams[i] \in Telegrams
                                         /\ telegrams[i].version \in Nat
         /\ current \in Telegrams /\ current.version \in Nat
<1>1. telegrams \in Seq(Telegrams) /\ Len(telegrams) \in Nat
  BY LenProperties DEF BusTyped
<1>2. \A i \in 1..Len(telegrams) : telegrams[i] \in Telegrams
  BY <1>1, ElementOfSeq
<1>3. QED
  BY <1>1, <1>2 DEF BusTyped, Telegrams

LEMMA OnTelegramFlow ==
  ASSUME RestTyped, Flow, NEW key \in Keys \cup {NoKey}, OnTelegram(key)
  PROVE  Flow'
<1> DEFINE n == Len(telegrams)
           new == [key |-> key, version |-> seen + 1]
<1>1. /\ seen' = seen + 1
      /\ latest' = IF key \in Keys THEN [latest EXCEPT ![key] = seen + 1] ELSE latest
      /\ \/ telegrams' = Append(telegrams, new) /\ n < BusQueueSize /\ missed' = missed
         \/ telegrams' = telegrams /\ missed' = missed \cup ({key} \cap Keys)
      /\ UNCHANGED <<listed, data, queue, outgoing, resend, task, hand, stop, published, monitor,
                     current>>
  BY DEF OnTelegram, queueVars, taskVars, stopVars, monitorVars
<1>2. /\ telegrams \in Seq(Telegrams) /\ n \in Nat /\ seen \in Nat
      /\ \A i \in 1..n : telegrams[i].version \in Nat
      /\ current \in Telegrams
  BY Telegram DEF Flow
<1>3. new \in Telegrams
  BY <1>2 DEF Telegrams
<1>4. /\ telegrams' \in Seq(Telegrams) /\ Len(telegrams') <= BusQueueSize
      /\ Len(telegrams') \in {n, n + 1}
      /\ \A i \in 1..n : telegrams'[i] = telegrams[i]
      /\ Len(telegrams') = n + 1 => telegrams'[n + 1] = new
      /\ telegrams' = Append(telegrams, new) => Len(telegrams') = n + 1
  <2>1. CASE telegrams' = Append(telegrams, new) /\ n < BusQueueSize
    BY <1>2, <1>3, <2>1, AppendProperties, TelemetryAssumption
  <2>2. CASE telegrams' = telegrams
    <3>1. Len(telegrams') = n /\ n # n + 1
      BY <1>2, <2>2
    <3>2. telegrams' # Append(telegrams, new)
      BY <1>2, <1>3, <2>2, AppendProperties
    <3>3. QED
      BY <1>2, <2>2, <3>1, <3>2 DEF Flow, BusTyped
  <2>3. QED
    BY <1>1, <2>1, <2>2
<1>5. \A i \in 1..Len(telegrams') : i \in 1..n \/ (i = n + 1 /\ telegrams'[i] = new)
  BY <1>2, <1>4
<1>6. BusTyped' /\ QueueTyped'
  BY <1>1, <1>2, <1>4 DEF Flow, BusTyped, QueueTyped
<1>7. (Taken <=> Taken') /\ current' = current
  BY <1>1 DEF Taken
<1>8. \A k \in Keys : latest'[k] \in {latest[k], seen + 1} /\ (k # key => latest'[k] = latest[k])
  BY <1>1 DEF RestTyped
<1> HIDE DEF n
<1>9. VersionsInOrder'
  <2>1. \A i \in 1..n : /\ telegrams[i].version \in 1..seen
                        /\ telegrams[i].key \in Keys
                             => telegrams[i].version <= latest[telegrams[i].key]
                        /\ \A j \in 1..n : i < j => telegrams[i].version < telegrams[j].version
    BY DEF Flow, VersionsInOrder, n
  <2>2. \A i \in 1..n : telegrams[i].version < seen + 1 /\ telegrams[i].version \in 1..(seen + 1)
    BY <1>2, <2>1
  <2>3. ASSUME NEW i \in 1..Len(telegrams')
        PROVE  /\ telegrams'[i].version \in 1..(seen + 1)
               /\ telegrams'[i].key \in Keys => telegrams'[i].version <= latest'[telegrams'[i].key]
               /\ \A j \in 1..Len(telegrams') : i < j
                     => telegrams'[i].version < telegrams'[j].version
    <3>1. CASE i \in 1..n
      <4>1. telegrams'[i] = telegrams[i]
        BY <1>4, <3>1
      <4>2. telegrams[i].key \in Keys => telegrams[i].version <= latest'[telegrams[i].key]
        BY <1>8, <2>1, <2>2, <3>1, <1>2
      <4>3. \A j \in 1..Len(telegrams') : i < j => telegrams[i].version < telegrams'[j].version
        BY <1>4, <1>5, <2>1, <2>2, <3>1
      <4>4. QED
        BY <2>2, <3>1, <4>1, <4>2, <4>3
    <3>2. CASE i = n + 1 /\ telegrams'[i] = new
      <4>1. telegrams'[i].version = seen + 1 /\ telegrams'[i].key = key
        BY <3>2
      <4>2. key \in Keys => latest'[key] = seen + 1
        BY <1>1 DEF RestTyped
      <4>3. \A j \in 1..Len(telegrams') : ~(i < j)
        BY <1>2, <1>4, <3>2
      <4>4. QED
        BY <1>2, <4>1, <4>2, <4>3
    <3>3. QED
      BY <1>5, <3>1, <3>2
  <2>4. Taken' =>
          /\ current'.version \in 1..(seen + 1)
          /\ current'.key \in Keys /\ current'.version <= latest'[current'.key]
          /\ \A i \in 1..Len(telegrams') : current'.version < telegrams'[i].version
    <3>1. ASSUME Taken
          PROVE  /\ current.version \in 1..seen /\ current.key \in Keys
                 /\ current.version <= latest[current.key]
                 /\ \A i \in 1..n : current.version < telegrams[i].version
      BY <3>1 DEF Flow, VersionsInOrder, n
    <3>2. ASSUME Taken
          PROVE  /\ current.version \in 1..(seen + 1) /\ current.version < seen + 1
                 /\ current.version <= latest'[current.key]
      BY <1>2, <1>8, <3>1, <3>2
    <3>3. ASSUME Taken, NEW i \in 1..Len(telegrams')
          PROVE  current.version < telegrams'[i].version
      BY <1>4, <1>5, <3>1, <3>2, <3>3
    <3>4. QED
      BY <1>7, <3>1, <3>2, <3>3
  <2> DEFINE NextOld(version) ==
        /\ version <= seen + 1
        /\ \A i \in 1..Len(telegrams') : version < telegrams'[i].version
        /\ Taken' => version < current'.version
  <2>5. ASSUME NEW version \in Nat, Old(version) PROVE NextOld(version)
    <3>1. version <= seen /\ \A i \in 1..n : version < telegrams[i].version
      BY <2>5 DEF Old, n
    <3>2. version < seen + 1 /\ version <= seen + 1
      BY <1>2, <3>1
    <3>3. \A i \in 1..Len(telegrams') : version < telegrams'[i].version
      BY <1>4, <1>5, <3>1, <3>2
    <3>4. QED
      BY <1>7, <2>5, <3>2, <3>3 DEF Old
  <2>6. ASSUME NEW k \in Keys
        PROVE  /\ data'[k] = Torn \/ NextOld(data'[k])
               /\ published'[k] = Torn \/ NextOld(published'[k])
               /\ data'[k] \in {0, Torn} \/ published'[k] = Torn \/ published'[k] <= data'[k]
    <3>1. data[k] \in Nat \cup {Torn} /\ published[k] \in Nat \cup {Torn}
      BY DEF RestTyped
    <3> HIDE DEF NextOld
    <3>2. QED
      BY <1>1, <2>5, <3>1 DEF Flow, VersionsInOrder
  <2>7. QED
    BY <1>1, <2>3, <2>4, <2>6 DEF VersionsInOrder, Old
<1>10. UpdatesArrive'
  <2>1. ASSUME stop' = "no", NEW k \in listed' \ missed'
        PROVE  /\ data'[k] = latest'[k] \/ Coming(k)'
               /\ published'[k] = latest'[k] \/ Coming(k)' \/ Queued(k)'
    <3>1. k \in listed /\ k \notin missed /\ stop = "no" /\ k \in Keys
      BY <1>1, <2>1 DEF RestTyped
    <3>2. CASE k = key
      <4>1. telegrams' = Append(telegrams, new)
        BY <1>1, <2>1, <3>1, <3>2
      <4>2. latest'[k] = seen + 1
        BY <1>1, <3>1, <3>2 DEF RestTyped
      <4>3. n + 1 \in 1..Len(telegrams') /\ telegrams'[n + 1] = [key |-> k, version |-> latest'[k]]
        BY <1>2, <1>4, <3>2, <4>1, <4>2
      <4>4. QED
        BY <4>3 DEF Coming
    <3>3. CASE k # key
      <4>1. latest'[k] = latest[k] /\ data'[k] = data[k] /\ published'[k] = published[k]
        BY <1>1, <1>8, <3>1, <3>3
      <4>2. Queued(k) => Queued(k)'
        BY <1>1 DEF Queued
      <4>3. ASSUME Coming(k) PROVE Coming(k)'
        <5>1. CASE \E i \in 1..n : telegrams[i] = [key |-> k, version |-> latest[k]]
          <6>1. \A i \in 1..n : i \in 1..Len(telegrams')
            BY <1>2, <1>4
          <6>2. QED
            BY <1>4, <4>1, <5>1, <6>1 DEF Coming
        <5>2. CASE Taken /\ current = [key |-> k, version |-> latest[k]]
          BY <1>7, <4>1, <5>2 DEF Coming
        <5>3. QED
          BY <4>3, <5>1, <5>2 DEF Coming, n
      <4>4. QED
        BY <3>1, <4>1, <4>2, <4>3 DEF Flow, UpdatesArrive
    <3>4. QED
      BY <3>2, <3>3
  <2>2. QED
    BY <2>1 DEF UpdatesArrive
<1>11. QED
  BY <1>6, <1>9, <1>10 DEF Flow

LEMMA TakeTelegramFlow ==
  ASSUME RestTyped, Flow, TakeTelegram
  PROVE  Flow'
<1> DEFINE n == Len(telegrams)
<1>1. /\ monitor = "wait" /\ telegrams # <<>> /\ telegrams' = Tail(telegrams)
      /\ UNCHANGED <<listed, data, latest, seen, task, hand, stop, published>>
  BY DEF TakeTelegram, Monitoring, busVars, taskVars, stopVars
<1>2. /\ telegrams \in Seq(Telegrams) /\ n \in Nat /\ seen \in Nat
      /\ \A i \in 1..n : telegrams[i] \in Telegrams /\ telegrams[i].version \in Nat
      /\ current \in Telegrams
  BY Telegram DEF Flow
<1>3. /\ telegrams' \in Seq(Telegrams) /\ n \in Nat \ {0} /\ Len(telegrams') = n - 1
      /\ Head(telegrams) = telegrams[1]
      /\ \A i \in 1..(n - 1) : telegrams'[i] = telegrams[i + 1]
  BY <1>1, <1>2, HeadTailProperties, EmptySeq, LenProperties
<1>4. \A i \in 1..(n - 1) : i + 1 \in 1..n /\ telegrams'[i] = telegrams[i + 1]
  BY <1>3
<1>5. telegrams[1] \in Telegrams /\ ~Taken /\ 1 \in 1..n
  BY <1>1, <1>2, <1>3 DEF Taken
<1>6. \/ /\ telegrams[1].key = NoKey /\ Enqueue("monitor", Entry("error", NoKey))
         /\ monitor' = monitor /\ current' = current
      \/ /\ telegrams[1].key # NoKey /\ monitor' = "update" /\ current' = telegrams[1]
         /\ UNCHANGED <<queueVars, missed>>
  BY <1>3 DEF TakeTelegram, monitorVars
<1>7. QueueStep
  <2>1. UNCHANGED <<queueVars, missed>> => QueueStep
    BY DEF QueueStep, QueueTyped, Flow, queueVars
  <2>2. QED
    BY <1>6, <2>1, EnqueueFacts, Losses DEF Producers, Flow
<1>8. Len(telegrams) <= BusQueueSize
  BY DEF Flow, BusTyped
<1>9. BusTyped' /\ QueueTyped'
  <2>1. Len(telegrams') <= BusQueueSize
    BY <1>3, <1>8, TelemetryAssumption
  <2>2. current' \in Telegrams
    BY <1>2, <1>5, <1>6
  <2>3. BusTyped'
    BY <1>1, <1>2, <1>3, <2>1, <2>2 DEF BusTyped
  <2>4. QueueTyped'
    BY <1>7 DEF QueueTyped, QueueStep, Flow
  <2>5. QED
    BY <2>3, <2>4
<1> DEFINE Takes == telegrams[1].key # NoKey /\ current' = telegrams[1]
<1>10. Taken' => Takes
  BY <1>1, <1>6 DEF Taken
<1>11. ~Takes => telegrams[1].key = NoKey
  BY <1>6
<1>12. Takes => Taken'
  BY <1>6 DEF Taken
<1>13. \A i \in 1..n : /\ telegrams[i].version \in 1..seen
                       /\ telegrams[i].key \in Keys => telegrams[i].version <= latest[telegrams[i].key]
                       /\ \A j \in 1..n : i < j => telegrams[i].version < telegrams[j].version
  BY DEF Flow, VersionsInOrder
<1> HIDE DEF n, Takes
<1>14. VersionsInOrder'
  <2>1. ASSUME NEW i \in 1..Len(telegrams')
        PROVE  /\ telegrams'[i].version \in 1..seen
               /\ telegrams'[i].key \in Keys => telegrams'[i].version <= latest[telegrams'[i].key]
               /\ \A j \in 1..Len(telegrams') : i < j
                     => telegrams'[i].version < telegrams'[j].version
    <3>1. i + 1 \in 1..n /\ telegrams'[i] = telegrams[i + 1]
      BY <1>3, <1>4
    <3>2. \A j \in 1..Len(telegrams') : i < j => telegrams[i + 1].version < telegrams'[j].version
      <4>1. ASSUME NEW j \in 1..Len(telegrams'), i < j
            PROVE  telegrams[i + 1].version < telegrams'[j].version
        <5>1. j + 1 \in 1..n /\ telegrams'[j] = telegrams[j + 1] /\ i + 1 < j + 1
          BY <1>3, <1>4, <4>1
        <5>2. QED
          BY <1>13, <3>1, <5>1
      <4>2. QED
        BY <4>1
    <3>3. QED
      BY <1>13, <3>1, <3>2
  <2>2. ASSUME NEW i \in 1..Len(telegrams') PROVE telegrams[1].version < telegrams'[i].version
    <3>1. i + 1 \in 1..n /\ telegrams'[i] = telegrams[i + 1] /\ 1 < i + 1
      BY <1>3, <1>4
    <3>2. QED
      BY <1>5, <1>13, <3>1
  <2>3. Taken' =>
          /\ current'.version \in 1..seen
          /\ current'.key \in Keys /\ current'.version <= latest[current'.key]
          /\ \A i \in 1..Len(telegrams') : current'.version < telegrams'[i].version
    BY <1>5, <1>10, <1>13, <2>2 DEF Takes, Telegrams
  <2> DEFINE NextOld(version) ==
        /\ version <= seen
        /\ \A i \in 1..Len(telegrams') : version < telegrams'[i].version
        /\ Taken' => version < current'.version
  <2>4. ASSUME NEW version \in Nat, Old(version) PROVE NextOld(version)
    <3>1. version <= seen /\ \A i \in 1..n : version < telegrams[i].version
      BY <2>4 DEF Old, n
    <3>2. \A i \in 1..Len(telegrams') : version < telegrams'[i].version
      BY <1>3, <1>4, <3>1
    <3>3. QED
      BY <1>5, <1>10, <3>1, <3>2 DEF Takes
  <2>5. ASSUME NEW k \in Keys
        PROVE  /\ data'[k] = Torn \/ NextOld(data'[k])
               /\ published'[k] = Torn \/ NextOld(published'[k])
               /\ data'[k] \in {0, Torn} \/ published'[k] = Torn \/ published'[k] <= data'[k]
    <3>1. data[k] \in Nat \cup {Torn} /\ published[k] \in Nat \cup {Torn}
      BY DEF RestTyped
    <3> HIDE DEF NextOld
    <3>2. QED
      BY <1>1, <2>4, <3>1 DEF Flow, VersionsInOrder
  <2>6. QED
    BY <1>1, <2>1, <2>3, <2>5 DEF VersionsInOrder, Old
<1>15. UpdatesArrive'
  <2>1. ASSUME stop' = "no", NEW k \in listed' \ missed'
        PROVE  /\ data'[k] = latest'[k] \/ Coming(k)'
               /\ published'[k] = latest'[k] \/ Coming(k)' \/ Queued(k)'
    <3>1. k \in listed /\ k \notin missed /\ stop = "no" /\ k \in Keys /\ k # NoKey
      BY <1>1, <1>7, <2>1, MqttAssumption DEF RestTyped, QueueStep
    <3>2. ASSUME Coming(k) PROVE Coming(k)'
      <4>1. PICK i \in 1..n : telegrams[i] = [key |-> k, version |-> latest[k]]
        BY <1>5, <3>2 DEF Coming, n
      <4>2. CASE i = 1
        <5>1. Takes
          BY <1>11, <3>1, <4>1, <4>2
        <5>2. QED
          BY <1>1, <1>12, <4>1, <4>2, <5>1 DEF Coming, Takes
      <4>3. CASE i # 1
        <5>1. i - 1 \in 1..Len(telegrams') /\ i - 1 \in 1..(n - 1) /\ (i - 1) + 1 = i
          BY <1>3, <4>3
        <5>2. telegrams'[i - 1] = telegrams[i]
          BY <1>4, <5>1
        <5>3. QED
          BY <1>1, <4>1, <5>1, <5>2 DEF Coming
      <4>4. QED
        BY <4>2, <4>3
    <3>3. Queued(k) => Queued(k)'
      BY <1>1, <1>7, <2>1, <3>1, QueueStepKeeps DEF Carried, Flow
    <3>4. QED
      BY <1>1, <3>1, <3>2, <3>3 DEF Flow, UpdatesArrive
  <2>2. QED
    BY <2>1 DEF UpdatesArrive
<1>16. QED
  BY <1>9, <1>14, <1>15 DEF Flow

(* A value that is as new as the last telegram has no telegram to come.    *)
LEMMA BeforeCopy ==
  ASSUME RestTyped, Flow, Taken
  PROVE  /\ current.key \in Keys /\ current.version \in 1..seen
         /\ data[current.key] # latest[current.key]
         /\ \A i \in 1..Len(telegrams) : current.version < telegrams[i].version
         /\ \A k \in Keys : /\ data[k] = Torn \/ data[k] < current.version
                            /\ published[k] = Torn \/ published[k] < current.version
<1>1. /\ current.key \in Keys /\ current.version \in 1..seen
      /\ current.version <= latest[current.key]
      /\ \A i \in 1..Len(telegrams) : current.version < telegrams[i].version
  BY DEF Flow, VersionsInOrder
<1>2. \A k \in Keys : /\ data[k] = Torn \/ data[k] < current.version
                      /\ published[k] = Torn \/ published[k] < current.version
  BY DEF Flow, VersionsInOrder, Old
<1>3. /\ latest[current.key] \in Nat /\ data[current.key] \in Nat \cup {Torn}
      /\ current.version \in Nat /\ Torn \notin Nat
  BY <1>1, Telegram, MqttAssumption DEF RestTyped, Flow
<1>4. data[current.key] # latest[current.key]
  BY <1>1, <1>2, <1>3
<1>5. QED
  BY <1>1, <1>2, <1>4

LEMMA BeginUpdateFlow ==
  ASSUME RestTyped, Flow, BeginUpdate
  PROVE  Flow'
<1>1. /\ UNCHANGED <<listed, latest, seen, telegrams, task, hand, stop, published, queue, outgoing,
                     resend, missed>>
      /\ Taken
  BY DEF BeginUpdate, Monitoring, taskVars, stopVars, queueVars, Taken
<1>2. \/ /\ current.key \in listed /\ data' = [data EXCEPT ![current.key] = Torn]
         /\ current' = current /\ Taken'
      \/ /\ current.key \notin listed /\ data' = data /\ current' = NoTelegram /\ ~Taken'
  BY DEF BeginUpdate, Taken
<1>3. NoTelegram \in Telegrams
  BY DEF NoTelegram, Telegrams
<1>4. BusTyped' /\ QueueTyped'
  BY <1>1, <1>2, <1>3 DEF Flow, BusTyped, QueueTyped
<1>5. \A k \in Keys : data'[k] \in {data[k], Torn} /\ (k # current.key => data'[k] = data[k])
  BY <1>2 DEF RestTyped
<1>6. VersionsInOrder'
  <2>1. Taken' => current' = current
    BY <1>2
  <2> DEFINE NextOld(version) ==
        /\ version <= seen
        /\ \A i \in 1..Len(telegrams) : version < telegrams[i].version
        /\ Taken' => version < current'.version
  <2>2. \A version : Old(version) => NextOld(version)
    BY <1>1, <2>1 DEF Old
  <2>3. ASSUME NEW k \in Keys
        PROVE  /\ data'[k] = Torn \/ NextOld(data'[k])
               /\ published[k] = Torn \/ NextOld(published[k])
               /\ data'[k] \in {0, Torn} \/ published[k] = Torn \/ published[k] <= data'[k]
    <3> HIDE DEF NextOld
    <3>1. QED
      BY <1>5, <2>2 DEF Flow, VersionsInOrder
  <2>4. QED
    BY <1>1, <2>1, <2>3 DEF Flow, VersionsInOrder, Old
<1>7. UpdatesArrive'
  <2>1. ASSUME stop' = "no", NEW k \in listed' \ missed'
        PROVE  /\ data'[k] = latest'[k] \/ Coming(k)'
               /\ published'[k] = latest'[k] \/ Coming(k)' \/ Queued(k)'
    <3>1. k \in listed /\ k \notin missed /\ stop = "no" /\ k \in Keys
      BY <1>1, <2>1 DEF RestTyped
    <3>2. Queued(k) => Queued(k)'
      BY <1>1 DEF Queued
    <3>3. /\ data[k] = latest[k] \/ Coming(k)
          /\ published[k] = latest[k] \/ Coming(k) \/ Queued(k)
      BY <3>1 DEF Flow, UpdatesArrive
    <3>4. Coming(k) => Coming(k)'
      <4>1. CASE current.key \in listed
        BY <1>1, <1>2, <4>1 DEF Coming
      <4>2. CASE current.key \notin listed
        <5>1. current # [key |-> k, version |-> latest[k]]
          BY <3>1, <4>2
        <5>2. QED
          BY <1>1, <5>1 DEF Coming
      <4>3. QED
        BY <4>1, <4>2
    <3>5. k = current.key => data[k] # latest[k]
      BY <1>1, BeforeCopy
    <3>6. QED
      BY <1>1, <1>5, <3>1, <3>2, <3>3, <3>4, <3>5
  <2>2. QED
    BY <2>1 DEF UpdatesArrive
<1>8. QED
  BY <1>4, <1>6, <1>7 DEF Flow

LEMMA EndUpdateFlow ==
  ASSUME RestTyped, Flow, EndUpdate
  PROVE  Flow'
<1>1. /\ UNCHANGED <<listed, latest, seen, telegrams, current, task, hand, stop, published>>
      /\ data' = [data EXCEPT ![current.key] = current.version]
      /\ Enqueue("monitor", Entry("update", current.key))
      /\ Taken /\ ~Taken'
  BY DEF EndUpdate, Monitoring, taskVars, stopVars, Taken
<1>2. /\ current.key \in Keys /\ current.version \in 1..seen
      /\ data[current.key] # latest[current.key]
      /\ \A i \in 1..Len(telegrams) : current.version < telegrams[i].version
      /\ \A k \in Keys : /\ data[k] = Torn \/ data[k] < current.version
                         /\ published[k] = Torn \/ published[k] < current.version
  BY <1>1, BeforeCopy
<1>3. /\ QueueStep
      /\ current.key \notin missed'
           => InLine(outgoing', current.key) \/ AtProducer(resend', current.key)
  BY <1>1, <1>2, EnqueueFacts, Losses DEF Producers, Flow
<1>4. BusTyped' /\ QueueTyped'
  BY <1>1, <1>3 DEF Flow, BusTyped, QueueTyped, QueueStep
<1>5. \A k \in Keys : data'[k] = IF k = current.key THEN current.version ELSE data[k]
  BY <1>1 DEF RestTyped
<1>6. VersionsInOrder'
  <2> DEFINE NextOld(version) ==
        /\ version <= seen
        /\ \A i \in 1..Len(telegrams) : version < telegrams[i].version
  <2>1. \A version : Old(version) => NextOld(version)
    BY DEF Old
  <2>2. NextOld(current.version) /\ current.version \in Nat
    BY <1>2, Telegram DEF Flow
  <2>3. ASSUME NEW k \in Keys
        PROVE  /\ data'[k] = Torn \/ NextOld(data'[k])
               /\ published[k] = Torn \/ NextOld(published[k])
               /\ data'[k] \in {0, Torn} \/ published[k] = Torn \/ published[k] <= data'[k]
    <3>1. published[k] = Torn \/ (published[k] \in Nat /\ published[k] < current.version)
      BY <1>2 DEF RestTyped
    <3>2. published[k] = Torn \/ published[k] <= current.version
      BY <2>2, <3>1
    <3> HIDE DEF NextOld
    <3>3. QED
      BY <1>5, <2>1, <2>2, <3>2 DEF Flow, VersionsInOrder
  <2>4. QED
    BY <1>1, <2>3 DEF Flow, VersionsInOrder, Old
<1>7. UpdatesArrive'
  <2>1. ASSUME stop' = "no", NEW k \in listed' \ missed'
        PROVE  /\ data'[k] = latest'[k] \/ Coming(k)'
               /\ published'[k] = latest'[k] \/ Coming(k)' \/ Queued(k)'
    <3>1. k \in listed /\ k \notin missed /\ stop = "no" /\ k \in Keys
      BY <1>1, <1>3, <2>1 DEF RestTyped, QueueStep
    <3>2. /\ data[k] = latest[k] \/ Coming(k)
          /\ published[k] = latest[k] \/ Coming(k) \/ Queued(k)
      BY <3>1 DEF Flow, UpdatesArrive
    <3>3. CASE k = current.key
      <4>1. Queued(k)'
        BY <1>3, <2>1, <3>3, QueuedParts
      <4>2. Coming(k)
        BY <1>2, <3>2, <3>3
      <4>3. data'[k] = latest'[k] \/ Coming(k)'
        <5>1. CASE current = [key |-> k, version |-> latest[k]]
          BY <1>1, <1>5, <3>1, <3>3, <5>1
        <5>2. CASE \E i \in 1..Len(telegrams) : telegrams[i] = [key |-> k, version |-> latest[k]]
          BY <1>1, <5>2 DEF Coming
        <5>3. QED
          BY <4>2, <5>1, <5>2 DEF Coming
      <4>4. QED
        BY <4>1, <4>3
    <3>4. CASE k # current.key
      <4>1. current # [key |-> k, version |-> latest[k]]
        BY <3>4
      <4>2. Coming(k) => Coming(k)'
        BY <1>1, <4>1 DEF Coming
      <4>3. Queued(k) => Queued(k)'
        BY <1>1, <1>3, <2>1, <3>1, QueueStepKeeps DEF Carried, Flow
      <4>4. QED
        BY <1>1, <1>5, <3>1, <3>2, <3>4, <4>2, <4>3
    <3>5. QED
      BY <3>3, <3>4
  <2>2. QED
    BY <2>1 DEF UpdatesArrive
<1>8. QED
  BY <1>4, <1>6, <1>7 DEF Flow

(* A value that was reset is older than any telegram.                      *)
LEMMA ResetFlow ==
  ASSUME RestTyped, Flow,
         UNCHANGED <<latest, published, stop, telegrams, seen, monitor, current>>,
         QueueTyped', missed \cap Keys \subseteq missed',
         \A k \in Keys : data'[k] \in {data[k], 0},
         \A k \in listed' \ missed' :
           k \in listed /\ data'[k] = data[k] /\ (Queued(k) => Queued(k)')
  PROVE  Flow'
<1>1. BusTyped'
  BY DEF Flow, BusTyped
<1>2. (Taken <=> Taken') /\ \A k : Coming(k) => Coming(k)'
  BY DEF Taken, Coming
<1>3. Old(0)
  <2>1. seen \in Nat /\ \A i \in 1..Len(telegrams) : telegrams[i].version \in 1..seen
    BY Telegram DEF Flow, VersionsInOrder
  <2>2. Taken => current.version \in 1..seen
    BY DEF Flow, VersionsInOrder
  <2>3. QED
    BY <2>1, <2>2 DEF Old
<1>4. VersionsInOrder'
  <2>1. \A version : Old(version) => Old(version)'
    BY <1>2 DEF Old
  <2> DEFINE NextOld(version) ==
        /\ version <= seen
        /\ \A i \in 1..Len(telegrams) : version < telegrams[i].version
        /\ Taken' => version < current.version
  <2>2. \A version : Old(version) => NextOld(version)
    BY <1>2 DEF Old
  <2>3. ASSUME NEW k \in Keys
        PROVE  /\ data'[k] = Torn \/ NextOld(data'[k])
               /\ published[k] = Torn \/ NextOld(published[k])
               /\ data'[k] \in {0, Torn} \/ published[k] = Torn \/ published[k] <= data'[k]
    <3> HIDE DEF NextOld
    <3>1. QED
      BY <1>3, <2>2 DEF Flow, VersionsInOrder
  <2>4. QED
    BY <1>2, <2>3 DEF Flow, VersionsInOrder, Old
<1>5. UpdatesArrive'
  <2>1. \A k \in listed' \ missed' : k \in listed \ missed
    BY DEF RestTyped
  <2>2. QED
    BY <1>2, <2>1 DEF Flow, UpdatesArrive
<1>6. QED
  BY <1>1, <1>4, <1>5 DEF Flow

LEMMA ListFlow ==
  ASSUME Base, Flow,
         (\E key \in Keys : InsertCommand(key)) \/ Removed \/ Wiped
  PROVE  Flow'
<1>1. RestTyped /\ QueueTyped
  BY DEF Base, Flow
<1>2. ASSUME NEW key \in Keys, InsertCommand(key) PROVE Flow'
  <2>1. /\ listed' = listed \cup {key} /\ data' = [data EXCEPT ![key] = 0]
        /\ missed' = missed \cup {key}
        /\ UNCHANGED <<queue, outgoing, resend, task, hand, latest, published, stop, telegrams, seen,
                       monitor, current>>
    BY <1>2 DEF InsertCommand, Edit, Serving, queueVars, stopVars, busVars, monitorVars
  <2>2. QueueTyped'
    BY <1>1, <2>1 DEF QueueTyped
  <2>3. \A k \in Keys : data'[k] \in {data[k], 0}
    BY <1>1, <2>1 DEF RestTyped
  <2>4. \A k \in listed' \ missed' :
          k \in listed /\ data'[k] = data[k] /\ (Queued(k) => Queued(k)')
    BY <1>1, <2>1 DEF RestTyped, Queued
  <2>5. QED
    BY <1>1, <2>1, <2>2, <2>3, <2>4, ResetFlow
<1>3. ASSUME NEW keys \in SUBSET Keys, Erase(keys), queue' = queue, task' = task,
             UNCHANGED <<latest, published, stop, telegrams, seen, monitor, current>>
      PROVE  Flow'
  <2>1. QueueStep
    BY <1>1, <1>3, EraseFacts DEF RestTyped
  <2>2. QueueTyped'
    BY <1>1, <2>1 DEF QueueTyped, QueueStep
  <2>3. /\ listed' = listed \ keys
        /\ data' = [k \in Keys |-> IF k \in keys THEN 0 ELSE data[k]]
        /\ hand' = IF task = "value" THEN [hand EXCEPT !.key = Unknown] ELSE Moved(hand)
        /\ task = "value" => {hand.key} \cap Keys \subseteq missed'
    BY <1>3 DEF Erase
  <2>4. ASSUME NEW k \in listed' \ missed', Carried(k) PROVE Carried(k)'
    <3>1. k \in Keys /\ hand.key = k /\ hand.type = "update"
      BY <1>1, <2>3, <2>4 DEF RestTyped, Carried, Entry
    <3>2. task # "value"
      BY <2>3, <2>4, <3>1
    <3>3. hand' = hand
      BY <2>3, <3>1, <3>2 DEF Moved
    <3>4. QED
      BY <1>3, <2>4, <3>3 DEF Carried
  <2>5. \A k \in listed' \ missed' :
          k \in listed /\ data'[k] = data[k] /\ (Queued(k) => Queued(k)')
    BY <1>1, <2>1, <2>3, <2>4, QueueStepKeeps DEF RestTyped
  <2>6. QED
    BY <1>1, <1>3, <2>1, <2>2, <2>3, <2>5, ResetFlow DEF QueueStep
<1>4. CASE Removed
  <2>1. Erase(removing) /\ removing \in SUBSET Keys
    BY <1>1, <1>4 DEF Removed, RestTyped
  <2>2. QED
    BY <1>3, <1>4, <2>1 DEF Removed, Serving, stopVars, busVars, monitorVars
<1>5. CASE Wiped
  <2>1. Erase(listed) /\ listed \in SUBSET Keys
    BY <1>1, <1>5 DEF Wiped, RestTyped
  <2>2. QED
    BY <1>3, <1>5, <2>1 DEF Wiped, Serving, stopVars, busVars, monitorVars
<1>6. QED
  BY <1>2, <1>4, <1>5

---------------------------------------------------------------------------
(* Every step                                                              *)

(* The variables that no other part of the invariant is about.             *)
SideTyped ==
  /\ budget \in [Outside -> Nat] /\ early \in BOOLEAN
  /\ full \in SUBSET Producers /\ reading \in Keys \cup {NoKey, Unknown}

LEMMA Parted ==
  /\ IInv <=> Base /\ Flow /\ SideTyped
  /\ IInv' <=> Base' /\ Flow' /\ SideTyped'
BY DEF IInv, TypeOK, MqttTypeOK, QueuesFit, Base, RestTyped, Flow, BusTyped, QueueTyped, SideTyped

LEMMA BudgetKept ==
  ASSUME budget \in [Outside -> Nat], Next
  PROVE  budget' \in [Outside -> Nat]
<1>1. \A what \in Outside : Spend(what) => budget' \in [Outside -> Nat]
  BY DEF Spend
<1>2. \/ budget' = budget \/ Spend("telegrams") \/ Spend("links") \/ Spend("edits") \/ Spend("stops")
  <2>1. CASE (\E key \in Heard : OnTelegram(key)) \/ MonitorStep \/ HttpStep \/ Requests \/ StopServices
    BY <2>1 DEF OnTelegram, MonitorStep, TakeTelegram, BeginUpdate, EndUpdate, Updated, Monitoring,
                HttpStep, Requests, InsertCommand, BeginRemoval, Edit, StopServices
  <2>2. CASE MqttStep
    BY <2>2 DEF MqttStep, CreateQueue, Loop, EndTask, PublishState, WaitTimeout, Receive, HandleError,
         FindValue, PublishFound, PublishDevice, BeginComponents, PublishNext, EndComponents,
         BeginComponent, PublishComponent, Handle, At
  <2>3. CASE Events \/ StopStep
    BY <2>3 DEF Events, StopStep, StartTask, OnConnected, OnDisconnected, Read, PublishRead, MakeRoom,
                Resend, StopSignal, StopWaited, StopClear, StopClient
  <2>4. QED
    BY <2>1, <2>2, <2>3 DEF Next
<1>3. QED
  BY <1>1, <1>2 DEF Outside

LEMMA SideKept ==
  ASSUME queue \in BOOLEAN, SideTyped, Next
  PROVE  SideTyped'
<1> USE DEF queueVars, linkVars
<1>1. /\ early' \in {early, ~queue}
      /\ reading' \in Keys \cup {reading, NoKey, Unknown}
      /\ full' \subseteq full \cup Producers
  <2>1. \A producer \in Producers, entry \in Entries :
          Enqueue(producer, entry) => full' \subseteq full \cup Producers /\ reading' = reading
    BY DEF Enqueue
  <2>2. CASE (\E key \in Heard : OnTelegram(key)) \/ StopServices \/ BeginUpdate \/ Updated
    BY <2>2 DEF OnTelegram, BeginUpdate, Updated, Monitoring, StopServices
  <2>3. CASE TakeTelegram \/ EndUpdate
    BY <2>3 DEF TakeTelegram, EndUpdate, Monitoring, Enqueue, Producers
  <2>4. CASE CommandChanged \/ Inserted
    BY <2>4 DEF CommandChanged, Inserted, Serving, Enqueue, Producers
  <2>5. CASE Withdraw \/ Removed \/ Withdrawn \/ Wiped \/ Requests
    BY <2>5 DEF Withdraw, Removed, Withdrawn, Wiped, Erase, Requests, InsertCommand, BeginRemoval,
                Edit, Serving
  <2>6. CASE MqttStep
    BY <2>6 DEF MqttStep, CreateQueue, Loop, EndTask, PublishState, WaitTimeout, Receive, HandleError,
         FindValue, PublishFound, PublishDevice, BeginComponents, PublishNext, EndComponents,
         BeginComponent, PublishComponent, Handle, At
  <2>7. CASE OnConnected
    BY <2>7 DEF OnConnected, Enqueue, Producers
  <2>8. CASE StartTask \/ OnDisconnected \/ (\E key \in Keys : Read(key)) \/ PublishRead
             \/ (\E p \in Producers : MakeRoom(p) \/ Resend(p)) \/ StopStep
    BY <2>8 DEF StartTask, OnDisconnected, Read, PublishRead, MakeRoom, Resend, StopStep, StopSignal,
                StopWaited, StopClear, StopClient
  <2>9. QED
    BY <2>2, <2>3, <2>4, <2>5, <2>6, <2>7, <2>8 DEF Next, MonitorStep, HttpStep, Events
<1>2. early' \in BOOLEAN
  BY <1>1, Zenon DEF SideTyped
<1>3. QED
  BY <1>1, <1>2, BudgetKept DEF SideTyped

LEMMA BusFlow ==
  ASSUME Base, Flow, (\E key \in Heard : OnTelegram(key)) \/ MonitorStep \/ StopServices
  PROVE  Base' /\ Flow'
<1>1. RestTyped /\ QueueTyped /\ BusTyped /\ (current.key \in Keys \/ ~Taken)
  BY DEF Base, Flow, VersionsInOrder
<1>2. Heard \subseteq Keys \cup {NoKey}
  BY TelemetryAssumption
<1>3. Base'
  BY <1>1, <1>2, BaseBus
<1>4. CASE Updated
  <2>1. /\ UNCHANGED <<listed, data, latest, telegrams, seen, published, queue, outgoing, resend,
                       missed, task, hand, stop>>
        /\ ~Taken /\ ~Taken' /\ current' = NoTelegram
    BY <1>4 DEF Updated, Monitoring, Taken, queueVars, taskVars, stopVars
  <2>2. QueueTyped' /\ \A key : Queued(key) => Queued(key)'
    BY <1>1, <2>1 DEF QueueTyped, Queued
  <2>3. Harmless
    BY <1>1, <2>1, <2>2, QuietHarmless
  <2>4. NoTelegram \in Telegrams
    BY DEF NoTelegram, Telegrams
  <2>5. BusTyped'
    BY <1>1, <2>1, <2>4 DEF BusTyped
  <2>6. QED
    BY <1>1, <1>3, <2>2, <2>3, <2>5, HarmlessKeeps DEF Flow
<1>5. CASE StopServices
  <2>1. /\ UNCHANGED <<listed, data, latest, telegrams, seen, published, queue, outgoing, resend,
                       missed, current>>
        /\ ~Taken' /\ stop' = "done"
    BY <1>5 DEF StopServices, Taken, listVars, queueVars, brokerVars, busVars
  <2>2. QueueTyped' /\ BusTyped'
    BY <1>1, <2>1 DEF QueueTyped, BusTyped
  <2>3. Harmless
    BY <2>1 DEF Harmless
  <2>4. QED
    BY <1>1, <1>3, <2>2, <2>3, HarmlessKeeps DEF Flow
<1>6. QED
  BY <1>1, <1>2, <1>3, <1>4, <1>5, OnTelegramFlow, TakeTelegramFlow, BeginUpdateFlow, EndUpdateFlow
     DEF MonitorStep

LEMMA HttpFlow ==
  ASSUME Base, Flow, HttpStep \/ Requests
  PROVE  Base' /\ Flow'
<1>1. RestTyped /\ QueueTyped /\ BusTyped /\ VersionsInOrder /\ UpdatesArrive
  BY DEF Base, Flow
<1>2. Base'
  BY <1>1, BaseHttp
<1>3. CASE CommandChanged \/ Inserted \/ Withdraw \/ Withdrawn
           \/ \E keys \in SUBSET Keys, how \in {"remove", "wipe"} : BeginRemoval(keys, how)
  <2>1. QueueTyped' /\ Harmless
    BY <1>1, <1>3, HttpHarmless
  <2>2. UNCHANGED <<telegrams, seen, current>>
    BY <1>3 DEF CommandChanged, Inserted, Withdraw, Withdrawn, BeginRemoval, Edit, Serving, busVars,
                monitorVars
  <2>3. BusTyped'
    BY <1>1, <2>2 DEF BusTyped
  <2>4. QED
    BY <1>1, <1>2, <2>1, <2>3, HarmlessKeeps DEF Flow
<1>4. CASE (\E key \in Keys : InsertCommand(key)) \/ Removed \/ Wiped
  BY <1>2, <1>4, ListFlow
<1>5. \A key \in Keys : {key} \cap listed \in SUBSET Keys
  OBVIOUS
<1>6. listed \in SUBSET Keys
  BY <1>1 DEF RestTyped
<1>7. QED
  BY <1>3, <1>4, <1>5, <1>6 DEF HttpStep, Requests

LEMMA MqttFlow ==
  ASSUME Base, Flow, MqttStep \/ Events \/ StopStep, UNCHANGED <<busVars, monitorVars, httpVars>>
  PROVE  Base' /\ Flow'
<1>1. RestTyped /\ QueueTyped /\ BusTyped /\ VersionsInOrder /\ UpdatesArrive
  BY DEF Base, Flow
<1>2. Base' /\ QueueTyped' /\ Harmless
  BY <1>1, BaseTask, BaseEvents, TaskHarmless, EventHarmless
<1>3. BusTyped'
  BY <1>1 DEF BusTyped, busVars, monitorVars
<1>4. QED
  BY <1>1, <1>2, <1>3, HarmlessKeeps DEF Flow

LEMMA StepKeeps ==
  ASSUME IInv, Next
  PROVE  IInv'
<1>1. queue \in BOOLEAN /\ SideTyped /\ Base /\ Flow
  BY Parted DEF Flow, QueueTyped
<1>2. SideTyped'
  BY <1>1, SideKept
<1>3. QED
  BY <1>1, <1>2, Parted, BusFlow, HttpFlow, MqttFlow DEF Next

LEMMA InitInv == Init => IInv
<1> SUFFICES ASSUME Init PROVE IInv
  OBVIOUS
<1>1. /\ listed \in SUBSET Keys /\ commandsLock = "free" /\ data = [k \in Keys |-> 0]
      /\ latest = [k \in Keys |-> 0] /\ published = [k \in Keys |-> 0] /\ budget \in Budgets
      /\ outgoing = <<>> /\ resend = [p \in Producers |-> Nothing]
      /\ task = "none" /\ hand = Nothing /\ topics = {} /\ stop = "no"
      /\ retained = {} /\ leftBehind = {} /\ missed = {}
      /\ telegrams = <<>> /\ seen = 0 /\ monitor = "wait" /\ current = NoTelegram
      /\ http = "idle" /\ removing = {} /\ withdrawing = {} /\ full = {} /\ reading = NoKey
  BY DEF Init, MqttInit
<1>2. /\ client = TRUE /\ connected = FALSE /\ queue = FALSE /\ shouldRun = FALSE
      /\ early = FALSE
  BY DEF Init, MqttInit
<1>3. client \in BOOLEAN /\ connected \in BOOLEAN /\ queue \in BOOLEAN /\ shouldRun \in BOOLEAN
      /\ early \in BOOLEAN
  BY <1>2, Zenon
<1>4. /\ outgoing \in Seq(Entries) /\ Len(outgoing) = 0
      /\ telegrams \in Seq(Telegrams) /\ Len(telegrams) = 0
  BY <1>1, EmptySeq
<1>5. budget \in [Outside -> Nat] /\ Nothing \in Entries /\ NoTelegram \in Telegrams
  BY <1>1, MqttAssumption, Losses DEF NoTelegram, Telegrams
<1>6. RestTyped
  BY <1>1, <1>3, <1>5, Losses DEF RestTyped
<1>7. LockOwned /\ RequestsInOrder
  BY <1>1 DEF LockOwned, RequestsInOrder
<1>8. StopsInOrder
  BY <1>1, <1>2 DEF StopsInOrder
<1>9. QueueTyped
  BY <1>1, <1>3, <1>4, <1>5, MqttAssumption DEF QueueTyped
<1>10. BusTyped
  BY <1>1, <1>4, <1>5, TelemetryAssumption DEF BusTyped
<1>11. VersionsInOrder
  <2>1. 1..Len(telegrams) = {} /\ ~Taken
    BY <1>1, <1>4 DEF Taken
  <2>2. Old(0)
    BY <1>1, <2>1 DEF Old
  <2>3. QED
    BY <1>1, <2>1, <2>2 DEF VersionsInOrder
<1>12. UpdatesArrive
  BY <1>1 DEF UpdatesArrive
<1>13. SideTyped
  BY <1>1, <1>3, <1>5 DEF SideTyped
<1>14. QED
  BY <1>6, <1>7, <1>8, <1>9, <1>10, <1>11, <1>12, <1>13, Parted DEF Base, Flow

LEMMA Untouched ==
  ASSUME IInv, UNCHANGED vars
  PROVE  IInv'
<1>1. /\ UNCHANGED <<listed, data, latest, commandsLock, client, connected, queue, outgoing, resend>>
      /\ UNCHANGED <<task, hand, topics, shouldRun, stop, published, retained, leftBehind, missed>>
      /\ UNCHANGED <<early, full, reading, budget, telegrams, seen, monitor, current, http, removing, withdrawing>>
  BY DEF vars, mqttVars, listVars, linkVars, queueVars, taskVars, stopVars, brokerVars, busVars,
         monitorVars, httpVars
<1>2. RestTyped' /\ LockOwned' /\ RequestsInOrder' /\ StopsInOrder'
  BY <1>1, Parted DEF Base, RestTyped, LockOwned, RequestsInOrder, StopsInOrder
<1>3. BusTyped' /\ QueueTyped'
  BY <1>1, Parted DEF Flow, BusTyped, QueueTyped
<1>4. VersionsInOrder'
  BY <1>1, Parted DEF Flow, VersionsInOrder, Old, Taken
<1>5. UpdatesArrive'
  BY <1>1, Parted DEF Flow, UpdatesArrive, Coming, Queued, Taken
<1>6. SideTyped'
  BY <1>1, Parted DEF SideTyped
<1>7. QED
  BY <1>2, <1>3, <1>4, <1>5, <1>6, Parted DEF Base, Flow

(* The tasks keep to their locks, their queues and their order.            *)
THEOREM Invariance == Spec => []IInv
BY InitInv, StepKeeps, Untouched, PTL DEF Spec

---------------------------------------------------------------------------
(* The value of every listed command that is not lost is at the broker, or *)
(* on its way, in any order of the tasks.                                  *)
THEOREM ValuesAreFresh == Spec => []Fresh
<1>1. IInv => Fresh
  <2> SUFFICES ASSUME IInv, stop = "no", NEW key \in listed, key \notin missed,
                      published[key] # latest[key]
               PROVE  Pending(key)
    BY DEF Fresh
  <2>1. Coming(key) \/ Queued(key)
    BY DEF IInv, UpdatesArrive
  <2>2. DOMAIN telegrams = 1..Len(telegrams)
    BY LenProperties DEF IInv, TypeOK
  <2>3. QED
    BY <2>1, <2>2 DEF Coming, Pending
<1>2. QED
  BY <1>1, Invariance, PTL

(* A step publishes a value as it stands, or leaves what was published.    *)
LEMMA PublishedAsItIs ==
  ASSUME IInv, Next, NEW key \in Keys
  PROVE  published'[key] \in {published[key], data[key]}
<1>1. Base /\ Flow /\ RestTyped /\ QueueTyped
  BY Parted DEF Base, Flow
<1>2. CASE (\E k \in Heard : OnTelegram(k)) \/ MonitorStep \/ HttpStep \/ Requests \/ StopServices
  <2>1. published' = published
    BY <1>2 DEF OnTelegram, MonitorStep, TakeTelegram, BeginUpdate, EndUpdate, Updated, Monitoring,
         HttpStep, CommandChanged, Inserted, Withdraw, Removed, Withdrawn, Wiped, Serving, Requests,
         InsertCommand, BeginRemoval, Edit, StopServices, brokerVars
  <2>2. QED
    BY <2>1
<1>3. CASE (MqttStep \/ Events \/ StopStep) /\ UNCHANGED <<busVars, monitorVars, httpVars>>
  BY <1>1, <1>3, TaskHarmless, EventHarmless DEF Harmless
<1>4. QED
  BY <1>2, <1>3 DEF Next

(* The broker's values of a command never go back to an older telegram.    *)
THEOREM ValuesNeverGoBack == Spec => NeverBackwards
<1> DEFINE Forward ==
      \A key \in Keys :
        published[key] # Torn /\ published'[key] \notin {0, Torn} => published'[key] >= published[key]
<1>1. ASSUME IInv, Next PROVE Forward
  <2> SUFFICES ASSUME NEW key \in Keys, published[key] # Torn, published'[key] \notin {0, Torn}
               PROVE  published'[key] >= published[key]
    OBVIOUS
  <2>1. published[key] \in Nat /\ data[key] \in Nat \cup {Torn}
    BY <1>1, Parted DEF Base, RestTyped
  <2>2. data[key] \in {0, Torn} \/ published[key] <= data[key]
    BY <1>1 DEF IInv, VersionsInOrder
  <2>3. published'[key] \in {published[key], data[key]}
    BY <1>1, PublishedAsItIs
  <2>4. QED
    BY <2>1, <2>2, <2>3
<1>2. ASSUME UNCHANGED vars PROVE UNCHANGED published
  BY <1>2 DEF vars, mqttVars, brokerVars
<1>3. IInv /\ [Next]_vars => [Forward]_vars
  BY <1>1
<1>4. QED
  BY <1>3, Invariance, PTL DEF Spec, NeverBackwards

(* Without a client, whatever the tasks still do, nothing is published.    *)
LEMMA NothingWithoutClient ==
  ASSUME Next, ~client
  PROVE  UNCHANGED <<published, retained>>
<1>1. \A sent \in BOOLEAN : Sendable(sent) => ~sent
  BY DEF Sendable
<1>2. \A key : \A sent \in BOOLEAN :
        PublishValue(key, sent) \/ PublishTopic(key, sent) \/ WithdrawTopic(key, sent)
          => UNCHANGED <<published, retained>>
  BY <1>1 DEF PublishValue, PublishTopic, WithdrawTopic
<1>3. CASE (\E k \in Heard : OnTelegram(k)) \/ MonitorStep \/ StopServices
  BY <1>3 DEF OnTelegram, MonitorStep, TakeTelegram, BeginUpdate, EndUpdate, Updated, Monitoring,
              StopServices, brokerVars
<1>4. CASE HttpStep \/ Requests
  BY <1>2, <1>4 DEF HttpStep, CommandChanged, Inserted, Withdraw, Removed, Withdrawn, Wiped, Serving,
                    Requests, InsertCommand, BeginRemoval, Edit
<1>5. CASE MqttStep
  <2>1. CASE PublishDevice
    BY <1>1, <2>1 DEF PublishDevice
  <2>2. CASE PublishFound
    BY <1>2, <2>2 DEF PublishFound, brokerVars
  <2>3. CASE PublishNext \/ PublishComponent
    BY <1>2, <2>3 DEF PublishNext, PublishComponent, brokerVars
  <2>4. CASE MqttStep /\ ~PublishDevice /\ ~PublishFound /\ ~PublishNext /\ ~PublishComponent
    BY <2>4 DEF MqttStep, CreateQueue, Loop, EndTask, PublishState, WaitTimeout, Receive, HandleError,
                FindValue, BeginComponents, EndComponents, BeginComponent, brokerVars
  <2>5. QED
    BY <1>5, <2>1, <2>2, <2>3, <2>4
<1>6. CASE Events \/ StopStep
  <2>1. CASE PublishRead
    BY <1>2, <2>1 DEF PublishRead, brokerVars
  <2>2. CASE (Events \/ StopStep) /\ ~PublishRead
    BY <2>2 DEF Events, StopStep, StartTask, OnConnected, OnDisconnected, Read, MakeRoom, Resend,
                StopSignal, StopWaited, StopClear, StopClient, brokerVars
  <2>3. QED
    BY <1>6, <2>1, <2>2
<1>7. QED
  BY <1>3, <1>4, <1>5, <1>6 DEF Next

(* Nothing is published after the client was stopped.                      *)
THEOREM StoppedIsSilent == Spec => StoppedSilent
<1> DEFINE Silent == stop \in {"services", "done"} => UNCHANGED <<published, retained>>
<1>1. IInv /\ Next => Silent
  BY NothingWithoutClient DEF IInv, StopsInOrder
<1>2. IInv /\ [Next]_vars => [Silent]_vars
  BY <1>1
<1>3. QED
  BY <1>2, Invariance, PTL DEF Spec, StoppedSilent

(* A removal leaves no discovery topic behind unnoticed.                   *)
THEOREM RemovalIsWithdrawn == Spec => RemovalWithdraws
<1> DEFINE Clean == Removed => retained' \cap removing \subseteq leftBehind
<1>1. IInv /\ Next => Clean
  BY DEF Removed, Serving, IInv, RequestsInOrder
<1>2. IInv /\ [Next]_vars => [Clean]_vars
  BY <1>1
<1>3. QED
  BY <1>2, Invariance, PTL DEF Spec, RemovalWithdraws

---------------------------------------------------------------------------
(* The two mutexes.                                                        *)

(* Who holds the commands lock waits for nothing, or for the mutex of the  *)
(* mqtt task, and only where the two cross.                                *)
LEMMA HolderWaits ==
  ASSUME LockOwned, NEW v, Waits(commandsLock, v), commandsLock \in {"monitor", "mqtt", "http"}
  PROVE  Crossing
<1>1. CASE commandsLock = "monitor"
  BY <1>1 DEF Waits, LockOwned
<1>2. CASE commandsLock = "mqtt"
  BY <1>2 DEF Waits, LockOwned
<1>3. CASE commandsLock = "http"
  BY <1>3 DEF Waits, LockOwned, Crossing
<1>4. QED
  BY <1>1, <1>2, <1>3

(* No circle of tasks that wait for each other but the crossing of the two *)
(* mutexes (finding 5).                                                    *)
THEOREM DeadlockIsOne == Spec => []OnlyCrossing
<1>1. ASSUME LockOwned, NEW tasks \in SUBSET {"monitor", "mqtt", "http"}, tasks # {},
             \A t \in tasks : \E u \in tasks : Waits(t, u)
      PROVE  Crossing
  <2>1. \A t, u \in tasks : Waits(t, u) => u = commandsLock \/ Crossing
    BY DEF Waits, Crossing
  <2>2. commandsLock \in tasks \/ Crossing
    BY <1>1, <2>1
  <2>3. CASE commandsLock \in tasks
    BY <1>1, <2>3, HolderWaits
  <2>4. QED
    BY <2>2, <2>3
<1>2. IInv => OnlyCrossing
  BY <1>1 DEF IInv, OnlyCrossing
<1>3. QED
  BY <1>2, Invariance, PTL

(* Once there, the two tasks stay there, whatever else happens.            *)
LEMMA DeadlockKept ==
  ASSUME LockOwned, Deadlocked, Next
  PROVE  Deadlocked'
<1>1. /\ task = "component" /\ hand.key \in Numbers
      /\ http \in {"remove", "wipe"} /\ withdrawing # {} /\ commandsLock = "http"
  BY DEF Deadlocked, Crossing, LockOwned
<1>2. CASE UNCHANGED <<task, hand, http, withdrawing>>
  BY <1>2 DEF Deadlocked, Crossing
<1>3. CASE (\E key \in Heard : OnTelegram(key)) \/ MonitorStep \/ StopServices
  BY <1>2, <1>3 DEF OnTelegram, MonitorStep, TakeTelegram, BeginUpdate, EndUpdate, Updated,
                    Monitoring, StopServices, taskVars, httpVars
<1>4. CASE HttpStep
  BY <1>1, <1>4 DEF HttpStep, CommandChanged, Inserted, Withdraw, Removed, Withdrawn, Wiped, Serving
<1>5. CASE Requests
  BY <1>1, <1>5 DEF Requests, InsertCommand, BeginRemoval, Edit, Serving
<1>6. CASE MqttStep
  <2>1. ~PublishComponent
    BY <1>1, MqttAssumption DEF PublishComponent
  <2>2. QED
    BY <1>1, <1>6, <2>1 DEF MqttStep, CreateQueue, Loop, EndTask, PublishState, WaitTimeout,
         Receive, HandleError, FindValue, PublishFound, PublishDevice, BeginComponents,
         PublishNext, EndComponents, BeginComponent, At, Handle
<1>7. CASE (Events \/ StopStep) /\ UNCHANGED httpVars
  BY <1>1, <1>2, <1>7 DEF Events, StopStep, StartTask, OnConnected, OnDisconnected, Read,
       PublishRead, MakeRoom, Resend, StopSignal, StopWaited, StopClear, StopClient, taskVars, httpVars
<1>8. QED
  BY <1>3, <1>4, <1>5, <1>6, <1>7 DEF Next

(* The deadlock is for ever; the stop of an upgrade, which needs the mutex *)
(* of the mqtt task, never gets past it.                                   *)
THEOREM DeadlockIsForever == Spec => DeadlockStays
<1>1. IInv /\ [Next]_vars => [Deadlocked => Deadlocked']_vars
  BY DeadlockKept DEF IInv
<1>2. QED
  BY <1>1, Invariance, PTL DEF Spec, DeadlockStays
=============================================================================
