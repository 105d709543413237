--------------------------- MODULE CommandsProofs ---------------------------
(***************************************************************************)
(* Proofs about Commands, for any keys, pools, requests and files.         *)
(***************************************************************************)
EXTENDS Commands, SequenceTheorems, FiniteSetTheorems, TLAPS

---------------------------------------------------------------------------
(* Sequences and pools.                                                    *)

LEMMA RemoveAtProperties ==
  ASSUME NEW S, NEW s \in Seq(S), NEW i \in 1..Len(s)
  PROVE  /\ RemoveAt(s, i) \in Seq(S)
         /\ Len(RemoveAt(s, i)) = Len(s) - 1
         /\ \A k \in 1..(Len(s) - 1) :
              RemoveAt(s, i)[k] = IF k < i THEN s[k] ELSE s[k + 1]
<1>1. /\ SubSeq(s, 1, i - 1) \in Seq(S)
      /\ Len(SubSeq(s, 1, i - 1)) = i - 1
      /\ \A k \in 1..(i - 1) : SubSeq(s, 1, i - 1)[k] = s[k]
  BY SubSeqProperties, ElementOfSeq
<1>2. /\ SubSeq(s, i + 1, Len(s)) \in Seq(S)
      /\ Len(SubSeq(s, i + 1, Len(s))) = Len(s) - i
      /\ \A k \in 1..(Len(s) - i) : SubSeq(s, i + 1, Len(s))[k] = s[i + k]
  BY SubSeqProperties, ElementOfSeq
<1> DEFINE s1 == SubSeq(s, 1, i - 1)
           s2 == SubSeq(s, i + 1, Len(s))
<1>3. Len(s) \in Nat /\ RemoveAt(s, i) = s1 \o s2
  BY DEF RemoveAt
<1> HIDE DEF s1, s2
<1>4. /\ s1 \o s2 \in Seq(S)
      /\ Len(s1 \o s2) = Len(s1) + Len(s2)
      /\ \A k \in 1..(Len(s1) + Len(s2)) :
           (s1 \o s2)[k] = IF k <= Len(s1) THEN s1[k] ELSE s2[k - Len(s1)]
  BY <1>1, <1>2, ConcatProperties DEF s1, s2
<1>5. Len(s1) = i - 1 /\ Len(s2) = Len(s) - i
  BY <1>1, <1>2 DEF s1, s2
<1>6. ASSUME NEW k \in 1..(Len(s) - 1)
      PROVE  (s1 \o s2)[k] = IF k < i THEN s[k] ELSE s[k + 1]
  <2>1. CASE k < i
    BY <1>1, <1>3, <1>4, <1>5, <2>1 DEF s1
  <2>2. CASE k >= i
    <3>1. k - (i - 1) \in 1..(Len(s) - i) /\ i + (k - (i - 1)) = k + 1
      BY <1>3, <2>2
    <3>2. s2[k - (i - 1)] = s[k + 1]
      BY <1>2, <3>1 DEF s2
    <3>3. QED
      BY <1>3, <1>4, <1>5, <2>2, <3>2
  <2>3. k \in Int /\ i \in Int
    OBVIOUS
  <2>4. k < i \/ k >= i
    BY <2>3
  <2>5. QED
    BY <2>1, <2>2, <2>4
<1>7. QED
  BY <1>3, <1>4, <1>5, <1>6

(* A write command of a bounded set that the pool is part of finds a place.*)
LEMMA WriteFits ==
  ASSUME NEW W \in SUBSET Writes, writes \subseteq W, Cardinality(W) <= WriteCap,
         NEW w \in W \cup {NoWrite}
  PROVE  WriteTaken(w) = w
<1>1. IsFiniteSet(W) /\ IsFiniteSet(writes)
  BY CommandsAssumption, FS_Subset
<1>2. Cardinality(W) \in Nat /\ Cardinality(writes) \in Nat
  BY <1>1, FS_CardinalityType
<1>3. ASSUME w \in W, w \notin writes PROVE Cardinality(writes) < WriteCap
  <2>1. Cardinality(writes) <= Cardinality(W) /\ Cardinality(writes) # Cardinality(W)
    BY <1>1, <1>3, FS_Subset
  <2>2. QED
    BY <1>2, <2>1, CommandsAssumption
<1>4. QED
  BY <1>3 DEF WriteTaken, HasPlace

(* The same for a limit.                                                   *)
LEMMA LimitFits ==
  ASSUME limits \in [Keys -> Limits \cup {NoLimit}],
         NEW L \in SUBSET Keys, Limited(limits) \subseteq L, Cardinality(L) <= LimitCap,
         NEW key \in Keys, limits[key] = NoLimit,
         NEW limit \in Limits \cup {NoLimit}, limit # NoLimit => key \in L
  PROVE  WithLimit(limits, key, limit) = [limits EXCEPT ![key] = limit]
<1>1. IsFiniteSet(L) /\ IsFiniteSet(Limited(limits))
  BY CommandsAssumption, FS_Subset
<1>2. Cardinality(L) \in Nat /\ Cardinality(Limited(limits)) \in Nat
  BY <1>1, FS_CardinalityType
<1>3. CASE limit = NoLimit
  BY <1>3 DEF WithLimit
<1>4. CASE limit # NoLimit
  <2>1. key \in L /\ key \notin Limited(limits)
    BY <1>4 DEF Limited
  <2>2. /\ Cardinality(Limited(limits)) <= Cardinality(L)
        /\ Cardinality(Limited(limits)) # Cardinality(L)
    BY <1>1, <2>1, FS_Subset
  <2>3. Cardinality(Limited(limits)) < LimitCap
    BY <1>2, <2>2, CommandsAssumption
  <2>4. QED
    BY <1>4, <2>3 DEF WithLimit
<1>5. QED
  BY <1>3, <1>4

(* Setting a limit keeps the pool's type and bound and touches one key,    *)
(* which gets the limit or keeps what it had.                              *)
LEMMA WithLimitFacts ==
  ASSUME NEW pool \in [Keys -> Limits \cup {NoLimit}], NEW key \in Keys,
         NEW limit \in Limits \cup {NoLimit}, Cardinality(Limited(pool)) <= LimitCap
  PROVE  /\ WithLimit(pool, key, limit) \in [Keys -> Limits \cup {NoLimit}]
         /\ Cardinality(Limited(WithLimit(pool, key, limit))) <= LimitCap
         /\ WithLimit(pool, key, limit)[key] \in {limit, pool[key]}
<1> DEFINE new == WithLimit(pool, key, limit)
<1>1. new \in [Keys -> Limits \cup {NoLimit}] /\ new[key] \in {limit, pool[key]}
  BY DEF WithLimit
<1>2. CASE new = pool
  BY <1>1, <1>2
<1>3. CASE new # pool
  <2>1. /\ key \in Limited(pool) \/ Cardinality(Limited(pool)) < LimitCap
        /\ new = [pool EXCEPT ![key] = limit]
        /\ limit # NoLimit
    BY <1>3 DEF WithLimit
  <2>2. Limited(new) = Limited(pool) \cup {key}
    BY <2>1 DEF Limited
  <2>3. IsFiniteSet(Limited(pool))
    BY CommandsAssumption, FS_Subset DEF Limited
  <2>4. Cardinality(Limited(pool)) \in Nat
    BY <2>3, FS_CardinalityType
  <2>5. Cardinality(Limited(new)) = IF key \in Limited(pool) THEN Cardinality(Limited(pool))
                                     ELSE Cardinality(Limited(pool)) + 1
    BY <2>2, <2>3, FS_AddElement
  <2>6. QED
    BY <1>1, <2>1, <2>4, <2>5, CommandsAssumption
<1>4. QED
  BY <1>2, <1>3

(* Dropping a limit.                                                       *)
LEMMA WithoutFacts ==
  ASSUME limits \in [Keys -> Limits \cup {NoLimit}], NEW key \in Keys,
         Cardinality(Limited(limits)) <= LimitCap
  PROVE  /\ Without(key) \in [Keys -> Limits \cup {NoLimit}]
         /\ Cardinality(Limited(Without(key))) <= LimitCap
         /\ Without(key)[key] = NoLimit
         /\ Limited(Without(key)) \subseteq Limited(limits)
<1>1. /\ Without(key) \in [Keys -> Limits \cup {NoLimit}]
      /\ Without(key)[key] = NoLimit
      /\ Limited(Without(key)) \subseteq Limited(limits)
  BY DEF Without, Limited, NoLimit
<1>2. IsFiniteSet(Limited(limits)) /\ IsFiniteSet(Limited(Without(key)))
  BY CommandsAssumption, FS_Subset DEF Limited
<1>3. /\ Cardinality(Limited(Without(key))) <= Cardinality(Limited(limits))
      /\ Cardinality(Limited(Without(key))) \in Nat
      /\ Cardinality(Limited(limits)) \in Nat
  BY <1>1, <1>2, FS_Subset, FS_CardinalityType
<1>4. QED
  BY <1>1, <1>3, CommandsAssumption

LEMMA NothingLimited ==
  /\ Limited([k \in Keys |-> NoLimit]) = {}
  /\ Cardinality(Limited([k \in Keys |-> NoLimit])) <= LimitCap
BY CommandsAssumption, FS_EmptySet DEF Limited

---------------------------------------------------------------------------
(* One row (fromTabular, insertCommand and its callback).                  *)

(* What addPollItem answers, and the item that comes of it.                *)
LEMMA PollFacts ==
  ASSUME TypeOK, NEW row \in Rows, NEW pool \in SUBSET items,
         NEW poll \in PollsFor(row, pool)
  PROVE  /\ poll \in Polls
         /\ RowCommand(row, poll) \in CommandType
         /\ ItemsFor(row, poll) \in SUBSET [id : PollIds, key : Keys]
         /\ poll # NoPoll => ItemsFor(row, poll) = {[id |-> poll, key |-> row.key]}
         /\ poll = NoPoll => ItemsFor(row, poll) = {}
         /\ poll # NoPoll => \A x \in pool : x.id # poll
<1>1. WriteTaken(row.write) \in Writes \cup {NoWrite}
  BY DEF WriteTaken, Rows
<1>2. poll \in Polls /\ (poll # NoPoll => poll \in PollIds /\ \A x \in pool : x.id # poll)
  BY DEF PollsFor, Polls
<1>3. RowCommand(row, poll) \in CommandType
  BY <1>1, <1>2 DEF RowCommand, CommandType, Rows
<1>4. QED
  BY <1>2, <1>3 DEF ItemsFor, Rows

(* Put keeps the types.                                                    *)
LEMMA PutType ==
  ASSUME TypeOK, NEW row \in Rows, NEW base \in [Keys -> Limits \cup {NoLimit}],
         Cardinality(Limited(base)) <= LimitCap, Put(row, base)
  PROVE  /\ commands' \in Seq(CommandType)
         /\ writes' \in SUBSET Writes
         /\ limits' \in [Keys -> Limits \cup {NoLimit}]
         /\ items' \in SUBSET [id : PollIds, key : Keys]
<1>1. writes' \in SUBSET Writes
  BY DEF Put, TypeOK, WriteTaken, Rows
<1>2. limits' \in [Keys -> Limits \cup {NoLimit}]
  BY WithLimitFacts DEF Put, Rows
<1>3. commands' \in Seq(CommandType) /\ items' \in SUBSET [id : PollIds, key : Keys]
  <2>1. ASSUME NEW i \in Listed(row.key), NEW poll \in PollsFor(row, OldItems(i)),
               commands' = [commands EXCEPT ![i] = RowCommand(row, poll)],
               items' = OldItems(i) \cup ItemsFor(row, poll)
        PROVE  commands' \in Seq(CommandType) /\ items' \in SUBSET [id : PollIds, key : Keys]
    <3>1. OldItems(i) \in SUBSET items
      BY DEF OldItems, Released
    <3>2. /\ RowCommand(row, poll) \in CommandType
          /\ ItemsFor(row, poll) \in SUBSET [id : PollIds, key : Keys]
      BY <3>1, PollFacts
    <3>3. commands \in Seq(CommandType) /\ i \in 1..Len(commands)
      BY DEF TypeOK, Listed
    <3>4. QED
      BY <2>1, <3>1, <3>2, <3>3 DEF TypeOK
  <2>2. ASSUME NEW poll \in PollsFor(row, items),
               commands' = Append(commands, RowCommand(row, poll)),
               items' = items \cup ItemsFor(row, poll)
        PROVE  commands' \in Seq(CommandType) /\ items' \in SUBSET [id : PollIds, key : Keys]
    <3>1. /\ RowCommand(row, poll) \in CommandType
          /\ ItemsFor(row, poll) \in SUBSET [id : PollIds, key : Keys]
      BY PollFacts
    <3>2. QED
      BY <2>2, <3>1, AppendProperties DEF TypeOK
  <2>3. ASSUME UNCHANGED <<commands, items>>
        PROVE  commands' \in Seq(CommandType) /\ items' \in SUBSET [id : PollIds, key : Keys]
    BY <2>3 DEF TypeOK
  <2>4. QED
    BY <2>1, <2>2, <2>3 DEF Put
<1>4. QED
  BY <1>1, <1>2, <1>3

(* Put keeps the pools within their bounds and commands in the pools.      *)
LEMMA PutPools ==
  ASSUME TypeOK, PoolsHold, NEW row \in Rows,
         NEW base \in [Keys -> Limits \cup {NoLimit}],
         Cardinality(Limited(base)) <= LimitCap, Put(row, base)
  PROVE  PoolsHold'
<1> DEFINE w == WriteTaken(row.write)
<1>1. writes' = writes \cup ({w} \ {NoWrite}) /\ w \in writes' \cup {NoWrite}
  BY DEF Put
<1>2. Cardinality(writes') <= WriteCap
  <2>1. CASE w \in writes \cup {NoWrite}
    BY <1>1, <2>1 DEF PoolsHold, TypeOK
  <2>2. CASE w \notin writes \cup {NoWrite}
    <3>1. Cardinality(writes) < WriteCap
      BY <2>2 DEF WriteTaken, HasPlace
    <3>2. IsFiniteSet(writes)
      BY CommandsAssumption, FS_Subset DEF TypeOK
    <3>3. writes' = writes \cup {w}
      BY <1>1, <2>2
    <3>4. Cardinality(writes) \in Nat /\ Cardinality(writes') = Cardinality(writes) + 1
      BY <2>2, <3>2, <3>3, FS_AddElement, FS_CardinalityType
    <3>5. QED
      BY <3>1, <3>4, CommandsAssumption
  <2>3. QED
    BY <2>1, <2>2
<1>3. Cardinality(Limited(limits')) <= LimitCap
  BY WithLimitFacts DEF Put, Rows
<1>4. /\ \A j \in 1..Len(commands') : commands'[j].write \in writes' \cup {NoWrite}
      /\ Len(commands') <= Capacity
  <2>1. /\ commands \in Seq(CommandType) /\ Len(commands) \in Nat
        /\ \A j \in 1..Len(commands) : commands[j].write \in writes' \cup {NoWrite}
        /\ Len(commands) <= Capacity
    BY <1>1 DEF PoolsHold, TypeOK
  <2>2. \A poll : RowCommand(row, poll).write = w
    BY DEF RowCommand
  <2>3. ASSUME NEW i \in Listed(row.key), NEW poll,
               commands' = [commands EXCEPT ![i] = RowCommand(row, poll)]
        PROVE  /\ \A j \in 1..Len(commands') : commands'[j].write \in writes' \cup {NoWrite}
               /\ Len(commands') <= Capacity
    <3>1. Len(commands') = Len(commands)
      BY <2>1, <2>3 DEF Listed
    <3>2. \A j \in 1..Len(commands) :
            commands'[j] = IF j = i THEN RowCommand(row, poll) ELSE commands[j]
      BY <2>1, <2>3
    <3>3. QED
      BY <1>1, <2>1, <2>2, <3>1, <3>2
  <2>4. ASSUME NEW poll \in PollsFor(row, items), Len(commands) < Capacity,
               commands' = Append(commands, RowCommand(row, poll))
        PROVE  /\ \A j \in 1..Len(commands') : commands'[j].write \in writes' \cup {NoWrite}
               /\ Len(commands') <= Capacity
    <3>1. RowCommand(row, poll) \in CommandType
      BY PollFacts
    <3>2. /\ Len(commands') = Len(commands) + 1
          /\ \A j \in 1..Len(commands) : commands'[j] = commands[j]
          /\ commands'[Len(commands) + 1] = RowCommand(row, poll)
      BY <2>1, <2>4, <3>1, AppendProperties
    <3>3. QED
      BY <1>1, <2>1, <2>2, <2>4, <3>2, CommandsAssumption
  <2>5. QED
    BY <2>1, <2>3, <2>4 DEF Put
<1>5. QED
  BY <1>2, <1>3, <1>4 DEF PoolsHold

(* Put leaves every command its own item.                                  *)
LEMMA PutOwns ==
  ASSUME TypeOK, CommandsOwnItems, NEW row \in Rows,
         NEW base \in [Keys -> Limits \cup {NoLimit}], Put(row, base)
  PROVE  CommandsOwnItems'
<1>1. /\ commands \in Seq(CommandType) /\ Len(commands) \in Nat
      /\ \A j \in 1..Len(commands) : commands[j] \in CommandType
      /\ \A x \in items : x.id \in PollIds
  BY DEF TypeOK
<1>2. /\ \A poll : /\ RowCommand(row, poll).key = row.key
                   /\ RowCommand(row, poll).poll = poll
      /\ \A poll : [id |-> poll, key |-> row.key].id = poll
      /\ \A j : [id |-> commands[j].poll, key |-> commands[j].key].id = commands[j].poll
      /\ \A j : [id |-> commands[j].poll, key |-> commands[j].key].key = commands[j].key
  BY DEF RowCommand
<1>3. ASSUME NEW i \in Listed(row.key), NEW poll \in PollsFor(row, OldItems(i)),
             commands' = [commands EXCEPT ![i] = RowCommand(row, poll)],
             items' = OldItems(i) \cup ItemsFor(row, poll)
      PROVE  CommandsOwnItems'
  <2>1. i \in 1..Len(commands) /\ commands[i].key = row.key
    BY DEF Listed
  <2>2. OldItems(i) \in SUBSET items /\ \A x \in items : x.id # commands[i].poll => x \in OldItems(i)
    BY DEF OldItems, Released
  <2>3. /\ poll # NoPoll => items' = OldItems(i) \cup {[id |-> poll, key |-> row.key]}
        /\ poll = NoPoll => items' = OldItems(i)
        /\ poll # NoPoll => \A x \in OldItems(i) : x.id # poll
    BY <1>3, <2>2, PollFacts
  <2>4. /\ Len(commands') = Len(commands)
        /\ \A j \in 1..Len(commands) :
             commands'[j] = IF j = i THEN RowCommand(row, poll) ELSE commands[j]
    BY <1>1, <1>3, <2>1
  <2>5. \A j \in 1..Len(commands') : commands'[j].key = commands[j].key
    BY <1>2, <2>1, <2>4
  <2>6. \A j, k \in 1..Len(commands') : commands'[j].key = commands'[k].key => j = k
    BY <2>4, <2>5 DEF CommandsOwnItems
  <2>7. \A x, y \in items' : x.id = y.id => x = y
    BY <1>2, <2>2, <2>3 DEF CommandsOwnItems
  <2>8. ASSUME NEW j \in 1..Len(commands'), commands'[j].poll # NoPoll
        PROVE  [id |-> commands'[j].poll, key |-> commands'[j].key] \in items'
    <3>1. CASE j = i
      BY <1>2, <2>1, <2>3, <2>4, <2>8, <3>1
    <3>2. CASE j # i
      <4>1. j \in 1..Len(commands) /\ commands'[j] = commands[j]
        BY <2>4, <3>2
      <4>2. [id |-> commands[j].poll, key |-> commands[j].key] \in items
        BY <2>8, <4>1 DEF CommandsOwnItems
      <4>3. commands[j].poll # commands[i].poll
        <5>1. SUFFICES ASSUME commands[j].poll = commands[i].poll PROVE FALSE
          OBVIOUS
        <5>2. [id |-> commands[i].poll, key |-> commands[i].key] \in items
          BY <2>1, <2>8, <4>1, <5>1 DEF CommandsOwnItems
        <5>3. commands[j].key = commands[i].key
          BY <1>2, <4>2, <5>1, <5>2 DEF CommandsOwnItems
        <5>4. QED
          BY <2>1, <3>2, <4>1, <5>3 DEF CommandsOwnItems
      <4>4. [id |-> commands[j].poll, key |-> commands[j].key] \in OldItems(i)
        BY <1>2, <2>2, <4>2, <4>3
      <4>5. QED
        BY <1>3, <4>1, <4>4
    <3>3. QED
      BY <3>1, <3>2
  <2>9. QED
    BY <2>6, <2>7, <2>8 DEF CommandsOwnItems
<1>4. ASSUME Listed(row.key) = {}, NEW poll \in PollsFor(row, items),
             commands' = Append(commands, RowCommand(row, poll)),
             items' = items \cup ItemsFor(row, poll)
      PROVE  CommandsOwnItems'
  <2>1. RowCommand(row, poll) \in CommandType
    BY PollFacts
  <2>2. /\ Len(commands') = Len(commands) + 1
        /\ \A j \in 1..Len(commands) : commands'[j] = commands[j]
        /\ commands'[Len(commands) + 1] = RowCommand(row, poll)
    BY <1>1, <1>4, <2>1, AppendProperties
  <2>3. \A j \in 1..Len(commands') : j \in 1..Len(commands) \/ j = Len(commands) + 1
    BY <1>1, <2>2
  <2>4. /\ poll # NoPoll => items' = items \cup {[id |-> poll, key |-> row.key]}
        /\ poll = NoPoll => items' = items
        /\ poll # NoPoll => \A x \in items : x.id # poll
    BY <1>4, PollFacts
  <2>5. \A j \in 1..Len(commands) : commands[j].key # row.key
    BY <1>4 DEF Listed
  <2>6. \A j, k \in 1..Len(commands') : commands'[j].key = commands'[k].key => j = k
    BY <1>2, <2>2, <2>3, <2>5 DEF CommandsOwnItems
  <2>7. \A x, y \in items' : x.id = y.id => x = y
    BY <1>2, <2>4 DEF CommandsOwnItems
  <2>8. ASSUME NEW j \in 1..Len(commands'), commands'[j].poll # NoPoll
        PROVE  [id |-> commands'[j].poll, key |-> commands'[j].key] \in items'
    <3>1. CASE j \in 1..Len(commands)
      BY <2>2, <2>4, <2>8, <3>1 DEF CommandsOwnItems
    <3>2. CASE j = Len(commands) + 1
      BY <1>2, <2>2, <2>4, <2>8, <3>2
    <3>3. QED
      BY <2>3, <3>1, <3>2
  <2>9. QED
    BY <2>6, <2>7, <2>8 DEF CommandsOwnItems
<1>5. ASSUME UNCHANGED <<commands, items>> PROVE CommandsOwnItems'
  BY <1>5 DEF CommandsOwnItems
<1>6. QED
  BY <1>3, <1>4, <1>5 DEF Put

(* Put leaves no item without its command.                                 *)
LEMMA PutOrphans ==
  ASSUME TypeOK, NEW row \in Rows,
         NEW base \in [Keys -> Limits \cup {NoLimit}], Put(row, base)
  PROVE  Orphans' \subseteq Orphans
<1>1. commands \in Seq(CommandType) /\ Len(commands) \in Nat
  BY DEF TypeOK
<1>2. \A poll : /\ RowCommand(row, poll).poll = poll
                /\ [id |-> poll, key |-> row.key].id = poll
  BY DEF RowCommand
<1>3. ASSUME NEW i \in Listed(row.key), NEW poll \in PollsFor(row, OldItems(i)),
             commands' = [commands EXCEPT ![i] = RowCommand(row, poll)],
             items' = OldItems(i) \cup ItemsFor(row, poll)
      PROVE  Orphans' \subseteq Orphans
  <2>1. i \in 1..Len(commands)
    BY DEF Listed
  <2>2. /\ OldItems(i) \in SUBSET items
        /\ \A x \in OldItems(i) : x.id # commands[i].poll
    BY DEF OldItems, Released
  <2>3. \A x \in items' : x \in OldItems(i) \/ x.id = poll
    BY <1>2, <1>3, <2>2, PollFacts
  <2>4. /\ Len(commands') = Len(commands)
        /\ \A j \in 1..Len(commands) :
             commands'[j] = IF j = i THEN RowCommand(row, poll) ELSE commands[j]
    BY <1>1, <1>3, <2>1
  <2>5. commands'[i].poll = poll
    BY <1>2, <2>1, <2>4
  <2>6. QED
    BY <2>1, <2>2, <2>3, <2>4, <2>5 DEF Orphans
<1>4. ASSUME NEW poll \in PollsFor(row, items),
             commands' = Append(commands, RowCommand(row, poll)),
             items' = items \cup ItemsFor(row, poll)
      PROVE  Orphans' \subseteq Orphans
  <2>1. RowCommand(row, poll) \in CommandType
    BY PollFacts
  <2>2. /\ Len(commands') = Len(commands) + 1
        /\ \A j \in 1..Len(commands) : j \in 1..Len(commands') /\ commands'[j] = commands[j]
        /\ commands'[Len(commands) + 1].poll = poll
        /\ Len(commands) + 1 \in 1..Len(commands')
    BY <1>1, <1>2, <1>4, <2>1, AppendProperties
  <2>3. \A x \in items' : x \in items \/ x.id = poll
    BY <1>2, <1>4, PollFacts
  <2>4. QED
    BY <2>2, <2>3 DEF Orphans
<1>5. ASSUME UNCHANGED <<commands, items>> PROVE Orphans' \subseteq Orphans
  BY <1>5 DEF Orphans
<1>6. QED
  BY <1>3, <1>4, <1>5 DEF Put

---------------------------------------------------------------------------
(* The list and the file.                                                  *)

LEMMA MoveHead ==
  ASSUME NEW S, NEW s \in Seq(S), NEW t \in Seq(S), t # <<>>
  PROVE  Append(s, Head(t)) \o Tail(t) = s \o t
<1>1. Head(t) = t[1] /\ Head(t) \in S /\ Tail(t) \in Seq(S) /\ Len(Tail(t)) = Len(t) - 1
  BY HeadTailProperties
<1>2. /\ Append(s, Head(t)) \in Seq(S)
      /\ Len(Append(s, Head(t))) = Len(s) + 1
      /\ \A k \in 1..Len(s) : Append(s, Head(t))[k] = s[k]
      /\ Append(s, Head(t))[Len(s) + 1] = t[1]
  BY <1>1, AppendProperties
<1>3. QED
  BY <1>1, <1>2, HeadTailProperties, ConcatProperties, SeqEqual

LEMMA RowOfFields ==
  ASSUME NEW c
  PROVE  RowOf(c).key = c.key /\ RowOf(c).write = c.write /\ RowOf(c).limit = limits[c.key]
BY DEF RowOf

LEMMA ListFacts ==
  ASSUME TypeOK
  PROVE  /\ List \in Seq(Rows)
         /\ Len(List) = Len(commands)
         /\ \A i \in 1..Len(commands) : List[i] = RowOf(commands[i])
<1>1. /\ commands \in Seq(CommandType) /\ Len(commands) \in Nat
      /\ \A i \in 1..Len(commands) : commands[i] \in CommandType
  BY DEF TypeOK
<1>2. \A i \in 1..Len(commands) : RowOf(commands[i]) \in Rows
  BY <1>1 DEF RowOf, Rows, CommandType, TypeOK
<1>3. QED
  BY <1>1, <1>2 DEF List

(* A save leaves a file that fits.                                         *)
LEMMA SaveFits ==
  ASSUME TypeOK, CommandsOwnItems, PoolsHold, FileFits, SaveFile
  PROVE  file' \in Seq(Rows) /\ FileFits'
<1>1. CASE file' = file
  BY <1>1 DEF TypeOK, FileFits, FileWrites, FileLimited
<1>2. ASSUME NEW n \in 0..Len(commands), file' = SubSeq(List, 1, n)
      PROVE  file' \in Seq(Rows) /\ FileFits'
  <2>1. /\ commands \in Seq(CommandType) /\ Len(commands) \in Nat
        /\ \A i \in 1..Len(commands) : commands[i] \in CommandType
    BY DEF TypeOK
  <2>2. /\ \A i \in 1..Len(commands) : List[i] = RowOf(commands[i]) /\ List[i] \in Rows
        /\ \A i \in 1..n : i \in 1..Len(commands)
    BY <2>1, ListFacts, ElementOfSeq
  <2>3. /\ file' \in Seq(Rows) /\ Len(file') = n
        /\ \A i \in 1..n : file'[i] = List[i]
    BY <1>2, <2>2, SubSeqProperties
  <2>4. \A i \in 1..n : /\ file'[i].key = commands[i].key
                        /\ file'[i].write = commands[i].write
                        /\ file'[i].limit = limits[commands[i].key]
    BY <2>2, <2>3, RowOfFields
  <2>5. \A i, j \in 1..Len(file') : file'[i].key = file'[j].key => i = j
    BY <2>2, <2>3, <2>4 DEF CommandsOwnItems
  <2>6. Cardinality(FileWrites') <= WriteCap
    <3>1. FileWrites' \in SUBSET writes
      BY <2>2, <2>3, <2>4 DEF FileWrites, PoolsHold
    <3>2. IsFiniteSet(writes) /\ IsFiniteSet(FileWrites')
      BY <3>1, CommandsAssumption, FS_Subset DEF TypeOK
    <3>3. /\ Cardinality(FileWrites') <= Cardinality(writes)
          /\ Cardinality(FileWrites') \in Nat /\ Cardinality(writes) \in Nat
      BY <3>1, <3>2, FS_Subset, FS_CardinalityType
    <3>4. QED
      BY <3>3, CommandsAssumption DEF PoolsHold
  <2>7. Cardinality(FileLimited') <= LimitCap
    <3>1. FileLimited' \in SUBSET Limited(limits)
      BY <2>1, <2>2, <2>3, <2>4 DEF FileLimited, Limited, CommandType
    <3>2. IsFiniteSet(Limited(limits)) /\ IsFiniteSet(FileLimited')
      BY <3>1, CommandsAssumption, FS_Subset DEF Limited
    <3>3. /\ Cardinality(FileLimited') <= Cardinality(Limited(limits))
          /\ Cardinality(FileLimited') \in Nat /\ Cardinality(Limited(limits)) \in Nat
      BY <3>1, <3>2, FS_Subset, FS_CardinalityType
    <3>4. QED
      BY <3>3, CommandsAssumption DEF PoolsHold
  <2>8. Len(file') <= Capacity
    BY <2>1, <2>3, CommandsAssumption DEF PoolsHold
  <2>9. QED
    BY <2>3, <2>5, <2>6, <2>7, <2>8 DEF FileFits
<1>3. QED
  BY <1>1, <1>2 DEF SaveFile

(* A row of the file that is loaded while the adapter boots is new, there  *)
(* is room for it in the list and in the pools, and so it is listed as it  *)
(* was saved.                                                              *)
LEMMA BootStep ==
  ASSUME IInv, LoadRow, job = "boot"
  PROVE  BootRestores' /\ BootPools'
<1>a. PICK n : n = Len(commands)
  OBVIOUS
<1>b. PICK row : row = Head(todo)
  OBVIOUS
<1>1. /\ TypeOK /\ PoolsHold /\ FileFits /\ List \o todo = file
      /\ writes \subseteq FileWrites /\ Limited(limits) \subseteq FileLimited
      /\ \A k \in Limited(limits) : Listed(k) # {}
  BY DEF IInv, BootRestores, BootPools
<1>2. /\ todo # <<>> /\ Put(row, Without(row.key)) /\ todo' = Tail(todo)
      /\ file' = file /\ job' = "boot"
  BY <1>b DEF LoadRow
<1>3. /\ commands \in Seq(CommandType) /\ n \in Nat
      /\ \A i \in 1..n : commands[i] \in CommandType
      /\ todo \in Seq(Rows) /\ file \in Seq(Rows)
      /\ limits \in [Keys -> Limits \cup {NoLimit}]
  BY <1>a, <1>1 DEF TypeOK
<1>4. row \in Rows /\ row = todo[1] /\ Len(todo) \in Nat /\ Len(todo) >= 1
  BY <1>b, <1>2, <1>3, HeadTailProperties, EmptySeq
<1>5. /\ List \in Seq(Rows) /\ Len(List) = n
      /\ \A i \in 1..n : List[i] = RowOf(commands[i])
  BY <1>a, <1>1, ListFacts
<1>6. /\ Len(file) = n + Len(todo)
      /\ \A i \in 1..n : i \in 1..Len(file) /\ file[i] = RowOf(commands[i])
      /\ n + 1 \in 1..Len(file) /\ file[n + 1] = row
  <2>1. /\ Len(file) = n + Len(todo)
        /\ \A i \in 1..(n + Len(todo)) : file[i] = IF i <= n THEN List[i] ELSE todo[i - n]
    BY <1>1, <1>3, <1>5, ConcatProperties
  <2>2. QED
    BY <1>3, <1>4, <1>5, <2>1
<1>7. /\ \A i \in 1..Len(file) : file[i] \in Rows
      /\ FileWrites \in SUBSET Writes /\ FileLimited \in SUBSET Keys
  <2>1. \A i \in 1..Len(file) : file[i] \in Rows
    BY <1>3, ElementOfSeq
  <2>2. \A r \in Rows : r.key \in Keys /\ r.write \in Writes \cup {NoWrite}
    BY DEF Rows
  <2>3. QED
    BY <2>1, <2>2 DEF FileWrites, FileLimited
<1>8. \A i \in 1..n : commands[i].key # row.key
  <2>1. \A i \in 1..n : file[i].key = commands[i].key
    BY <1>6, RowOfFields
  <2>2. \A i \in 1..n : n + 1 # i
    BY <1>3
  <2>3. QED
    BY <1>1, <1>6, <2>1, <2>2 DEF FileFits
<1>9. Listed(row.key) = {} /\ n < Capacity
  BY <1>a, <1>1, <1>3, <1>4, <1>6, <1>8, CommandsAssumption DEF Listed, FileFits
<1>10. WriteTaken(row.write) = row.write
  <2>1. row.write \in FileWrites \cup {NoWrite}
    BY <1>6 DEF FileWrites
  <2>2. QED
    BY <1>1, <1>7, <2>1, WriteFits DEF FileFits
<1>11. writes' \subseteq FileWrites
  BY <1>1, <1>2, <1>6, <1>10 DEF Put, FileWrites
<1>12. row.key \in Keys /\ row.limit \in Limits \cup {NoLimit}
  BY <1>4 DEF Rows
<1>13. limits[row.key] = NoLimit
  BY <1>1, <1>9, <1>12 DEF Limited
<1>14. limits' = [limits EXCEPT ![row.key] = row.limit]
  <2>1. Without(row.key) = limits
    BY <1>3, <1>12, <1>13 DEF Without
  <2>2. row.limit # NoLimit => row.key \in FileLimited
    BY <1>6 DEF FileLimited
  <2>3. WithLimit(limits, row.key, row.limit) = [limits EXCEPT ![row.key] = row.limit]
    <3>1. Cardinality(FileLimited) <= LimitCap
      BY <1>1 DEF FileFits
    <3>2. /\ limits \in [Keys -> Limits \cup {NoLimit}] /\ limits[row.key] = NoLimit
          /\ FileLimited \in SUBSET Keys /\ Limited(limits) \subseteq FileLimited
          /\ row.key \in Keys /\ row.limit \in Limits \cup {NoLimit}
      BY <1>1, <1>3, <1>7, <1>12, <1>13
    <3>3. QED
      BY <2>2, <3>1, <3>2, LimitFits
  <2>4. QED
    BY <1>2, <2>1, <2>3 DEF Put
<1>15. PICK poll \in PollsFor(row, items) : commands' = Append(commands, RowCommand(row, poll))
  BY <1>a, <1>2, <1>3, <1>9, CommandsAssumption DEF Put
<1>16. /\ Len(commands') = n + 1
       /\ \A i \in 1..n : commands'[i] = commands[i]
       /\ commands'[n + 1] = RowCommand(row, poll)
  BY <1>a, <1>1, <1>3, <1>4, <1>15, PollFacts, AppendProperties
<1>17. BootPools'
  <2>1. Limited(limits') \subseteq Limited(limits) \cup (IF row.limit # NoLimit THEN {row.key} ELSE {})
    BY <1>3, <1>12, <1>14 DEF Limited
  <2>2. Limited(limits') \subseteq FileLimited
    BY <1>1, <1>6, <2>1 DEF FileLimited
  <2>3. ASSUME NEW k \in Limited(limits') PROVE Listed(k)' # {}
    <3>1. CASE k \in Limited(limits)
      BY <1>a, <1>1, <1>3, <1>16, <3>1 DEF Listed
    <3>2. CASE k = row.key
      <4>1. commands'[n + 1].key = k /\ n + 1 \in 1..Len(commands')
        BY <1>3, <1>16, <3>2 DEF RowCommand
      <4>2. QED
        BY <4>1 DEF Listed
    <3>3. QED
      BY <2>1, <3>1, <3>2
  <2>4. QED
    BY <1>2, <1>11, <2>2, <2>3 DEF BootPools, FileWrites, FileLimited, Limited
<1>18. BootRestores'
  <2>1. \A i \in 1..n : RowOf(commands[i])' = RowOf(commands[i])
    BY <1>3, <1>8, <1>12, <1>14, <1>16 DEF RowOf, CommandType
  <2>2. RowOf(commands[n + 1])' = row
    <3>1. RowOf(commands[n + 1])' =
            [key |-> row.key, active |-> row.active, write |-> row.write, limit |-> row.limit]
      BY <1>3, <1>10, <1>12, <1>14, <1>16 DEF RowOf, RowCommand
    <3>2. QED
      BY <1>4, <3>1 DEF Rows
  <2>3. List' = [i \in 1..(n + 1) |-> RowOf(commands[i])']
    BY <1>16 DEF List
  <2>4. List' \in Seq(Rows) /\ Len(List') = n + 1
    <3>1. \A i \in 1..(n + 1) : RowOf(commands[i])' \in Rows
      BY <1>3, <1>4, <1>5, <2>1, <2>2, ElementOfSeq
    <3>2. QED
      BY <1>3, <2>3, <3>1
  <2>5. \A i \in 1..(n + 1) : List'[i] = Append(List, row)[i]
    <3>1. /\ \A i \in 1..n : Append(List, row)[i] = List[i]
          /\ Append(List, row)[n + 1] = row
      BY <1>4, <1>5, AppendProperties
    <3>2. \A i \in 1..(n + 1) : List'[i] = RowOf(commands[i])'
      BY <2>3
    <3>3. \A i \in 1..(n + 1) : i \in 1..n \/ i = n + 1
      BY <1>3
    <3>4. QED
      BY <1>5, <2>1, <2>2, <3>1, <3>2, <3>3
  <2>6. List' = Append(List, row)
    BY <1>4, <1>5, <2>4, <2>5, AppendProperties, SeqEqual
  <2>7. List' \o todo' = List \o todo
    BY <1>b, <1>2, <1>3, <1>5, <2>6, MoveHead
  <2>8. QED
    BY <1>1, <1>2, <2>7 DEF BootRestores
<1>19. QED
  BY <1>17, <1>18

---------------------------------------------------------------------------
(* The steps.                                                              *)

(* The list, the items and the pools are as they should be.                *)
Held ==
  /\ commands \in Seq(CommandType)
  /\ writes \in SUBSET Writes
  /\ limits \in [Keys -> Limits \cup {NoLimit}]
  /\ items \in SUBSET [id : PollIds, key : Keys]
  /\ CommandsOwnItems
  /\ PoolsHold

LEMMA PutHeld ==
  ASSUME TypeOK, CommandsOwnItems, PoolsHold, NEW row \in Rows,
         NEW base \in [Keys -> Limits \cup {NoLimit}],
         Cardinality(Limited(base)) <= LimitCap, Put(row, base)
  PROVE  Held' /\ Orphans' \subseteq Orphans
BY PutType, PutOwns, PutPools, PutOrphans DEF Held

(* A list without commands.                                                *)
LEMMA EmptyHeld ==
  ASSUME commands' = <<>>, limits' = [k \in Keys |-> NoLimit],
         writes' \in SUBSET Writes, Cardinality(writes') <= WriteCap,
         items' \in SUBSET [id : PollIds, key : Keys],
         \A x, y \in items' : x.id = y.id => x = y
  PROVE  Held'
<1>1. commands' \in Seq(CommandType) /\ Len(commands') = 0 /\ 1..Len(commands') = {}
  BY EmptySeq
<1>2. /\ limits' \in [Keys -> Limits \cup {NoLimit}]
      /\ Cardinality(Limited(limits')) <= LimitCap
  BY NothingLimited
<1>3. CommandsOwnItems'
  BY <1>1 DEF CommandsOwnItems
<1>4. PoolsHold'
  BY <1>1, <1>2, CommandsAssumption DEF PoolsHold
<1>5. QED
  BY <1>1, <1>2, <1>3, <1>4 DEF Held

(* removeCommand releases the item of the command it removes and no other. *)
LEMMA RemoveHeld ==
  ASSUME TypeOK, CommandsOwnItems, PoolsHold, NEW key \in Keys, RemoveCommand(key)
  PROVE  Held' /\ Orphans' \subseteq Orphans
<1>1. PICK i \in Listed(key) : /\ commands' = RemoveAt(commands, i)
                               /\ items' = Released(commands[i].poll)
  BY DEF RemoveCommand
<1>2. limits' = Without(key) /\ writes' = writes
  BY DEF RemoveCommand
<1>3. commands \in Seq(CommandType) /\ Len(commands) \in Nat /\ i \in 1..Len(commands)
  BY DEF TypeOK, Listed
<1>4. /\ commands' \in Seq(CommandType)
      /\ Len(commands') = Len(commands) - 1
      /\ \A k \in 1..Len(commands') :
           commands'[k] = IF k < i THEN commands[k] ELSE commands[k + 1]
  BY <1>1, <1>3, RemoveAtProperties
<1> DEFINE old(k) == IF k < i THEN k ELSE k + 1
<1>5. /\ \A k \in 1..Len(commands') : /\ old(k) \in 1..Len(commands) /\ old(k) # i
                                        /\ commands'[k] = commands[old(k)]
      /\ \A j, k \in 1..Len(commands') : old(j) = old(k) => j = k
      /\ \A j \in 1..Len(commands) : j # i =>
           \E k \in 1..Len(commands') : commands'[k] = commands[j]
  <2>1. ASSUME NEW j \in 1..Len(commands), j # i
        PROVE  \E k \in 1..Len(commands') : commands'[k] = commands[j]
    <3>1. CASE j < i
      <4>1. j \in 1..Len(commands')
        BY <1>3, <1>4, <3>1
      <4>2. QED
        BY <1>4, <3>1, <4>1
    <3>2. CASE j > i
      <4>1. j - 1 \in 1..Len(commands') /\ ~(j - 1 < i) /\ (j - 1) + 1 = j
        BY <1>3, <1>4, <3>2
      <4>2. QED
        BY <1>4, <4>1
    <3>3. QED
      BY <1>3, <2>1, <3>1, <3>2
  <2>2. QED
    BY <1>3, <1>4, <2>1
<1> HIDE DEF old
<1>6. /\ items' \in SUBSET items
      /\ \A x \in items : x \in items' <=> x.id # commands[i].poll
  BY <1>1 DEF Released
<1>7. CommandsOwnItems'
  <2>1. ASSUME NEW j \in 1..Len(commands'), NEW k \in 1..Len(commands'),
               commands'[j].key = commands'[k].key
        PROVE  j = k
    <3>1. commands[old(j)].key = commands[old(k)].key
      BY <1>5, <2>1
    <3>2. old(j) \in 1..Len(commands) /\ old(k) \in 1..Len(commands)
      BY <1>5
    <3>3. old(j) = old(k)
      BY <3>1, <3>2 DEF CommandsOwnItems
    <3>4. QED
      BY <1>5, <3>3
  <2>2. \A x, y \in items' : x.id = y.id => x = y
    BY <1>6 DEF CommandsOwnItems
  <2>3. ASSUME NEW k \in 1..Len(commands'), commands'[k].poll # NoPoll
        PROVE  [id |-> commands'[k].poll, key |-> commands'[k].key] \in items'
    <3>1. PICK j \in 1..Len(commands) : j # i /\ commands'[k] = commands[j]
      BY <1>5
    <3>2. [id |-> commands[j].poll, key |-> commands[j].key] \in items
      BY <2>3, <3>1 DEF CommandsOwnItems
    <3>3. commands[j].poll # commands[i].poll
      <4>1. SUFFICES ASSUME commands[j].poll = commands[i].poll PROVE FALSE
        OBVIOUS
      <4>2. [id |-> commands[i].poll, key |-> commands[i].key] \in items
        BY <1>3, <2>3, <3>1, <4>1 DEF CommandsOwnItems
      <4>3. commands[j].key = commands[i].key
        BY <3>2, <4>1, <4>2 DEF CommandsOwnItems
      <4>4. QED
        BY <1>3, <3>1, <4>3 DEF CommandsOwnItems
    <3>4. [id |-> commands[j].poll, key |-> commands[j].key].id = commands[j].poll
      OBVIOUS
    <3>5. QED
      BY <1>6, <3>1, <3>2, <3>3, <3>4
  <2>4. QED
    BY <2>1, <2>2, <2>3 DEF CommandsOwnItems
<1>8. PoolsHold'
  <2>1. Cardinality(Limited(limits')) <= LimitCap
    BY <1>2, WithoutFacts DEF TypeOK, PoolsHold
  <2>2. QED
    BY <1>2, <1>3, <1>4, <1>5, <2>1, CommandsAssumption DEF PoolsHold
<1>9. limits' \in [Keys -> Limits \cup {NoLimit}]
  BY <1>2, WithoutFacts DEF TypeOK, PoolsHold
<1>10. Orphans' \subseteq Orphans
  BY <1>5, <1>6 DEF Orphans
<1>11. QED
  BY <1>2, <1>4, <1>6, <1>7, <1>8, <1>9, <1>10 DEF Held, TypeOK

(* What becomes of the list, the items and the pools in a step.            *)
LEMMA StepHeld ==
  ASSUME IInv, Next
  PROVE  Held' /\ (Wipe \/ Orphans' \subseteq Orphans)
<1>1. TypeOK /\ CommandsOwnItems /\ PoolsHold
  BY DEF IInv
<1>2. /\ limits \in [Keys -> Limits \cup {NoLimit}]
      /\ Cardinality(Limited(limits)) <= LimitCap
      /\ writes \in SUBSET Writes /\ Cardinality(writes) <= WriteCap
      /\ items \in SUBSET [id : PollIds, key : Keys]
      /\ \A x, y \in items : x.id = y.id => x = y
  BY <1>1 DEF TypeOK, PoolsHold, CommandsOwnItems
<1>3. ASSUME UNCHANGED <<commands, writes, limits, items>>
      PROVE  Held' /\ Orphans' \subseteq Orphans
  BY <1>1, <1>3 DEF Held, Orphans, TypeOK, CommandsOwnItems, PoolsHold, Limited
<1>4. ASSUME NEW row \in Requests, Insert(row) PROVE Held' /\ Orphans' \subseteq Orphans
  BY <1>1, <1>2, <1>4, PutHeld, CommandsAssumption DEF Insert
<1>5. ASSUME NEW key \in Keys, RemoveCommand(key) PROVE Held' /\ Orphans' \subseteq Orphans
  BY <1>1, <1>5, RemoveHeld
<1>6. CASE RemoveAll
  <2>1. Held'
    BY <1>2, <1>6, EmptyHeld DEF RemoveAll
  <2>2. Orphans' \subseteq Orphans
    BY <1>6 DEF RemoveAll, Orphans
  <2>3. QED
    BY <2>1, <2>2
<1>7. CASE Wipe
  BY <1>2, <1>7, EmptyHeld DEF Wipe
<1>8. CASE LoadRow
  <2>1. Head(todo) \in Rows
    BY <1>1, <1>8, HeadTailProperties DEF LoadRow, TypeOK
  <2>2. Head(todo).key \in Keys
    BY <2>1 DEF Rows
  <2>3. /\ Without(Head(todo).key) \in [Keys -> Limits \cup {NoLimit}]
        /\ Cardinality(Limited(Without(Head(todo).key))) <= LimitCap
    BY <1>2, <2>2, WithoutFacts
  <2>4. QED
    BY <1>1, <1>8, <2>1, <2>3, PutHeld DEF LoadRow
<1>9. CASE Restart
  <2>1. Cardinality({}) = 0 /\ 0 <= WriteCap
    BY FS_EmptySet, CommandsAssumption
  <2>2. Held'
    BY <1>9, <2>1, EmptyHeld DEF Restart
  <2>3. QED
    BY <1>9, <2>2 DEF Restart, Orphans
<1>10. QED
  BY <1>3, <1>4, <1>5, <1>6, <1>7, <1>8, <1>9 DEF Next, Save, Load, Upload, LoadDone

(* What becomes of the file and the task.                                  *)
LEMMA StepFile ==
  ASSUME IInv, Next
  PROVE  /\ file' \in Seq(Rows) /\ FileFits'
         /\ job' \in {"boot", "idle", "load", "upload"}
         /\ todo' \in Seq(Rows)
         /\ IdleIsDone'
<1>1. /\ TypeOK /\ CommandsOwnItems /\ PoolsHold /\ FileFits /\ IdleIsDone
      /\ file \in Seq(Rows) /\ todo \in Seq(Rows)
      /\ job \in {"boot", "idle", "load", "upload"}
  BY DEF IInv, TypeOK
<1>2. file' = file => file' \in Seq(Rows) /\ FileFits'
  BY <1>1 DEF FileFits, FileWrites, FileLimited
<1>3. CASE UNCHANGED <<file, job, todo>>
  BY <1>1, <1>2, <1>3 DEF IdleIsDone
<1>4. CASE Wipe
  <2>1. (FileFits' /\ file' \in Seq(Rows)) \/ file' = <<>>
    BY <1>2, <1>4 DEF Wipe
  <2>2. ASSUME file' = <<>> PROVE FileFits' /\ file' \in Seq(Rows)
    <3>1. Len(file') = 0 /\ 1..Len(file') = {}
      BY <2>2
    <3>2. FileWrites' = {} /\ FileLimited' = {}
      BY <3>1 DEF FileWrites, FileLimited
    <3>3. QED
      BY <2>2, <3>1, <3>2, FS_EmptySet, CommandsAssumption DEF FileFits
  <2>3. QED
    BY <1>1, <1>4, <2>1, <2>2 DEF Wipe, IdleIsDone
<1>5. CASE Save
  BY <1>1, <1>5, SaveFits DEF Save, IdleIsDone
<1>6. CASE Load
  BY <1>1, <1>2, <1>6 DEF Load, IdleIsDone
<1>7. ASSUME NEW rows \in Uploads, Upload(rows)
      PROVE  /\ file' \in Seq(Rows) /\ FileFits'
             /\ job' = "upload" /\ todo' \in Seq(Rows)
  <2>1. rows \in Seq(Rows)
    <3>1. PICK n \in 1..MaxUpload : rows \in [1..n -> Requests]
      BY DEF Uploads
    <3>2. QED
      BY <3>1, CommandsAssumption
  <2>2. QED
    BY <1>2, <1>7, <2>1 DEF Upload
<1>8. CASE LoadRow
  <2>1. Tail(todo) \in Seq(Rows) /\ job # "idle"
    BY <1>1, <1>8, HeadTailProperties DEF LoadRow, IdleIsDone
  <2>2. QED
    BY <1>1, <1>2, <1>8, <2>1 DEF LoadRow, IdleIsDone
<1>9. CASE LoadDone
  BY <1>1, <1>2, <1>9, SaveFits DEF LoadDone, IdleIsDone
<1>10. CASE Restart
  BY <1>1, <1>2, <1>10 DEF Restart, IdleIsDone
<1>11. QED
  BY <1>3, <1>4, <1>5, <1>6, <1>7, <1>8, <1>9, <1>10
     DEF Next, Insert, RemoveCommand, RemoveAll, IdleIsDone

(* What becomes of the list while the adapter boots.                       *)
LEMMA StepBoot ==
  ASSUME IInv, Next
  PROVE  BootRestores' /\ BootPools'
<1>1. ASSUME job' # "boot" PROVE BootRestores' /\ BootPools'
  BY <1>1 DEF BootRestores, BootPools
<1>2. CASE LoadRow
  <2>1. job' = job
    BY <1>2 DEF LoadRow
  <2>2. QED
    BY <1>1, <1>2, <2>1, BootStep
<1>3. CASE Restart
  <2>1. /\ commands' = <<>> /\ todo' = file /\ file' = file /\ file \in Seq(Rows)
        /\ writes' = {} /\ limits' = [k \in Keys |-> NoLimit]
    BY <1>3 DEF Restart, IInv, TypeOK
  <2>2. List' = <<>>
    <3>1. Len(commands') = 0 /\ 1..Len(commands') = {}
      BY <2>1
    <3>2. List' = [i \in {} |-> RowOf(commands[i])']
      BY <3>1 DEF List
    <3>3. QED
      BY <3>2
  <2>3. BootRestores'
    BY <2>1, <2>2, ConcatEmptySeq DEF BootRestores
  <2>4. Limited(limits') = {}
    BY <2>1, NothingLimited
  <2>5. BootPools'
    BY <2>1, <2>4 DEF BootPools
  <2>6. QED
    BY <2>3, <2>5
<1>4. QED
  BY <1>1, <1>2, <1>3
     DEF Next, Insert, RemoveCommand, RemoveAll, Wipe, Save, Load, Upload, LoadDone

LEMMA InitInv ==
  ASSUME Init
  PROVE  IInv
<1>1. /\ commands = <<>> /\ writes = {} /\ limits = [k \in Keys |-> NoLimit]
      /\ items = {} /\ file = <<>> /\ job = "boot" /\ todo = <<>>
  BY DEF Init
<1>2. /\ Len(commands) = 0 /\ 1..Len(commands) = {}
      /\ Len(file) = 0 /\ 1..Len(file) = {}
      /\ Cardinality({}) = 0
  BY <1>1, FS_EmptySet
<1>3. TypeOK
  BY <1>1 DEF TypeOK
<1>4. CommandsOwnItems
  BY <1>1, <1>2 DEF CommandsOwnItems
<1>5. PoolsHold
  BY <1>1, <1>2, NothingLimited, CommandsAssumption DEF PoolsHold
<1>6. FileWrites = {} /\ FileLimited = {}
  BY <1>2 DEF FileWrites, FileLimited
<1>7. FileFits
  BY <1>2, <1>6, CommandsAssumption DEF FileFits
<1>8. BootRestores
  <2>1. List = [i \in {} |-> RowOf(commands[i])]
    BY <1>2 DEF List
  <2>2. List = <<>>
    BY <2>1
  <2>3. QED
    BY <1>1, <2>2, ConcatEmptySeq DEF BootRestores
<1>9. BootPools
  BY <1>1, NothingLimited DEF BootPools
<1>10. IdleIsDone
  BY <1>1 DEF IdleIsDone
<1>11. QED
  BY <1>3, <1>4, <1>5, <1>7, <1>8, <1>9, <1>10 DEF IInv

---------------------------------------------------------------------------
(* Theorems                                                                *)

(* IInv is an invariant: whatever clients send, save, load and upload, and *)
(* whenever the power fails.                                               *)
THEOREM Invariance == Spec => []IInv
<1>1. Init => IInv
  BY InitInv
<1>2. IInv /\ [Next]_vars => IInv'
  <2>1. ASSUME IInv, Next PROVE IInv'
    <3>1. Held' /\ BootRestores' /\ BootPools'
      BY <2>1, StepHeld, StepBoot
    <3>2. /\ file' \in Seq(Rows) /\ FileFits'
          /\ job' \in {"boot", "idle", "load", "upload"}
          /\ todo' \in Seq(Rows)
          /\ IdleIsDone'
      BY <2>1, StepFile
    <3>3. TypeOK'
      BY <3>1, <3>2 DEF Held, TypeOK
    <3>4. QED
      BY <3>1, <3>2, <3>3 DEF Held, IInv
  <2>2. ASSUME IInv, UNCHANGED vars PROVE IInv'
    <3>1. TypeOK' /\ CommandsOwnItems' /\ PoolsHold' /\ IdleIsDone'
      BY <2>2 DEF vars, IInv, TypeOK, CommandsOwnItems, PoolsHold, IdleIsDone, Limited
    <3>2. FileWrites' = FileWrites /\ FileLimited' = FileLimited
      BY <2>2 DEF vars, FileWrites, FileLimited
    <3>3. FileFits'
      BY <2>2, <3>2 DEF vars, IInv, FileFits
    <3>4. BootRestores'
      BY <2>2 DEF vars, IInv, BootRestores, List, RowOf
    <3>5. BootPools'
      BY <2>2, <3>2 DEF vars, IInv, BootPools, Listed, Limited
    <3>6. QED
      BY <3>1, <3>3, <3>4, <3>5 DEF IInv
  <2>3. QED
    BY <2>1, <2>2
<1>3. QED
  BY <1>1, <1>2, PTL DEF Spec

(* A command's poll identifier is that of an item of its own.              *)
THEOREM ItemsAreOwned == Spec => []CommandsOwnItems
<1>1. IInv => CommandsOwnItems
  BY DEF IInv
<1>2. QED
  BY <1>1, Invariance, PTL

(* What was saved is what is listed after a restart.                       *)
THEOREM SavedIsRestored == Spec => []BootRestores
<1>1. IInv => BootRestores
  BY DEF IInv
<1>2. QED
  BY <1>1, Invariance, PTL

(* Only wipeCommands leaves items that are polled for nobody.              *)
THEOREM OthersKeepSync == Spec => OnlyWipeOrphans
<1>1. IInv /\ [Next]_vars => [Wipe \/ Orphans' \subseteq Orphans]_vars
  BY StepHeld
<1>2. QED
  BY <1>1, Invariance, PTL DEF Spec, OnlyWipeOrphans

(* The list and the poll items are in sync as long as nobody wipes the     *)
(* commands: wipeCommands alone breaks what the comment promises.          *)
THEOREM WithoutWipeInSync == Spec /\ [][~Wipe]_vars => []InSync
<1>1. Init => InSync
  BY DEF Init, InSync, Orphans
<1>2. InSync /\ [Wipe \/ Orphans' \subseteq Orphans]_vars /\ [~Wipe]_vars => InSync'
  <2>1. UNCHANGED vars => Orphans' = Orphans
    BY DEF vars, Orphans
  <2>2. QED
    BY <2>1 DEF InSync
<1>3. QED
  BY <1>1, <1>2, OthersKeepSync, PTL DEF Spec, OnlyWipeOrphans

(* A loaded row does not inherit the limit of an earlier command.          *)
THEOREM LimitsAreLoaded == Spec => LoadedLimits
<1>1. ASSUME IInv, LoadRow
      PROVE  limits'[Head(todo).key] \in {Head(todo).limit, NoLimit}
  <2>1. TypeOK /\ PoolsHold
    BY <1>1 DEF IInv
  <2>2. Head(todo) \in Rows
    BY <1>1, <2>1, HeadTailProperties DEF LoadRow, TypeOK
  <2>3. Head(todo).key \in Keys /\ Head(todo).limit \in Limits \cup {NoLimit}
    BY <2>2 DEF Rows
  <2>4. /\ Without(Head(todo).key) \in [Keys -> Limits \cup {NoLimit}]
        /\ Cardinality(Limited(Without(Head(todo).key))) <= LimitCap
        /\ Without(Head(todo).key)[Head(todo).key] = NoLimit
    BY <2>1, <2>3, WithoutFacts DEF TypeOK, PoolsHold
  <2>5. limits' = WithLimit(Without(Head(todo).key), Head(todo).key, Head(todo).limit)
    BY <1>1 DEF LoadRow, Put
  <2>6. QED
    BY <2>3, <2>4, <2>5, WithLimitFacts
<1>2. IInv /\ [Next]_vars
      => [LoadRow => limits'[Head(todo).key] \in {Head(todo).limit, NoLimit}]_vars
  BY <1>1
<1>3. QED
  BY <1>2, Invariance, PTL DEF Spec, LoadedLimits

---------------------------------------------------------------------------
(* The list as it is seen from outside (SavedList).                        *)

(* The rows after a step.                                                  *)
LEMMA NextList ==
  ASSUME commands' \in Seq(CommandType), limits' \in [Keys -> Limits \cup {NoLimit}]
  PROVE  /\ List' \in Seq(Rows)
         /\ Len(List') = Len(commands')
         /\ \A i \in 1..Len(commands') :
              List'[i] = [key |-> commands'[i].key, active |-> commands'[i].active,
                          write |-> commands'[i].write,
                          limit |-> limits'[commands'[i].key]]
         /\ \A i \in 1..Len(commands') : List'[i].key = commands'[i].key
<1>1. Len(commands') \in Nat /\ \A i \in 1..Len(commands') : commands'[i] \in CommandType
  OBVIOUS
<1> DEFINE e(i) == [key |-> commands'[i].key, active |-> commands'[i].active,
                    write |-> commands'[i].write, limit |-> limits'[commands'[i].key]]
<1>2. \A i \in 1..Len(commands') : e(i) \in Rows
  BY <1>1 DEF Rows, CommandType
<1>3. List' = [i \in 1..Len(commands') |-> e(i)]
  BY DEF List, RowOf
<1> HIDE DEF e
<1>4. List' \in Seq(Rows) /\ Len(List') = Len(commands')
  BY <1>1, <1>2, <1>3
<1>5. \A i \in 1..Len(commands') : List'[i] = e(i)
  BY <1>3
<1>6. \A i \in 1..Len(commands') : e(i).key = commands'[i].key
  BY DEF e
<1>7. \A i \in 1..Len(commands') : List'[i].key = commands'[i].key
  BY <1>5, <1>6
<1>8. QED
  BY <1>4, <1>5, <1>7 DEF e

(* A row that is put adds one row with a new key, replaces the row of its  *)
(* key, or changes nothing.                                                *)
LEMMA PutList ==
  ASSUME TypeOK, CommandsOwnItems, PoolsHold, NEW row \in Rows,
         NEW base \in [Keys -> Limits \cup {NoLimit}],
         Cardinality(Limited(base)) <= LimitCap, Put(row, base),
         \A k \in Keys : k # row.key => base[k] = limits[k]
  PROVE  \/ List' = List
         \/ \E r \in Rows :
              \/ /\ Len(List) < Capacity
                 /\ \A j \in 1..Len(List) : List[j].key # r.key
                 /\ List' = Append(List, r)
              \/ \E i \in 1..Len(List) : /\ List[i].key = r.key
                                          /\ List' = [List EXCEPT ![i] = r]
<1>1. /\ commands \in Seq(CommandType) /\ Len(commands) \in Nat
      /\ \A j \in 1..Len(commands) : commands[j].key \in Keys
      /\ limits \in [Keys -> Limits \cup {NoLimit}]
  <2>1. /\ commands \in Seq(CommandType) /\ Len(commands) \in Nat
        /\ limits \in [Keys -> Limits \cup {NoLimit}]
    BY DEF TypeOK
  <2>2. \A c \in CommandType : c.key \in Keys
    BY DEF CommandType
  <2>3. QED
    BY <2>1, <2>2, ElementOfSeq
<1>2. /\ List \in Seq(Rows) /\ Len(List) = Len(commands)
      /\ \A j \in 1..Len(commands) :
           /\ List[j] = [key |-> commands[j].key, active |-> commands[j].active,
                         write |-> commands[j].write, limit |-> limits[commands[j].key]]
           /\ List[j].key = commands[j].key
  BY ListFacts DEF RowOf
<1>3. /\ commands' \in Seq(CommandType)
      /\ limits' \in [Keys -> Limits \cup {NoLimit}]
  BY PutType
<1>4. /\ List' \in Seq(Rows) /\ Len(List') = Len(commands')
      /\ \A j \in 1..Len(commands') :
           List'[j] = [key |-> commands'[j].key, active |-> commands'[j].active,
                       write |-> commands'[j].write, limit |-> limits'[commands'[j].key]]
      /\ \A j \in 1..Len(commands') : List'[j].key = commands'[j].key
  BY <1>3, NextList
<1>5. row.key \in Keys /\ \A k \in Keys : k # row.key => limits'[k] = limits[k]
  <2>1. row.key \in Keys /\ limits' = WithLimit(base, row.key, row.limit)
    BY DEF Put, Rows
  <2>2. QED
    BY <2>1 DEF WithLimit
(* A command that stays, of another key, is listed as it was.              *)
<1>6. ASSUME NEW j \in 1..Len(commands), j \in 1..Len(commands'),
             commands'[j] = commands[j], commands[j].key # row.key
      PROVE  List'[j] = List[j]
  <2>1. limits'[commands[j].key] = limits[commands[j].key]
    BY <1>1, <1>5, <1>6
  <2>2. List'[j] = [key |-> commands[j].key, active |-> commands[j].active,
                    write |-> commands[j].write, limit |-> limits[commands[j].key]]
    BY <1>4, <1>6, <2>1
  <2>3. List[j] = [key |-> commands[j].key, active |-> commands[j].active,
                   write |-> commands[j].write, limit |-> limits[commands[j].key]]
    BY <1>2
  <2>4. QED
    BY <2>2, <2>3
<1>7. ASSUME NEW i \in Listed(row.key), NEW poll,
             commands' = [commands EXCEPT ![i] = RowCommand(row, poll)]
      PROVE  \E r \in Rows : \E n \in 1..Len(List) : /\ List[n].key = r.key
                                                    /\ List' = [List EXCEPT ![n] = r]
  <2>1. i \in 1..Len(commands) /\ commands[i].key = row.key
    BY DEF Listed
  <2>2. /\ Len(commands') = Len(commands)
        /\ \A j \in 1..Len(commands) :
             commands'[j] = IF j = i THEN RowCommand(row, poll) ELSE commands[j]
    BY <1>1, <1>7, <2>1
  <2>3. \A j \in 1..Len(commands) : j # i => List'[j] = List[j]
    <3>1. \A j \in 1..Len(commands) : j # i => commands[j].key # row.key
      BY <2>1 DEF CommandsOwnItems
    <3>2. QED
      BY <1>6, <2>2, <3>1
  <2>4. List'[i] \in Rows
    BY <1>4, <2>1, <2>2, ElementOfSeq
  <2>5. List'[i].key = row.key
    <3>1. List'[i].key = commands'[i].key /\ commands'[i] = RowCommand(row, poll)
      BY <1>4, <2>1, <2>2
    <3>2. QED
      BY <3>1 DEF RowCommand
  <2> DEFINE new == List'[i]
             edited == [List EXCEPT ![i] = new]
  <2>6. /\ edited \in Seq(Rows) /\ Len(edited) = Len(List)
        /\ \A j \in 1..Len(List) : edited[j] = IF j = i THEN new ELSE List[j]
    BY <1>2, <2>1, <2>4, ExceptSeq
  <2> HIDE DEF edited, new
  <2>7. List' = edited
    <3>1. Len(List') = Len(List) /\ Len(List') = Len(commands) /\ Len(List') = Len(edited)
      BY <1>2, <1>4, <2>2, <2>6
    <3>2. \A j \in 1..Len(List') : List'[j] = edited[j]
      BY <2>3, <2>6, <3>1 DEF new
    <3>3. List' \in Seq(Rows) /\ edited \in Seq(Rows)
      BY <1>4, <2>6
    <3>4. QED
      BY <3>1, <3>2, <3>3, SeqEqual
  <2>8. i \in 1..Len(List) /\ List[i].key = List'[i].key
    BY <1>2, <2>1, <2>5
  <2>9. new \in Rows /\ List[i].key = new.key /\ List' = [List EXCEPT ![i] = new]
    BY <2>4, <2>7, <2>8 DEF new, edited
  <2>10. QED
    BY <2>8, <2>9
<1>8. ASSUME Listed(row.key) = {}, Len(commands) < Capacity, NEW poll \in PollsFor(row, items),
             commands' = Append(commands, RowCommand(row, poll))
      PROVE  \E r \in Rows : /\ Len(List) < Capacity
                             /\ \A j \in 1..Len(List) : List[j].key # r.key
                             /\ List' = Append(List, r)
  <2>1. \A j \in 1..Len(commands) : commands[j].key # row.key
    BY <1>8 DEF Listed
  <2>2. /\ Len(commands') = Len(commands) + 1
        /\ \A j \in 1..Len(commands) : commands'[j] = commands[j]
        /\ commands'[Len(commands) + 1] = RowCommand(row, poll)
    BY <1>1, <1>8, PollFacts, AppendProperties
  <2> DEFINE last == List'[Len(commands) + 1]
  <2>3. last \in Rows /\ last.key = row.key
    <3>1. Len(commands) + 1 \in 1..Len(commands')
      BY <1>1, <2>2
    <3>2. last \in Rows
      BY <1>4, <3>1, ElementOfSeq
    <3>3. QED
      BY <1>4, <2>2, <3>1, <3>2 DEF RowCommand
  <2>4. \A j \in 1..Len(commands) : List'[j] = List[j]
    <3>1. \A j \in 1..Len(commands) : j \in 1..Len(commands')
      BY <1>1, <2>2
    <3>2. QED
      BY <1>6, <2>1, <2>2, <3>1
  <2> HIDE DEF last
  <2>5. /\ Append(List, last) \in Seq(Rows)
        /\ Len(Append(List, last)) = Len(List) + 1
        /\ \A j \in 1..Len(List) : Append(List, last)[j] = List[j]
        /\ Append(List, last)[Len(List) + 1] = last
    BY <1>2, <2>3, AppendProperties
  <2>6. \A j \in 1..Len(List') : List'[j] = Append(List, last)[j]
    <3>1. \A j \in 1..Len(List') : j \in 1..Len(commands) \/ j = Len(commands) + 1
      BY <1>1, <1>4, <2>2
    <3>2. QED
      BY <1>2, <2>4, <2>5, <3>1 DEF last
  <2>7. List' = Append(List, last)
    BY <1>2, <1>4, <2>2, <2>5, <2>6, SeqEqual
  <2>8. QED
    BY <1>2, <1>8, <2>1, <2>3, <2>7
<1>9. ASSUME Listed(row.key) = {}, UNCHANGED commands
      PROVE  List' = List
  <2>1. \A j \in 1..Len(commands) : commands[j].key # row.key
    BY <1>9 DEF Listed
  <2>2. \A j \in 1..Len(List) : List'[j] = List[j]
    BY <1>2, <1>6, <1>9, <2>1
  <2>3. QED
    BY <1>2, <1>4, <1>9, <2>2, SeqEqual
<1>10. QED
  BY <1>7, <1>8, <1>9 DEF Put

(* removeCommand takes one row away and leaves the others as they were.    *)
LEMMA RemoveList ==
  ASSUME TypeOK, CommandsOwnItems, PoolsHold, NEW key \in Keys, RemoveCommand(key)
  PROVE  \E i \in 1..Len(List) : List' = RemoveAt(List, i)
<1>1. PICK i \in Listed(key) : commands' = RemoveAt(commands, i)
  BY DEF RemoveCommand
<1>2. /\ commands \in Seq(CommandType) /\ Len(commands) \in Nat
      /\ \A j \in 1..Len(commands) : commands[j].key \in Keys
      /\ limits \in [Keys -> Limits \cup {NoLimit}]
      /\ i \in 1..Len(commands) /\ commands[i].key = key
  <2>1. /\ commands \in Seq(CommandType) /\ Len(commands) \in Nat
        /\ limits \in [Keys -> Limits \cup {NoLimit}]
        /\ i \in 1..Len(commands) /\ commands[i].key = key
    BY DEF TypeOK, Listed
  <2>2. \A c \in CommandType : c.key \in Keys
    BY DEF CommandType
  <2>3. QED
    BY <2>1, <2>2, ElementOfSeq
<1>3. /\ List \in Seq(Rows) /\ Len(List) = Len(commands)
      /\ \A j \in 1..Len(commands) :
           List[j] = [key |-> commands[j].key, active |-> commands[j].active,
                      write |-> commands[j].write, limit |-> limits[commands[j].key]]
  BY ListFacts DEF RowOf
<1>4. /\ commands' \in Seq(CommandType)
      /\ Len(commands') = Len(commands) - 1
      /\ \A k \in 1..(Len(commands) - 1) :
           commands'[k] = IF k < i THEN commands[k] ELSE commands[k + 1]
  BY <1>1, <1>2, RemoveAtProperties
<1>5. /\ limits' \in [Keys -> Limits \cup {NoLimit}]
      /\ \A k \in Keys : k # key => limits'[k] = limits[k]
  BY <1>2, WithoutFacts DEF RemoveCommand, Without, PoolsHold
<1>6. /\ List' \in Seq(Rows) /\ Len(List') = Len(commands')
      /\ \A j \in 1..Len(commands') :
           List'[j] = [key |-> commands'[j].key, active |-> commands'[j].active,
                       write |-> commands'[j].write, limit |-> limits'[commands'[j].key]]
  BY <1>4, <1>5, NextList
<1>7. /\ RemoveAt(List, i) \in Seq(Rows)
      /\ Len(RemoveAt(List, i)) = Len(commands) - 1
      /\ \A k \in 1..(Len(commands) - 1) :
           RemoveAt(List, i)[k] = IF k < i THEN List[k] ELSE List[k + 1]
  <2>1. i \in 1..Len(List) /\ List \in Seq(Rows)
    BY <1>2, <1>3
  <2>2. /\ RemoveAt(List, i) \in Seq(Rows)
        /\ Len(RemoveAt(List, i)) = Len(List) - 1
        /\ \A k \in 1..(Len(List) - 1) :
             RemoveAt(List, i)[k] = IF k < i THEN List[k] ELSE List[k + 1]
    BY <2>1, RemoveAtProperties
  <2>3. QED
    BY <1>3, <2>2
<1>8. ASSUME NEW k \in 1..(Len(commands) - 1), NEW j \in 1..Len(commands), j # i,
             commands'[k] = commands[j]
      PROVE  List'[k] = List[j]
  <2>1. commands[j].key # key
    BY <1>2, <1>8 DEF CommandsOwnItems
  <2>2. limits'[commands[j].key] = limits[commands[j].key]
    BY <1>2, <1>5, <2>1
  <2>3. List'[k] = [key |-> commands[j].key, active |-> commands[j].active,
                    write |-> commands[j].write, limit |-> limits[commands[j].key]]
    BY <1>4, <1>6, <1>8, <2>2
  <2>4. QED
    BY <1>3, <2>3
<1>9. ASSUME NEW k \in 1..(Len(commands) - 1)
      PROVE  List'[k] = RemoveAt(List, i)[k]
  <2>1. CASE k < i
    <3>1. k \in 1..Len(commands) /\ k # i
      BY <1>2, <2>1
    <3>2. commands'[k] = commands[k]
      BY <1>4, <2>1
    <3>3. QED
      BY <1>7, <1>8, <2>1, <3>1, <3>2
  <2>2. CASE ~(k < i)
    <3>1. k + 1 \in 1..Len(commands) /\ k + 1 # i
      BY <1>2, <2>2
    <3>2. commands'[k] = commands[k + 1]
      BY <1>4, <2>2
    <3>3. QED
      BY <1>7, <1>8, <2>2, <3>1, <3>2
  <2>3. QED
    BY <2>1, <2>2
<1>10. List' = RemoveAt(List, i)
  BY <1>4, <1>6, <1>7, <1>9, SeqEqual
<1>11. QED
  BY <1>2, <1>3, <1>10

(* Without commands there are no rows.                                     *)
LEMMA EmptyList ==
  /\ commands = <<>> => List = <<>>
  /\ commands' = <<>> => List' = <<>>
<1>1. ASSUME commands = <<>> PROVE List = <<>>
  <2>1. Len(commands) = 0
    BY <1>1
  <2>2. List = [i \in {} |-> RowOf(commands[i])]
    BY <2>1 DEF List
  <2>3. QED
    BY <2>2
<1>2. ASSUME commands' = <<>> PROVE List' = <<>>
  <2>1. Len(commands') = 0
    BY <1>2
  <2>2. List' = [i \in {} |-> RowOf(commands[i])']
    BY <2>1 DEF List
  <2>3. QED
    BY <2>2
<1>3. QED
  BY <1>1, <1>2

LEMMA SameList ==
  ASSUME UNCHANGED <<commands, limits>>
  PROVE  List' = List
BY DEF List, RowOf

(* A change of the list while the adapter is up.                           *)
LEMMA EditStep ==
  ASSUME job # "boot", job' # "boot", file' = file,
         \/ List' = List
         \/ \E i \in 1..Len(List) : List' = RemoveAt(List, i)
         \/ \E r \in Rows :
              \/ /\ Len(List) < Capacity
                 /\ \A j \in 1..Len(List) : List[j].key # r.key
                 /\ List' = Append(List, r)
              \/ \E i \in 1..Len(List) : /\ List[i].key = r.key
                                          /\ List' = [List EXCEPT ![i] = r]
  PROVE  [Stored!Next]_(Stored!vars)
<1>1. CASE List' = List
  BY <1>1 DEF Stored!vars
<1>2. CASE \E i \in 1..Len(List) : List' = RemoveAt(List, i)
  BY <1>2 DEF Stored!Next, Stored!Edit, Stored!RemoveRow, Stored!RemoveAt, RemoveAt
<1>3. ASSUME NEW r \in Rows, Len(List) < Capacity,
             \A j \in 1..Len(List) : List[j].key # r.key, List' = Append(List, r)
      PROVE  Stored!Next
  BY <1>3 DEF Stored!Next, Stored!Edit, Stored!AddRow
<1>4. ASSUME NEW r \in Rows, NEW i \in 1..Len(List), List[i].key = r.key,
             List' = [List EXCEPT ![i] = r]
      PROVE  Stored!Next
  BY <1>4 DEF Stored!Next, Stored!Edit, Stored!ReplaceRow
<1>5. QED
  BY <1>1, <1>2, <1>3, <1>4

(* Nothing that is stored or listed changes.                               *)
LEMMA QuietStep ==
  ASSUME List' = List, file' = file, (job = "boot") = (job' = "boot")
  PROVE  [Stored!Next]_(Stored!vars)
BY DEF Stored!vars

(* Saving, as a client asked for it or at the end of an upload.            *)
LEMMA SaveStep ==
  ASSUME TypeOK, job # "boot", job' # "boot", SaveFile, UNCHANGED <<commands, limits>>
  PROVE  [Stored!Next]_(Stored!vars)
<1>1. List' = List
  BY SameList
<1>2. CASE commands = <<>>
  BY <1>1, <1>2, QuietStep DEF SaveFile
<1>3. CASE commands # <<>>
  <2>1. commands \in Seq(CommandType) /\ Len(commands) # 0
    BY <1>3, EmptySeq DEF TypeOK
  <2>2. Len(List) = Len(commands) /\ List # <<>>
    BY <2>1, ListFacts, EmptySeq
  <2>3. \E n \in 0..Len(List) : file' = SubSeq(List, 1, n)
    BY <1>3, <2>2 DEF SaveFile
  <2>4. Stored!Save
    BY <1>1, <2>2, <2>3 DEF Stored!Save
  <2>5. QED
    BY <2>4 DEF Stored!Next
<1>4. QED
  BY <1>2, <1>3

(* Every step of the command manager is one of the list, or does not show. *)
LEMMA ListStep ==
  ASSUME IInv, Next
  PROVE  [Stored!Next]_(Stored!vars)
<1>1. /\ TypeOK /\ CommandsOwnItems /\ PoolsHold /\ BootRestores
      /\ limits \in [Keys -> Limits \cup {NoLimit}]
      /\ Cardinality(Limited(limits)) <= LimitCap
      /\ file \in Seq(Rows)
  BY DEF IInv, TypeOK, PoolsHold
<1>2. ASSUME NEW row \in Requests, Insert(row) PROVE [Stored!Next]_(Stored!vars)
  <2>1. row \in Rows /\ Put(row, limits)
    BY <1>2, CommandsAssumption DEF Insert
  <2>2. job # "boot" /\ job' # "boot" /\ file' = file
    BY <1>2 DEF Insert
  <2>3. QED
    BY <1>1, <2>1, <2>2, PutList, EditStep
<1>3. ASSUME NEW key \in Keys, RemoveCommand(key) PROVE [Stored!Next]_(Stored!vars)
  <2>1. job # "boot" /\ job' # "boot" /\ file' = file
    BY <1>3 DEF RemoveCommand
  <2>2. \E i \in 1..Len(List) : List' = RemoveAt(List, i)
    BY <1>1, <1>3, RemoveList
  <2>3. QED
    BY <2>1, <2>2, EditStep
<1>4. CASE RemoveAll
  <2>1. List' = <<>>
    BY <1>4, EmptyList DEF RemoveAll
  <2>2. Stored!Clear
    BY <1>4, <2>1 DEF RemoveAll, Stored!Clear
  <2>3. QED
    BY <2>2 DEF Stored!Next
<1>5. CASE Wipe
  <2>1. List' = <<>>
    BY <1>5, EmptyList DEF Wipe
  <2>2. Stored!Clear
    BY <1>5, <2>1 DEF Wipe, Stored!Clear
  <2>3. QED
    BY <2>2 DEF Stored!Next
<1>6. CASE Save
  BY <1>1, <1>6, SaveStep DEF Save
<1>7. ASSUME \/ Load
             \/ \E rows \in Uploads : Upload(rows)
      PROVE  [Stored!Next]_(Stored!vars)
  <2>1. UNCHANGED <<commands, limits>> /\ file' = file /\ job # "boot" /\ job' # "boot"
    BY <1>7 DEF Load, Upload
  <2>2. QED
    BY <2>1, SameList, QuietStep
(* A row that is loaded over the list changes it; while the adapter boots  *)
(* the list is the file all along.                                         *)
<1>8. CASE LoadRow
  <2>1. file' = file /\ job' = job
    BY <1>8 DEF LoadRow
  <2>2. CASE job = "boot"
    BY <2>1, <2>2 DEF Stored!vars
  <2>3. CASE job # "boot"
    <3>1. Head(todo) \in Rows /\ Put(Head(todo), Without(Head(todo).key))
      BY <1>1, <1>8, HeadTailProperties DEF LoadRow, TypeOK
    <3>2. Head(todo).key \in Keys
      BY <3>1 DEF Rows
    <3>3. /\ Without(Head(todo).key) \in [Keys -> Limits \cup {NoLimit}]
          /\ Cardinality(Limited(Without(Head(todo).key))) <= LimitCap
          /\ \A k \in Keys : k # Head(todo).key => Without(Head(todo).key)[k] = limits[k]
      BY <1>1, <3>2, WithoutFacts DEF Without
    <3>4. QED
      BY <1>1, <2>1, <2>3, <3>1, <3>3, PutList, EditStep
  <2>4. QED
    BY <2>2, <2>3
(* When the adapter has started every row of the file is listed.           *)
<1>9. CASE LoadDone
  <2>1. CASE job = "boot"
    <3>1. List \o <<>> = file /\ List \in Seq(Rows)
      BY <1>1, <1>9, <2>1, ListFacts DEF LoadDone, BootRestores
    <3>2. List = file
      BY <3>1, ConcatEmptySeq
    <3>3. List' = List /\ file' = file /\ job' = "idle"
      BY <1>9, <2>1, SameList DEF LoadDone
    <3>4. Stored!Started
      BY <2>1, <3>2, <3>3 DEF Stored!Started
    <3>5. QED
      BY <3>4 DEF Stored!Next
  <2>2. CASE job = "upload"
    BY <1>1, <1>9, <2>2, SaveStep DEF LoadDone
  <2>3. CASE job # "boot" /\ job # "upload"
    <3>1. List' = List /\ file' = file /\ job' = "idle"
      BY <1>9, <2>3, SameList DEF LoadDone
    <3>2. QED
      BY <2>3, <3>1, QuietStep
  <2>4. QED
    BY <2>1, <2>2, <2>3
<1>10. CASE Restart
  <2>1. Stored!Restart
    BY <1>10 DEF Restart, Stored!Restart
  <2>2. QED
    BY <2>1 DEF Stored!Next
<1>11. QED
  BY <1>2, <1>3, <1>4, <1>5, <1>6, <1>7, <1>8, <1>9, <1>10 DEF Next

(* The command manager keeps the list it promises to keep: one that        *)
(* changes row by row, and of which a restart, at any point of loading,    *)
(* uploading or saving, brings back what was saved, in full, before the    *)
(* next change.                                                            *)
THEOREM ListImplementsSavedList == Spec => ImplementsList
<1>1. Init => Stored!Init
  BY DEF Init, Stored!Init
<1>2. IInv /\ [Next]_vars => [Stored!Next]_(Stored!vars)
  <2>1. ASSUME IInv, UNCHANGED vars PROVE UNCHANGED Stored!vars
    <3>1. List' = List /\ file' = file /\ job' = job
      BY <2>1, SameList DEF vars
    <3>2. QED
      BY <3>1 DEF Stored!vars
  <2>2. QED
    BY <2>1, ListStep
<1>3. QED
  BY <1>1, <1>2, Invariance, PTL DEF Spec, ImplementsList, Stored!Spec
=============================================================================
