------------------------------ MODULE Commands ------------------------------
(***************************************************************************)
(* The list of commands of the internal variant and what has to agree with *)
(* it: the poll items of the ebus controller, the pools that hold parts of *)
(* the commands, and the file (src/app/command_manager.cpp, command.cpp,   *)
(* the callbacks in src/app/app.cpp, src/api/commands_api.cpp).            *)
(*                                                                         *)
(* Only the main task while it boots and, afterwards, the HTTP server's    *)
(* task change the list.  Other tasks see every state between two steps:   *)
(* the lock is held for one command of a file at a time.  The power may    *)
(* fail at any time.                                                       *)
(*                                                                         *)
(* A row is a command as it stands in a request or a file.  A command has  *)
(* one field; its minimum and maximum are one limit.  Keys are taken to    *)
(* have identifiers of their own (StringPool not full).                    *)
(***************************************************************************)
EXTENDS Naturals, FiniteSets, SequencesExt

CONSTANTS
  Keys,       \* keys of commands
  Writes,     \* write commands; 0 stands for none
  Limits,     \* overrides of a field's limit; 0 stands for none
  PollIds,    \* identifiers the controller gives to poll items
  NoPoll,     \* poll_id_ 0
  Capacity,   \* command_capacity_
  WriteCap,   \* write_cmd_capacity_
  LimitCap,   \* override_field_capacity_
  Requests,   \* the rows that clients send
  MaxUpload   \* the longest uploaded file

NoWrite == 0
NoLimit == 0

Rows == [key : Keys, active : BOOLEAN, write : Writes \cup {NoWrite},
         limit : Limits \cup {NoLimit}]

ASSUME CommandsAssumption ==
  /\ IsFiniteSet(Keys)
  /\ IsFiniteSet(Writes) /\ Writes \subseteq Nat \ {0}
  /\ Limits \subseteq Nat \ {0}
  /\ NoPoll \notin PollIds
  /\ Capacity \in Nat /\ WriteCap \in Nat /\ LimitCap \in Nat
  /\ Requests \subseteq Rows
  /\ MaxUpload \in Nat

VARIABLES
  commands,   \* commands_
  writes,     \* write_cmds_; a command refers to an entry, and none goes away
  limits,     \* field_overrides_: the override of each key, or 0
  items,      \* the controller's poll items
  file,       \* the complete rows of commands.json
  job,        \* what the task is doing that takes several steps
  todo        \* the rows it has yet to insert

vars == <<commands, writes, limits, items, file, job, todo>>

Init ==
  /\ commands = <<>>
  /\ writes = {}
  /\ limits = [k \in Keys |-> NoLimit]
  /\ items = {}
  /\ file = <<>>
  /\ job = "boot"
  /\ todo = <<>>

---------------------------------------------------------------------------
(* The row a command is saved as; fromTabular makes it a command again.    *)
RowOf(c) ==
  [key |-> c.key, active |-> c.active, write |-> c.write, limit |-> limits[c.key]]

List == [i \in 1..Len(commands) |-> RowOf(commands[i])]

(* Mutant: the list is not searched.                                       *)
ListedNone(key) == {}

(* The place of a key in the list.                                         *)
Listed(key) == {i \in 1..Len(commands) : commands[i].key = key}

(* Mutant: one write command too many is stored.                           *)
HasPlaceMore(write) == write \in writes \/ Cardinality(writes) <= WriteCap

(* setWriteCmd: a write command is shared with an equal one or takes a     *)
(* free place; without a place the command is read-only.                   *)
HasPlace(write) == write \in writes \/ Cardinality(writes) < WriteCap

WriteTaken(write) ==
  IF write # NoWrite /\ HasPlace(write) THEN write ELSE NoWrite

(* Mutants: overrides are not dropped; those of every key are.             *)
WithoutKept(key) == limits
WithoutAll(key) == [k \in Keys |-> NoLimit]

(* removeFieldOverrides.                                                   *)
Without(key) == [limits EXCEPT ![key] = NoLimit]

(* The entries of an overrides pool.                                       *)
Limited(pool) == {k \in Keys : pool[k] # NoLimit}

(* setFieldMinOverride, setFieldMaxOverride on the overrides pool.         *)
WithLimit(pool, key, limit) ==
  IF limit # NoLimit
     /\ (key \in Limited(pool) \/ Cardinality(Limited(pool)) < LimitCap)
  THEN [pool EXCEPT ![key] = limit]
  ELSE pool

(* removePollItem.                                                         *)
Released(poll) == {x \in items : x.id # poll}

(* addPollItem: the identifiers the controller may give to the command of  *)
(* a row, while it has the items pool.  It may refuse with 0.              *)
PollsFor(row, pool) ==
  IF row.active THEN {NoPoll} \cup (PollIds \ {x.id : x \in pool}) ELSE {NoPoll}

ItemsFor(row, poll) ==
  IF poll = NoPoll THEN {} ELSE {[id |-> poll, key |-> row.key]}

(* Mutant: the poll identifier of a replaced command is forgotten.         *)
OldItemsKept(i) == items

(* The items left when the changed callback has released that of the       *)
(* command in place i, whose identifier insertCommand carries over.        *)
OldItems(i) == Released(commands[i].poll)

(* fromTabular, fromJson, and the identifier that the callback sets.       *)
RowCommand(row, poll) ==
  [key |-> row.key, active |-> row.active, write |-> WriteTaken(row.write), poll |-> poll]

(* A row becomes a command, on the overrides base, then insertCommand and  *)
(* its callback: a command of that key is replaced, else it is appended; a *)
(* full list drops it.                                                     *)
Put(row, base) ==
  /\ writes' = writes \cup ({WriteTaken(row.write)} \ {NoWrite})
  /\ limits' = WithLimit(base, row.key, row.limit)
  /\ \/ \E i \in Listed(row.key) : \E poll \in PollsFor(row, OldItems(i)) :
          /\ commands' = [commands EXCEPT ![i] = RowCommand(row, poll)]
          /\ items' = OldItems(i) \cup ItemsFor(row, poll)
     \/ /\ Listed(row.key) = {}
        /\ Len(commands) < Capacity
        /\ \E poll \in PollsFor(row, items) :
             /\ commands' = Append(commands, RowCommand(row, poll))
             /\ items' = items \cup ItemsFor(row, poll)
     \/ /\ Listed(row.key) = {}
        /\ Len(commands) >= Capacity
        /\ UNCHANGED <<commands, items>>

---------------------------------------------------------------------------
(* handleCommandsInsert, one command.                                      *)
Insert(row) ==
  /\ job = "idle"
  /\ Put(row, limits)
  /\ UNCHANGED <<file, job, todo>>

(* handleCommandsRemove, one key: the removed callback releases the item.  *)
RemoveCommand(key) ==
  /\ job = "idle"
  /\ \E i \in Listed(key) :
       /\ commands' = RemoveAt(commands, i)
       /\ items' = Released(commands[i].poll)
  /\ limits' = Without(key)
  /\ UNCHANGED <<writes, file, job, todo>>

(* handleCommandsRemove without keys.                                      *)
RemoveAll ==
  /\ job = "idle"
  /\ commands' = <<>>
  /\ items' = {x \in items : \A i \in 1..Len(commands) : x.id # commands[i].poll}
  /\ limits' = [k \in Keys |-> NoLimit]
  /\ UNCHANGED <<writes, file, job, todo>>

(* handleCommandsWipe: no callback is called; the file is removed, unless  *)
(* that fails.                                                             *)
Wipe ==
  /\ job = "idle"
  /\ commands' = <<>>
  /\ limits' = [k \in Keys |-> NoLimit]
  /\ file' \in {<<>>, file}
  /\ UNCHANGED <<writes, items, job, todo>>

(* saveCommands: an empty list is not saved.  The file is truncated, then  *)
(* written; a full file system, or a power failure to come, leaves some of *)
(* the rows.                                                               *)
SaveFile ==
  IF commands = <<>> THEN file' = file
  ELSE \E n \in 0..Len(commands) : file' = SubSeq(List, 1, n)

(* handleCommandsSave.                                                     *)
Save ==
  /\ job = "idle"
  /\ SaveFile
  /\ UNCHANGED <<commands, writes, limits, items, job, todo>>

(* handleCommandsLoad.                                                     *)
Load ==
  /\ job = "idle"
  /\ job' = "load"
  /\ todo' = file
  /\ UNCHANGED <<commands, writes, limits, items, file>>

(* handleCommandsUpload, with the rows of the uploaded file.               *)
Upload(rows) ==
  /\ job = "idle"
  /\ job' = "upload"
  /\ todo' = rows
  /\ UNCHANGED <<commands, writes, limits, items, file>>

(* deserializeCommands, one row: overrides left by an earlier command of   *)
(* the key are dropped first.                                              *)
LoadRow ==
  /\ todo # <<>>
  /\ Put(Head(todo), Without(Head(todo).key))
  /\ todo' = Tail(todo)
  /\ UNCHANGED <<file, job>>

(* The end of loading; an upload goes on to save the list.                 *)
LoadDone ==
  /\ job # "idle"
  /\ todo = <<>>
  /\ job' = "idle"
  /\ IF job = "upload" THEN SaveFile ELSE file' = file
  /\ UNCHANGED <<commands, writes, limits, items, todo>>

(* The adapter restarts, for whatever reason, and loads the file.          *)
Restart ==
  /\ commands' = <<>>
  /\ writes' = {}
  /\ limits' = [k \in Keys |-> NoLimit]
  /\ items' = {}
  /\ job' = "boot"
  /\ todo' = file
  /\ UNCHANGED file

Uploads == UNION {[1..n -> Requests] : n \in 1..MaxUpload}

Next ==
  \/ \E row \in Requests : Insert(row)
  \/ \E key \in Keys : RemoveCommand(key)
  \/ RemoveAll \/ Wipe \/ Save \/ Load
  \/ \E rows \in Uploads : Upload(rows)
  \/ LoadRow \/ LoadDone
  \/ Restart

Spec == Init /\ [][Next]_vars

---------------------------------------------------------------------------
(* Properties                                                              *)

Polls == PollIds \cup {NoPoll}

CommandType == [key : Keys, active : BOOLEAN, write : Writes \cup {NoWrite},
                poll : Polls]

(* Every variable holds values of its type.                                *)
TypeOK ==
  /\ commands \in Seq(CommandType)
  /\ writes \in SUBSET Writes
  /\ limits \in [Keys -> Limits \cup {NoLimit}]
  /\ items \in SUBSET [id : PollIds, key : Keys]
  /\ file \in Seq(Rows)
  /\ job \in {"boot", "idle", "load", "upload"}
  /\ todo \in Seq(Rows)

(* Every identifier a command carries is that of an item of its own, made  *)
(* for its key, so that a poll's result finds its command, and releasing   *)
(* it stops no other command's polling (insertCommand, App::initServices). *)
CommandsOwnItems ==
  /\ \A i \in 1..Len(commands) : commands[i].poll # NoPoll =>
       [id |-> commands[i].poll, key |-> commands[i].key] \in items
  /\ \A x, y \in items : x.id = y.id => x = y
  /\ \A i, j \in 1..Len(commands) :
       commands[i].key = commands[j].key => i = j

(* Items that no command carries: the controller polls them for nobody.    *)
Orphans ==
  {x \in items : \A i \in 1..Len(commands) : commands[i].poll # x.id}

(* "Setup lifecycle listeners to keep ebusController in sync with the      *)
(* CommandManager" (App::initServices): no item is polled for nobody.      *)
InSync == Orphans = {}

(* It is true of every operation but wipeCommands.                         *)
OnlyWipeOrphans == [][Wipe \/ Orphans' \subseteq Orphans]_vars

(* While the adapter boots, what is listed and what is yet to come are the *)
(* file: every row finds a place in the list and in both pools, whatever   *)
(* happened before it was saved and however little of it was written       *)
(* (loadCommands, saveCommands).                                           *)
BootRestores == job = "boot" => List \o todo = file

(* A row that is loaded brings its own limit or, when the pool is full,    *)
(* none, but never that of an earlier command of its key                   *)
(* (deserializeCommands: "drop any stale field overrides").                *)
LoadedLimits ==
  [][LoadRow => limits'[Head(todo).key] \in {Head(todo).limit, NoLimit}]_vars

(* Seen from outside the list is one that changes row by row, is saved and *)
(* comes back (SavedList): pools that are full, rows that are refused, a   *)
(* load or an upload under way, and a restart between any two steps of it  *)
(* do not show (loadCommands, saveCommands, insertCommand).                *)
Stored == INSTANCE SavedList WITH
            list <- IF job = "boot" THEN file ELSE List,
            saved <- file,
            up <- job # "boot"

ImplementsList == Stored!Spec

---------------------------------------------------------------------------
(* The inductive invariant behind these properties (CommandsProofs).       *)

(* Parts of the commands are in the pools, which keep within their bounds. *)
PoolsHold ==
  /\ \A i \in 1..Len(commands) : commands[i].write \in writes \cup {NoWrite}
  /\ Cardinality(writes) <= WriteCap
  /\ Cardinality(Limited(limits)) <= LimitCap
  /\ Len(commands) <= Capacity

FileWrites == {file[i].write : i \in 1..Len(file)} \ {NoWrite}
FileLimited == {file[i].key : i \in {j \in 1..Len(file) : file[j].limit # NoLimit}}

(* What was saved fits.                                                    *)
FileFits ==
  /\ \A i, j \in 1..Len(file) : file[i].key = file[j].key => i = j
  /\ Cardinality(FileWrites) <= WriteCap
  /\ Cardinality(FileLimited) <= LimitCap
  /\ Len(file) <= Capacity

(* While booting nothing is in the pools but for the file's sake.          *)
BootPools ==
  job = "boot" =>
    /\ writes \subseteq FileWrites
    /\ Limited(limits) \subseteq FileLimited
    /\ \A k \in Limited(limits) : Listed(k) # {}

IdleIsDone == job = "idle" => todo = <<>>

IInv ==
  /\ TypeOK
  /\ CommandsOwnItems
  /\ PoolsHold
  /\ FileFits
  /\ BootRestores
  /\ BootPools
  /\ IdleIsDone
=============================================================================
