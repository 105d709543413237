-------------------------------- MODULE Cron --------------------------------
(***************************************************************************)
(* Rules that write to the bus at certain minutes (src/app/cron.cpp), and  *)
(* the clock they go by, which starts in 1970 and is set over the network  *)
(* (src/network/sntp.cpp).                                                 *)
(*                                                                         *)
(* A schedule has five fields, each a set of parts: any value, a number or *)
(* a range, and a step.                                                    *)
(***************************************************************************)
EXTENDS Integers, FiniteSets

CONSTANTS
  Rules,         \* identifiers of rules
  Schedule,      \* the schedule of each
  LocalTime,     \* the fields of each minute of the clock
  MaxRules,      \* max_cron_rules
  MaxMinute      \* bound: the last minute

Minutes == 0..MaxMinute

Fields == {"minute", "hour", "day", "month", "weekday"}

Parts == [kind : {"any", "number", "range"}, from : Int, to : Int, step : Int]

ASSUME CronAssumption ==
  /\ IsFiniteSet(Rules)
  /\ MaxRules \in Nat /\ MaxMinute \in Nat
  /\ \A minute \in Minutes, f \in Fields : LocalTime[minute][f] \in Nat
  /\ \A r \in Rules, f \in Fields : \A part \in Schedule[r][f] :
       /\ part \in Parts
       /\ part.kind = "number" => part.to = part.from /\ part.step = 1

Lowest == [f \in Fields |-> IF f \in {"day", "month"} THEN 1 ELSE 0]

Highest(f) ==
  CASE f = "minute" -> 59 [] f = "hour" -> 23 [] f = "day" -> 31
    [] f = "month" -> 12 [] f = "weekday" -> 6

(* Sunday is 0, and 7 as well.                                             *)
Day(n, f) == IF f = "weekday" /\ n = 7 THEN 0 ELSE n

From(part, f) == IF part.kind = "any" THEN Lowest[f] ELSE Day(part.from, f)

To(part, f) == IF part.kind = "any" THEN Highest(f) ELSE Day(part.to, f)

(* The one range of days that goes round.                                  *)
Weekend(part, f) == f = "weekday" /\ From(part, f) = 6 /\ To(part, f) = 0

Ordered(part, f) ==
  Lowest[f] <= From(part, f) /\ From(part, f) <= To(part, f) /\ To(part, f) <= Highest(f)

(* matchSinglePart.                                                        *)
MatchPart(part, value, f) ==
  /\ part.step > 0
  /\ \/ /\ Weekend(part, f)
        /\ value \in {6, 0}
        /\ ((value - 6 + 7) % 7) % part.step = 0
     \/ /\ Ordered(part, f)
        /\ value \in From(part, f)..To(part, f)
        /\ (value - From(part, f)) % part.step = 0

MatchField(parts, value, f) == \E part \in parts : MatchPart(part, value, f)

MatchSchedule(r, time) == \A f \in Fields : MatchField(Schedule[r][f], time[f], f)

(* validateSinglePart.                                                     *)
ValidPart(part, f) == part.step > 0 /\ (Weekend(part, f) \/ Ordered(part, f))

(* Mutant: only the numbers are looked at, not their order.                *)
ValidFieldLax(parts, f) ==
  /\ parts # {}
  /\ \A part \in parts : part.step > 0 /\ {From(part, f), To(part, f)} \subseteq Lowest[f]..Highest(f)

ValidField(parts, f) == parts # {} /\ \A part \in parts : ValidPart(part, f)

(* validateRule, as far as the schedule goes.  One of five plain numbers   *)
(* is refused unless it means the first minute of a year that begins on a  *)
(* Sunday.                                                                 *)
Plain(r) == \A f \in Fields : \E part \in Schedule[r][f] :
              Schedule[r][f] = {part} /\ part.kind = "number"

Valid(r) ==
  /\ Plain(r) => MatchSchedule(r, Lowest)
  /\ \A f \in Fields : ValidField(Schedule[r][f], f)

Accepted == {r \in Rules : Valid(r)}

(* The minutes at which each rule is to be executed.                       *)
Due == [r \in Rules |-> {minute \in Minutes : MatchSchedule(r, LocalTime[minute])}]

VARIABLES
  rules,         \* rules_: those in use
  last,          \* last_triggered_minute
  file,          \* the rules in the file
  clock,         \* the minute
  executed       \* what was executed since the clock and the rules were last set

cronVars == <<rules, last, file, clock, executed>>

Never == [r \in Rules |-> -1]

CronInit ==
  /\ file \in SUBSET Rules /\ Cardinality(file) <= MaxRules
  /\ rules = file \cap Accepted
  /\ last = Never
  /\ clock = 0 /\ executed = {}

DueRules == {r \in rules : last[r] # clock /\ clock \in Due[r]}

(* Mutant: the minute is not noted.                                        *)
TickUnnoted ==
  /\ DueRules # {}
  /\ \E able \in SUBSET DueRules : executed' = executed \cup (able \X {clock})
  /\ UNCHANGED <<rules, last, file, clock>>

(* tick, under the lock of the rules.  A rule whose command is gone, or    *)
(* does not take the value, has had its minute all the same.               *)
Tick ==
  /\ DueRules # {}
  /\ last' = [r \in Rules |-> IF r \in DueRules THEN clock ELSE last[r]]
  /\ \E able \in SUBSET DueRules : executed' = executed \cup (able \X {clock})
  /\ UNCHANGED <<rules, file, clock>>

MinutePasses ==
  /\ clock < MaxMinute
  /\ clock' = clock + 1
  /\ UNCHANGED <<rules, last, file, executed>>

(* The answer of the time server.                                          *)
SetClock(minute) ==
  /\ clock' = minute
  /\ executed' = IF minute < clock THEN {} ELSE executed
  /\ UNCHANGED <<rules, last, file>>

(* saveRules: more rules than MaxRules are in use, but not written; the    *)
(* file may not be opened, or be cut where the file system is full.        *)
SavedRules(used) ==
  {file} \cup {kept \in SUBSET used : Cardinality(kept) <= MaxRules}

(* replaceRules: of the new rules those that are valid, which have not     *)
(* been executed.                                                          *)
ReplaceRules(new) ==
  /\ rules' = new \cap Accepted /\ last' = Never
  /\ executed' = {}
  /\ file' \in SavedRules(rules')
  /\ UNCHANGED clock

(* loadRules: a rule that is not valid, or whose command is gone, is left  *)
(* out.                                                                    *)
LoadRules ==
  /\ rules' \in SUBSET (file \cap Accepted)
  /\ last' = Never /\ executed' = {}
  /\ UNCHANGED <<file, clock>>

(* After a power failure the clock starts in 1970, after a restart it goes *)
(* on.                                                                     *)
BootCron(powered) ==
  /\ rules' \in SUBSET (file \cap Accepted)
  /\ last' = Never /\ executed' = {}
  /\ clock' = IF powered THEN clock ELSE 0
  /\ UNCHANGED file
=============================================================================
