------------------------------- MODULE Upgrade -------------------------------
(***************************************************************************)
(* New firmware: an upload or a download on the HTTP server's task         *)
(* (UpgradeManager), or a push on a task of its own (EspOtaManager).  Each *)
(* way stops the services, writes the partition that is not running piece  *)
(* by piece, selects it and restarts; the two tasks do not know of each    *)
(* other.                                                                  *)
(*                                                                         *)
(* Flash that is written twice without being erased holds neither piece,   *)
(* so that each piece of the partition is the set of those who wrote it.   *)
(***************************************************************************)
EXTENDS Naturals

CONSTANT Pieces  \* writes that an image takes

ASSUME UpgradeAssumption == Pieces \in Nat \ {0}

Updaters == {"httpd", "espota"}

VARIABLES
  place,         \* where each of them is
  hooked,        \* pre_upgrade_done_
  services,      \* what App::stop stops is running
  slot,          \* the other partition: who wrote each piece since it was erased
  written,       \* how many pieces each has written
  selected,      \* the other partition is to be booted
  openers        \* who erased the other partition since the start

upgradeVars == <<place, hooked, services, slot, written, selected, openers>>

Erased == [i \in 1..Pieces |-> {}]

(* The image is complete, and from one source.                             *)
Whole(content) == \E u \in Updaters : \A i \in 1..Pieces : content[i] = {u}

UpgradeInit ==
  /\ place = [u \in Updaters |-> "idle"]
  /\ hooked = [u \in Updaters |-> FALSE]
  /\ services = TRUE
  /\ slot = Erased
  /\ written = [u \in Updaters |-> 0]
  /\ selected = FALSE /\ openers = {}

Go(u, from, to) == place[u] = from /\ place' = [place EXCEPT ![u] = to]

(* Mutant: the services are left alone.                                    *)
PrepareLater(u) ==
  /\ Go(u, "idle", "prepared")
  /\ UNCHANGED <<hooked, services, slot, written, selected, openers>>

(* prepareForUpgrade: an upload or a download calls the hook each time, a  *)
(* push once.                                                              *)
Prepare(u) ==
  /\ Go(u, "idle", IF u = "espota" /\ hooked[u] THEN "prepared" ELSE "stopping")
  /\ hooked' = [hooked EXCEPT ![u] = u = "espota" /\ @]
  /\ UNCHANGED <<services, slot, written, selected, openers>>

(* A request to download that is not valid is refused before the hook.     *)
Refuse ==
  /\ Go("httpd", "stopping", "idle")
  /\ UNCHANGED <<hooked, services, slot, written, selected, openers>>

(* The hook, App::stop, comes back.                                        *)
Stopped(u) ==
  /\ Go(u, "stopping", "prepared")
  /\ hooked' = [hooked EXCEPT ![u] = TRUE]
  /\ services' = FALSE
  /\ UNCHANGED <<slot, written, selected, openers>>

(* esp_ota_begin erases the partition.                                     *)
Open(u) ==
  /\ Go(u, "prepared", "open")
  /\ slot' = Erased
  /\ written' = [written EXCEPT ![u] = 0]
  /\ openers' = openers \cup {u}
  /\ UNCHANGED <<hooked, services, selected>>

WritePiece(u) ==
  /\ Go(u, "open", "open")
  /\ written[u] < Pieces
  /\ written' = [written EXCEPT ![u] = @ + 1]
  /\ slot' = [slot EXCEPT ![written[u] + 1] = @ \cup {u}]
  /\ UNCHANGED <<hooked, services, selected, openers>>

(* esp_ota_end checks the image.                                           *)
EndImage(u) ==
  /\ Go(u, "open", "ended")
  /\ written[u] = Pieces /\ Whole(slot)
  /\ UNCHANGED <<hooked, services, slot, written, selected, openers>>

(* Mutant: the partition is not selected.                                  *)
SelectForgotten(u) ==
  /\ Go(u, "ended", "restarting")
  /\ Whole(slot)
  /\ UNCHANGED <<hooked, services, slot, written, selected, openers>>

(* esp_ota_set_boot_partition, which checks it again, and the answer.      *)
Select(u) ==
  /\ Go(u, "ended", "restarting")
  /\ Whole(slot)
  /\ selected' = TRUE
  /\ UNCHANGED <<hooked, services, slot, written, openers>>

(* A request that is refused, a link that breaks or stalls past the limit, *)
(* a piece that is no firmware or cannot be written, or an image that is   *)
(* not whole ends the attempt.  The services stay stopped.                 *)
Fail(u) ==
  /\ place[u] \in {"prepared", "open", "ended"}
  /\ place' = [place EXCEPT ![u] = "idle"]
  /\ UNCHANGED <<hooked, services, slot, written, selected, openers>>

(* The boot loader takes the selected partition if its image is whole; the *)
(* partitions then change their parts.                                     *)
Updated == selected /\ Whole(slot)

BootUpgrade ==
  /\ place' = [u \in Updaters |-> "idle"]
  /\ hooked' = [u \in Updaters |-> FALSE]
  /\ services' = TRUE
  /\ slot' = IF Updated THEN Erased ELSE slot
  /\ written' = [u \in Updaters |-> 0]
  /\ selected' = FALSE /\ openers' = {}

UpgradeStep(u) ==
  \/ u = "httpd" /\ Refuse
  \/ Stopped(u) \/ Open(u) \/ WritePiece(u) \/ EndImage(u) \/ Select(u) \/ Fail(u)
=============================================================================
